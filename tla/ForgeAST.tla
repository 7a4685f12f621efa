------------------------------ MODULE ForgeAST ------------------------------
(***************************************************************************)
(* The state of one run of the compiler that its passes share: the tree     *)
(* `ast`, flattened as ForgeNodes says, and a cursor `pos` with which a     *)
(* pass walks it, one action per handler.                                   *)
(***************************************************************************)
EXTENDS ForgeNodes

CONSTANTS
    Expressions,  \* the expressions a source may hold, flattened
    Bindings,     \* the `let` headers: [name, type]
    Signatures,   \* the function headers: [name, params, ret]
    Invocations,  \* the command lines
    MaxNodes,     \* bound: no tree is grown beyond this many nodes
    MaxNesting    \* bound: how deep declarations nest

VARIABLES
    ast,         \* the flattened tree
    path,        \* path[n]: the declarations around node n, outermost first
    phase,       \* what main() is doing
    pos,         \* the node the running pass visits next; 0 before it starts
    has_errors,  \* DiagnosticEmitter::has_errors()
    exit,        \* how the process ended: "none" while it runs
    why          \* which step ended it

runVars == <<phase, pos, has_errors, exit, why>>

-----------------------------------------------------------------------------
ASSUME SourceAssumption ==
    /\ \A e \in Expressions : WellFormed(e)
    /\ Bindings \subseteq [name : STRING, type : STRING]
    /\ Signatures \subseteq [name : STRING, params : Params, ret : STRING]

ASSUME BoundAssumption == MaxNodes \in Nat /\ MaxNesting \in Nat

ASSUME InvocationAssumption == Invocations \subseteq Seq(STRING)

-----------------------------------------------------------------------------
\* Positions of the tree, and the value of node n's i-th child in `results`,
\* what a pass has computed for the nodes before n.
Nodes           == 1..Len(ast)
Kid(n, i)       == n - ast[n].kids[i]
Operands(n, results) == [i \in 1..Len(ast[n].kids) |-> results[Kid(n, i)]]

\* std::map's operator[]: `map` with the entries of `new` in place of its own.
Entry(k, v)         == [key \in {k} |-> v]
Overwrite(map, new) ==
    [k \in DOMAIN map \cup DOMAIN new |-> IF k \in DOMAIN new THEN new[k] ELSE map[k]]

\* The declarations around the node that follows node n.
PathAfter(n) == CASE ast[n].k \in {"fn", "test"} -> Append(path[n], n)
                  [] ast[n].k = "end"            -> Front(path[n])
                  [] OTHER                       -> path[n]

\* FunctionDecls among Module::nodes: the ones every pass registers up front.
TopLevelFns == {n \in Nodes : ast[n].k = "fn" /\ path[n] = <<>>}

NamesOf(decls) == {ast[n].name : n \in decls}

ParamNames(n) ==
    IF ast[n].k = "fn" THEN {p.name : p \in Range(ast[n].params)} ELSE {}

-----------------------------------------------------------------------------
\* The next node to visit is of kind k.
At(k) == pos \in Nodes /\ ast[pos].k = k

Step == pos' = pos + 1 /\ UNCHANGED <<phase, exit, why>>

\* A handler that reports a diagnostic when `bad`, and goes on.
Report(bad) == has_errors' = (has_errors \/ bad)

Stop(code, reason) ==
    /\ phase' = "done"
    /\ exit' = code
    /\ why' = reason
    /\ UNCHANGED <<pos, has_errors>>

\* main() goes on to the next pass.
Enter(next) ==
    /\ phase' = next
    /\ pos' = 0
    /\ UNCHANGED <<has_errors, exit, why>>

\* Mutant of Verdict: the result of the pass is ignored.
VerdictIgnored(pass, next) == Enter(next)

\* A front-end pass returns !emitter.has_errors() and main() acts on it.
Verdict(pass, next) ==
    IF has_errors THEN Stop("failure", pass) ELSE Enter(next)
=============================================================================
