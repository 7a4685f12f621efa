------------------------- MODULE GeneratorInvariant -------------------------
(***************************************************************************)
(* The module under construction, whatever the source: which functions it   *)
(* has and how they are called, what value_map holds for the body at hand   *)
(* and for the bodies around it, and where a call may stand.                *)
(***************************************************************************)
EXTENDS TypeInvariant

TestsSoFar == {n \in DOMAIN vals : ast[n].k = "test"}

\* A function for __main, for each top-level function and for each test so
\* far; the tests are numbered in the order in which they stand.
FunctionsInv ==
    /\ DOMAIN funcs = {Main} \cup TopLevelFns \cup TestsSoFar
    /\ funcs[Main].sym = Sym("__main")
    /\ Prototypes
    /\ \A i \in DOMAIN test_symbols : test_symbols[i] = TestSym(i - 1)
    /\ \A n \in TestsSoFar : \E i \in DOMAIN test_symbols : funcs[n].sym = TestSym(i - 1)
    /\ \A i \in DOMAIN test_symbols : \E n \in TestsSoFar : funcs[n].sym = TestSym(i - 1)
    /\ \A m, n \in TestsSoFar :
          \A i, j \in DOMAIN test_symbols :
             funcs[m].sym = TestSym(i - 1) /\ funcs[n].sym = TestSym(j - 1) => (m < n <=> i < j)

\* Only __main calls tests, and only when everything else was generated.
CallsInv ==
    \A f \in DOMAIN funcs :
        \A i \in DOMAIN funcs[f].ops :
            funcs[f].ops[i].op = "call" =>
                \E n \in Nodes : ast[n].k = "call" /\ funcs[f].ops[i].attr = Sym(ast[n].name)

\* A body ends where __main was left.
ReturnPointInv ==
    IF frames = <<>> THEN ip.fn = Main ELSE frames[1].ip.fn = Main

\* Node b gives variable x the value v: what a `let` evaluated to, or
\* the last parameter of that name.
Gives(b, x, v) ==
    IF ast[b].k = "let"
      THEN v = vals[b - 1]
      ELSE LET i == Max({j \in DOMAIN ast[b].params : ast[b].params[j].name = x})
           IN  \E f \in DOMAIN funcs :
                  /\ funcs[f].sym = Sym(ast[b].name)
                  /\ v = [fn |-> f, at |-> -i, type |-> funcs[f].params[i]]

\* v is the value of variable x at node n of body p.
LexicalValue(v, x, p, n) == Gives(BinderIn(x, p, n), x, v)

\* value_map holds the lexical value of each name in scope, and so does each
\* saved one for the declaration before whose body it was saved.
ValueMapInv ==
    /\ \A x \in DOMAIN value_map : LexicalValue(value_map[x], x, PathAt(pos), pos)
    /\ \A i \in DOMAIN frames :
          LET d == PathAt(pos)[i]
          IN  \A x \in DOMAIN frames[i].value_map :
                 LexicalValue(frames[i].value_map[x], x, path[d], d)

LexicalValues ==
    \A n \in DOMAIN vals :
        ast[n].k = "ident" => LexicalValue(vals[n], ast[n].name, path[n], n)

GeneratorInv ==
    /\ LexicalValues
    /\ phase = "generate" /\ pos > 0 =>
          FunctionsInv /\ CallsInv /\ ReturnPointInv /\ ValueMapInv
    /\ TestsRunInOrder
=============================================================================
