-------------------------- MODULE GeneratorProofs --------------------------
(***************************************************************************)
(* Proofs that the generator honours lexical scoping and runs the tests in  *)
(* order: GeneratorInv is an invariant of Spec.                             *)
(***************************************************************************)
EXTENDS GeneratorInvariant, TypeProofs

-----------------------------------------------------------------------------
\* A name in scope is bound by a `let` that precedes it in its body, or by the
\* parameters of the body's function.
LEMMA BinderIsMember ==
    ASSUME TreeInv, NEW p, NEW n, NEW x \in Scope(p, n)
    PROVE  LET b == BinderIn(x, p, n)
           IN  \/ b \in Lets(p, n) /\ ast[b].name = x
               \/ p # <<>> /\ b = Last(p) /\ x \in ParamNames(b) /\ ast[b].k = "fn"
<1> DEFINE lets == {m \in Lets(p, n) : ast[m].name = x}
<1>1. CASE lets # {}
  <2>1. BinderIn(x, p, n) = Max(lets)
    BY <1>1 DEF BinderIn
  <2>2. lets \subseteq 1..Len(ast) /\ Len(ast) \in Nat
    BY DEF Lets, Nodes, TreeInv
  <2>3. Max(lets) \in lets
    BY <1>1, <2>2, MaxIsMember
  <2> QED BY <2>1, <2>3
<1>2. CASE lets = {}
  <2>1. x \in ParamsOf(p)
    BY <1>2 DEF Scope, NamesOf
  <2>2. BinderIn(x, p, n) = Last(p)
    BY <1>2, <2>1 DEF BinderIn
  <2> QED BY <2>1, <2>2 DEF ParamsOf, ParamNames
<1> QED BY <1>1, <1>2

\* Binders are a matter of the tree.
LEMMA BinderUnchanged ==
    ASSUME UNCHANGED <<ast, path, open>>
    PROVE  \A x, p, n : BinderIn(x, p, n)' = BinderIn(x, p, n)
<1>1. \A p, n : Lets(p, n)' = Lets(p, n)
  BY DEF Lets, Nodes
<1>2. \A p : ParamsOf(p)' = ParamsOf(p)
  BY DEF ParamsOf, ParamNames
<1> QED BY <1>1, <1>2 DEF BinderIn

\* How the binder of a name changes from a node to the one that follows it.
LEMMA BinderStep ==
    ASSUME TreeInv, NEW n \in Nodes, NEW x
    PROVE  /\ ast[n].k \notin {"fn", "test", "end"} =>
                BinderIn(x, PathAt(n + 1), n + 1) =
                    IF ast[n].k = "let" /\ ast[n].name = x
                      THEN n ELSE BinderIn(x, PathAt(n), n)
           /\ ast[n].k \in {"fn", "test"} /\ x \in ParamNames(n) =>
                BinderIn(x, PathAt(n + 1), n + 1) = n
           /\ ast[n].k = "end" =>
                LET d == Last(PathAt(n))
                IN  BinderIn(x, PathAt(n + 1), n + 1) = BinderIn(x, path[d], d)
<1> DEFINE lets(p, m) == {l \in Lets(p, m) : ast[l].name = x}
<1>1. CASE ast[n].k \notin {"fn", "test", "end"}
  <2> DEFINE p == path[n]
  <2>1. PathAt(n + 1) = p /\ PathAt(n) = p
    BY <1>1, LetsStep DEF PathAfter
  <2>2. CASE ast[n].k = "let" /\ ast[n].name = x
    <3>1. n \in lets(p, n + 1)
      BY <2>2, LetsStep
    <3>2. \A m \in lets(p, n + 1) : m <= n
      BY DEF Lets, Nodes
    <3>3. lets(p, n + 1) \subseteq 1..Len(ast) /\ Len(ast) \in Nat
      BY DEF Lets, Nodes, TreeInv
    <3>4. Max(lets(p, n + 1)) \in lets(p, n + 1)
      BY <3>1, <3>3, MaxIsMember
    <3>5. Max(lets(p, n + 1)) = n
      <4> DEFINE S == lets(p, n + 1)
      <4>1. n \in S /\ S \subseteq Nat /\ n \in Nat
        BY <3>1, <3>3
      <4> HIDE DEF S
      <4>2. \A m \in S : m <= n
        BY <3>2 DEF S
      <4>3. Max(S) = CHOOSE i \in S : \A j \in S : i >= j
        BY DEF Max
      <4>4. n \in S /\ \A j \in S : n >= j
        BY <4>1, <4>2
      <4>5. Max(S) \in S /\ \A j \in S : Max(S) >= j
        BY <4>3, <4>4
      <4>6. \A m \in S : m >= n => m = n
        BY <4>1, <4>4
      <4>7. Max(S) = n
        BY <4>1, <4>5, <4>6
      <4> QED BY <4>7 DEF S
    <3>6. BinderIn(x, p, n + 1) = Max(lets(p, n + 1))
      BY <3>1 DEF BinderIn
    <3> QED BY <1>1, <2>1, <2>2, <3>5, <3>6
  <2>3. CASE ~(ast[n].k = "let" /\ ast[n].name = x)
    <3>1. lets(p, n + 1) = lets(p, n)
      BY <2>3, LetsStep
    <3>2. BinderIn(x, p, n + 1) = BinderIn(x, p, n)
      BY <3>1 DEF BinderIn
    <3> QED BY <1>1, <2>1, <2>3, <3>2
  <2> QED BY <2>2, <2>3
<1>2. CASE ast[n].k \in {"fn", "test"} /\ x \in ParamNames(n)
  <2> DEFINE q == Append(PathAt(n), n)
  <2>1. PathAt(n + 1) = q /\ Lets(q, n + 1) = {} /\ PathAt(n) \in Seq(Nat)
    BY <1>2, LetsStep DEF PathAfter
  <2>2. q # <<>> /\ Last(q) = n
    BY <2>1 DEF Last, Nodes
  <2>3. x \in ParamsOf(q)
    BY <1>2, <2>2 DEF ParamsOf
  <2>4. lets(q, n + 1) = {}
    BY <2>1
  <2>5. BinderIn(x, q, n + 1) = Last(q)
    BY <2>3, <2>4 DEF BinderIn
  <2> QED BY <1>2, <2>1, <2>2, <2>5
<1>3. CASE ast[n].k = "end"
  <2> DEFINE d == Last(PathAt(n))
             q == Front(PathAt(n))
  <2>1. PathAt(n + 1) = q /\ path[d] = q /\ Lets(q, n + 1) = Lets(q, d)
    BY <1>3, LetsStep DEF PathAfter
  <2>2. lets(q, n + 1) = lets(q, d)
    BY <2>1
  <2>3. BinderIn(x, q, n + 1) = BinderIn(x, q, d)
    BY <2>2 DEF BinderIn
  <2> QED BY <1>3, <2>1, <2>3
<1> QED BY <1>1, <1>2, <1>3

-----------------------------------------------------------------------------
\* The module only grows: a function keeps its symbol and its type.
Grows ==
    \A f \in DOMAIN funcs :
        /\ f \in DOMAIN funcs' /\ funcs'[f].sym = funcs[f].sym
        /\ funcs'[f].params = funcs[f].params /\ funcs'[f].rets = funcs[f].rets

\* So it does whatever the generator adds: operations, a block, a test.
LEMMA ModuleGrows ==
    ASSUME ModuleTyped,
           \/ funcs' = funcs
           \/ \E f, ops : funcs' = [funcs EXCEPT ![f].ops = ops]
           \/ \E f, b : funcs' = [funcs EXCEPT ![f].blocks = b]
           \/ \E n, r : n \notin DOMAIN funcs /\ funcs' = Overwrite(funcs, Entry(n, r))
    PROVE  Grows
<1>1. \A f \in DOMAIN funcs : DOMAIN funcs[f] = {"sym", "params", "rets", "blocks", "ops"}
  BY DEF ModuleTyped, FunctionTyped
<1>2. CASE funcs' = funcs
  BY <1>2 DEF Grows
<1>3. CASE \E f, ops : funcs' = [funcs EXCEPT ![f].ops = ops]
  BY <1>1, <1>3 DEF Grows
<1>4. CASE \E f, b : funcs' = [funcs EXCEPT ![f].blocks = b]
  BY <1>1, <1>4 DEF Grows
<1>5. CASE \E n, r : n \notin DOMAIN funcs /\ funcs' = Overwrite(funcs, Entry(n, r))
  BY <1>5 DEF Grows, Overwrite, Entry
<1> QED BY <1>2, <1>3, <1>4, <1>5

\* What a node gives its variables it gives them for good.
LEMMA GivesKept ==
    ASSUME UNCHANGED ast, Grows, vals \in Seq(Value), NEW w, vals' = Append(vals, w)
    PROVE  \A b, x, v : /\ Gives(b, x, v)
                        /\ ast[b].k = "let" => b - 1 \in 1..Len(vals)
                        => Gives(b, x, v)'
<1> SUFFICES ASSUME NEW b, NEW x, NEW v, Gives(b, x, v),
                    ast[b].k = "let" => b - 1 \in 1..Len(vals)
             PROVE  Gives(b, x, v)'
  OBVIOUS
<1>1. CASE ast[b].k = "let"
  <2>1. v = vals[b - 1] /\ vals'[b - 1] = vals[b - 1]
    BY <1>1 DEF Gives
  <2> QED BY <1>1, <2>1 DEF Gives
<1>2. CASE ast[b].k # "let"
  <2> DEFINE i == Max({j \in DOMAIN ast[b].params : ast[b].params[j].name = x})
  <2>1. PICK f \in DOMAIN funcs :
          /\ funcs[f].sym = Sym(ast[b].name)
          /\ v = [fn |-> f, at |-> -i, type |-> funcs[f].params[i]]
    BY <1>2 DEF Gives
  <2>2. /\ f \in DOMAIN funcs' /\ funcs'[f].sym = Sym(ast'[b].name)
        /\ v = [fn |-> f, at |-> -i, type |-> funcs'[f].params[i]]
    BY <2>1 DEF Grows
  <2> QED BY <1>2, <2>2 DEF Gives, Sym
<1> QED BY <1>1, <1>2

\* A step that generates no test adds no function.
LEMMA FunctionsKept ==
    ASSUME FunctionsInv, UNCHANGED <<ast, path, open>>, Prototypes', Grows,
           DOMAIN funcs' = DOMAIN funcs, UNCHANGED test_symbols,
           pos \in Nodes, ast[pos].k # "test", vals \in Seq(Value), Len(vals) = pos - 1,
           NEW w, vals' = Append(vals, w)
    PROVE  FunctionsInv'
<1>1. TestsSoFar' = TestsSoFar
  <2>1. DOMAIN vals' = DOMAIN vals \cup {pos}
    BY DEF Nodes
  <2> QED BY <2>1 DEF TestsSoFar
<1>2. TopLevelFns' = TopLevelFns
  BY TreeUnchanged
<1>3. TestsSoFar \subseteq DOMAIN funcs /\ Main \in DOMAIN funcs
  BY DEF FunctionsInv
<1>4. \A n \in TestsSoFar : funcs'[n].sym = funcs[n].sym
  BY <1>3 DEF Grows
<1>5. funcs'[Main].sym = Sym("__main")
  BY <1>3 DEF Grows, FunctionsInv
<1>6. DOMAIN funcs' = {Main} \cup TopLevelFns' \cup TestsSoFar'
  BY <1>1, <1>2 DEF FunctionsInv
<1>7. /\ \A i \in DOMAIN test_symbols' : test_symbols'[i] = TestSym(i - 1)
      /\ \A n \in TestsSoFar' : \E i \in DOMAIN test_symbols' : funcs'[n].sym = TestSym(i - 1)
      /\ \A i \in DOMAIN test_symbols' : \E n \in TestsSoFar' : funcs'[n].sym = TestSym(i - 1)
      /\ \A m, n \in TestsSoFar' :
            \A i, j \in DOMAIN test_symbols' :
               funcs'[m].sym = TestSym(i - 1) /\ funcs'[n].sym = TestSym(j - 1)
                  => (m < n <=> i < j)
  BY <1>1, <1>4 DEF FunctionsInv
<1> QED BY <1>5, <1>6, <1>7 DEF FunctionsInv, Sym, TestSym, Main

\* A new test is the last one, and its symbol is the next one.
LEMMA TestAdded ==
    ASSUME FunctionsInv, UNCHANGED <<ast, path, open>>, Prototypes', Grows,
           test_symbols \in Seq(Range(test_symbols)),
           test_symbols' = Append(test_symbols, TestSym(Len(test_symbols))),
           pos \in Nodes, ast[pos].k = "test", vals \in Seq(Value), Len(vals) = pos - 1,
           DOMAIN funcs' = DOMAIN funcs \cup {pos},
           funcs'[pos].sym = TestSym(Len(test_symbols)),
           NEW w, vals' = Append(vals, w)
    PROVE  FunctionsInv'
<1> DEFINE T == Len(test_symbols)
<1>1. TestsSoFar' = TestsSoFar \cup {pos} /\ \A n \in TestsSoFar : n \in Nat /\ n < pos
  <2>1. DOMAIN vals' = DOMAIN vals \cup {pos} /\ \A n \in DOMAIN vals : n \in Nat /\ n < pos
    BY DEF Nodes
  <2> QED BY <2>1 DEF TestsSoFar
<1>2. TopLevelFns' = TopLevelFns
  BY TreeUnchanged
<1>3. TestsSoFar \subseteq DOMAIN funcs /\ Main \in DOMAIN funcs
  BY DEF FunctionsInv
<1>4. \A n \in TestsSoFar : funcs'[n].sym = funcs[n].sym
  BY <1>3 DEF Grows
<1>5. funcs'[Main].sym = Sym("__main")
  BY <1>3 DEF Grows, FunctionsInv
<1>6. DOMAIN funcs' = {Main} \cup TopLevelFns' \cup TestsSoFar'
  BY <1>1, <1>2 DEF FunctionsInv
<1>7. /\ DOMAIN test_symbols = 1..T /\ T \in Nat /\ DOMAIN test_symbols' = 1..T + 1
      /\ \A i \in 1..T : test_symbols'[i] = test_symbols[i]
      /\ test_symbols'[T + 1] = TestSym(T)
  BY SeqAppend
<1>8. \A i \in 1..T + 1 : test_symbols'[i] = TestSym(i - 1)
  <2>1. T + 1 - 1 = T
    BY <1>7
  <2>2. \A i \in 1..T : test_symbols'[i] = TestSym(i - 1)
    BY <1>7 DEF FunctionsInv
  <2> QED BY <1>7, <2>1, <2>2
<1>9. \A n \in TestsSoFar : \E i \in 1..T : funcs'[n].sym = TestSym(i - 1)
  BY <1>4, <1>7 DEF FunctionsInv
<1>10. \A i \in 1..T : \E n \in TestsSoFar : funcs'[n].sym = TestSym(i - 1)
  BY <1>4, <1>7 DEF FunctionsInv
<1>11. \A i, j \in 1..T + 1 : TestSym(i - 1) = TestSym(j - 1) => i = j
  BY <1>7 DEF TestSym
<1>12. funcs'[pos].sym = TestSym(T + 1 - 1) /\ T + 1 \in 1..T + 1 /\ pos \in Nat
  BY <1>7 DEF Nodes
<1>13. ASSUME NEW m \in TestsSoFar', NEW n \in TestsSoFar', NEW i \in 1..T + 1,
              NEW j \in 1..T + 1,
              funcs'[m].sym = TestSym(i - 1), funcs'[n].sym = TestSym(j - 1)
       PROVE  m < n <=> i < j
  <2>1. ASSUME NEW k \in TestsSoFar, NEW l \in 1..T + 1, funcs'[k].sym = TestSym(l - 1)
        PROVE  l \in 1..T
    BY <1>7, <1>9, <1>11, <2>1
  <2>2. ASSUME NEW l \in 1..T + 1, funcs'[pos].sym = TestSym(l - 1)
        PROVE  l = T + 1
    BY <1>11, <1>12, <2>2
  <2>3. CASE m \in TestsSoFar /\ n \in TestsSoFar
    <3>1. i \in 1..T /\ j \in 1..T
      BY <1>13, <2>1, <2>3
    <3> QED BY <1>4, <1>7, <1>13, <2>3, <3>1 DEF FunctionsInv
  <2>4. CASE m \in TestsSoFar /\ n = pos
    <3>1. i \in 1..T /\ j = T + 1
      BY <1>13, <2>1, <2>2, <2>4
    <3> QED BY <1>1, <1>7, <2>4, <3>1
  <2>5. CASE m = pos /\ n \in TestsSoFar
    <3>1. j \in 1..T /\ i = T + 1
      BY <1>13, <2>1, <2>2, <2>5
    <3> QED BY <1>1, <1>7, <1>12, <2>5, <3>1
  <2>6. CASE m = pos /\ n = pos
    <3>1. i = T + 1 /\ j = T + 1
      BY <1>13, <2>2, <2>6
    <3> QED BY <1>7, <1>12, <2>6, <3>1
  <2> QED BY <1>1, <1>13, <2>3, <2>4, <2>5, <2>6
<1>14. \A n \in TestsSoFar' : \E i \in 1..T + 1 : funcs'[n].sym = TestSym(i - 1)
  BY <1>1, <1>7, <1>9, <1>12
<1>15. \A i \in 1..T + 1 : \E n \in TestsSoFar' : funcs'[n].sym = TestSym(i - 1)
  <2>1. \A i \in 1..T : \E n \in TestsSoFar' : funcs'[n].sym = TestSym(i - 1)
    BY <1>1, <1>10
  <2>2. \E n \in TestsSoFar' : funcs'[n].sym = TestSym(T + 1 - 1)
    BY <1>1, <1>12
  <2>3. \A i \in 1..T + 1 : i \in 1..T \/ i = T + 1
    BY <1>7
  <2> QED BY <2>1, <2>2, <2>3
<1> QED BY <1>5, <1>6, <1>7, <1>8, <1>13, <1>14, <1>15, ZenonT(30) DEF FunctionsInv, Sym, TestSym, Main

\* Calls are added for the calls of the tree only.
LEMMA CallsKept ==
    ASSUME CallsInv, ModuleTyped, UNCHANGED <<ast, path, open>>,
           \/ funcs' = funcs
           \/ \E f \in DOMAIN funcs : \E o :
                 /\ funcs' = [funcs EXCEPT ![f].ops = Append(@, o)]
                 /\ o.op = "call" =>
                       \E n \in Nodes : ast[n].k = "call" /\ o.attr = Sym(ast[n].name)
           \/ \E f, b : funcs' = [funcs EXCEPT ![f].blocks = b]
           \/ \E n, r : funcs' = Overwrite(funcs, Entry(n, r)) /\ r.ops = <<>>
    PROVE  CallsInv'
<1> DEFINE OfTree(o) ==
      o.op = "call" => \E n \in Nodes : ast[n].k = "call" /\ o.attr = Sym(ast[n].name)
<1>1. \A f \in DOMAIN funcs :
         /\ DOMAIN funcs[f] = {"sym", "params", "rets", "blocks", "ops"}
         /\ funcs[f].ops \in Seq(Range(funcs[f].ops))
         /\ \A i \in DOMAIN funcs[f].ops : OfTree(funcs[f].ops[i])
  BY DEF ModuleTyped, FunctionTyped, CallsInv
<1>2. Nodes' = Nodes
  BY TreeUnchanged
<1>3. SUFFICES \A f \in DOMAIN funcs' : \A i \in DOMAIN funcs'[f].ops : OfTree(funcs'[f].ops[i])
  BY <1>2 DEF CallsInv, Sym
<1> HIDE DEF OfTree
<1>4. CASE funcs' = funcs
  BY <1>1, <1>4
<1>5. CASE \E f \in DOMAIN funcs : \E o :
              funcs' = [funcs EXCEPT ![f].ops = Append(@, o)] /\ OfTree(o)
  <2>1. PICK f \in DOMAIN funcs : \E o :
           funcs' = [funcs EXCEPT ![f].ops = Append(@, o)] /\ OfTree(o)
    BY <1>5
  <2>2. PICK o : funcs' = [funcs EXCEPT ![f].ops = Append(@, o)] /\ OfTree(o)
    BY <2>1
  <2>3. /\ DOMAIN funcs' = DOMAIN funcs /\ \A g \in DOMAIN funcs : g # f => funcs'[g] = funcs[g]
        /\ funcs'[f].ops = Append(funcs[f].ops, o)
    BY <1>1, <2>2
  <2>4. \A i \in DOMAIN funcs'[f].ops : OfTree(funcs'[f].ops[i])
    <3> DEFINE s == funcs[f].ops
    <3>1. s \in Seq(Range(s)) /\ \A i \in DOMAIN s : OfTree(s[i])
      BY <1>1
    <3>2. /\ DOMAIN s = 1..Len(s) /\ Len(s) \in Nat /\ DOMAIN Append(s, o) = 1..Len(s) + 1
          /\ \A i \in 1..Len(s) : Append(s, o)[i] = s[i]
          /\ Append(s, o)[Len(s) + 1] = o
      BY <3>1, SeqAppend
    <3>3. \A i \in 1..Len(s) + 1 : OfTree(Append(s, o)[i])
      BY <2>2, <3>1, <3>2
    <3> QED BY <2>3, <3>2, <3>3
  <2> QED BY <1>1, <2>3, <2>4
<1>6. CASE \E f, b : funcs' = [funcs EXCEPT ![f].blocks = b]
  BY <1>1, <1>6
<1>7. CASE \E n, r : funcs' = Overwrite(funcs, Entry(n, r)) /\ r.ops = <<>>
  BY <1>1, <1>7 DEF Overwrite, Entry
<1> QED BY <1>4, <1>5, <1>6, <1>7 DEF OfTree

-----------------------------------------------------------------------------
\* Every name in scope has a binder, and a `let` among the binders precedes the
\* cursor together with the value it binds.
LEMMA BinderPrecedes ==
    ASSUME IInv, TypeInv, phase = "generate", pos \in Nodes, NEW p, NEW n \in Nat, n <= pos,
           NEW x \in Scope(p, n)
    PROVE  LET b == BinderIn(x, p, n) IN ast[b].k = "let" => b - 1 \in 1..Len(vals)
<1> DEFINE b == BinderIn(x, p, n)
<1>1. Len(vals) = pos - 1 /\ pos \in Nat \ {0} /\ TreeInv
  BY DEF TypeInv, GenerateTypes, Nodes, IInv
<1>2. CASE b \in Lets(p, n)
  <2>1. b \in Nodes /\ b < pos /\ ast[b].k = "let"
    BY <1>2 DEF Lets, Nodes
  <2>2. b > 1
    BY <2>1 DEF TypeInv, OperandsPrecede
  <2> QED BY <1>1, <2>1, <2>2 DEF Nodes
<1>3. CASE b \notin Lets(p, n)
  <2>1. ast[b].k = "fn"
    BY <1>1, <1>3, BinderIsMember
  <2> QED BY <2>1
<1> QED BY <1>2, <1>3

\* Node b of this state gives x the value v of this state, after the step.
GivesNext(b, x, v) == \A c, y, w : c = b /\ y = x /\ w = v => Gives(c, y, w)'

\* A step of the walk keeps value_map, and what was saved of it, lexical.
LEMMA WalkKeepsValues ==
    ASSUME IInv, TypeInv, GeneratorInv, phase = "generate", pos \in Nodes,
           UNCHANGED <<ast, path, open>>, pos' = pos + 1, Grows, NEW w, vals' = Append(vals, w),
           \/ /\ ast[pos].k \notin {"let", "fn", "test", "end"}
              /\ UNCHANGED <<value_map, frames>>
           \/ /\ ast[pos].k = "let" /\ UNCHANGED frames
              /\ value_map' = Overwrite(value_map, Entry(ast[pos].name, vals[pos - 1]))
           \/ /\ ast[pos].k \in {"fn", "test"}
              /\ frames' = Append(frames, [ip |-> ip, value_map |-> value_map])
              /\ \A x \in DOMAIN value_map' : x \in ParamNames(pos) /\ GivesNext(pos, x, value_map'[x])
           \/ /\ ast[pos].k = "end"
              /\ value_map' = Last(frames).value_map /\ frames' = Front(frames)
    PROVE  ValueMapInv'
<1> DEFINE p == PathAt(pos)
           d(i) == p[i]
<1>1. /\ TreeInv /\ p = path[pos] /\ pos \in Nat \ {0} /\ vals \in Seq(Value)
      /\ Len(vals) = pos - 1 /\ DOMAIN value_map = Scope(p, pos)
      /\ frames \in Seq(Range(frames)) /\ Len(frames) = Len(p)
      /\ \A i \in DOMAIN frames : DOMAIN frames[i].value_map = OuterScopes(pos)[i]
      /\ ValueMapInv
  <2>1. pos \in Nat \ {0}
    BY DEF Nodes
  <2> QED BY <2>1 DEF IInv, GenerateInv, TypeInv, TypeOK, GenerateTypes, GeneratorInv, PathAt
<1>2. /\ PathAt(pos + 1) = PathAfter(pos) /\ p \in Seq(Nat)
      /\ ast[pos].k = "end" => /\ p # <<>> /\ PathAt(pos + 1) = Front(p)
    BY <1>1, LetsStep DEF PathAfter
<1>3. \A i \in 1..Len(p) : d(i) \in Nat /\ d(i) < pos
  <2>1. pos \in 1..Len(ast) + 1
    BY <1>1 DEF Nodes, TreeInv
  <2>2. Nested(pos)
    BY <1>1, <2>1 DEF TreeInv
  <2> QED BY <2>2 DEF Nested, Nodes
<1>4. \A x \in DOMAIN value_map :
         Gives(BinderIn(x, p, pos), x, value_map[x])
  BY <1>1 DEF ValueMapInv, LexicalValue
<1>5. \A i \in DOMAIN frames : \A x \in DOMAIN frames[i].value_map :
         Gives(BinderIn(x, path[d(i)], d(i)), x, frames[i].value_map[x])
  BY <1>1 DEF ValueMapInv, LexicalValue
<1> HIDE DEF d
<1>6. \A x \in DOMAIN value_map : GivesNext(BinderIn(x, p, pos), x, value_map[x])
  <2> SUFFICES ASSUME NEW x \in Scope(p, pos), NEW b, b = BinderIn(x, p, pos),
                      NEW v, v = value_map[x]
               PROVE  Gives(b, x, v)'
    BY <1>1 DEF GivesNext
  <2>1. Gives(b, x, v)
    BY <1>1, <1>4
  <2>2. ast[b].k = "let" => b - 1 \in 1..Len(vals)
    BY <1>1, BinderPrecedes
  <2> QED BY <1>1, <2>1, <2>2, GivesKept
<1>7. \A i \in DOMAIN frames : \A x \in DOMAIN frames[i].value_map :
         GivesNext(BinderIn(x, path[d(i)], d(i)), x, frames[i].value_map[x])
  <2> SUFFICES ASSUME NEW i \in DOMAIN frames, NEW x \in DOMAIN frames[i].value_map,
                      NEW b, b = BinderIn(x, path[d(i)], d(i)),
                      NEW v, v = frames[i].value_map[x]
               PROVE  Gives(b, x, v)'
    BY DEF GivesNext
  <2>1. Gives(b, x, v)
    BY <1>5
  <2>2. i \in 1..Len(p)
    BY <1>1
  <2>3. x \in Scope(path[d(i)], d(i))
    BY <1>1, <2>2 DEF OuterScopes, ScopeAt, d
  <2>4. d(i) \in Nat /\ d(i) <= pos
    BY <1>1, <1>3, <2>2
  <2>5. ast[b].k = "let" => b - 1 \in 1..Len(vals)
    BY <2>3, <2>4, BinderPrecedes
  <2> QED BY <1>1, <2>1, <2>5, GivesKept
<1>8. SUFFICES /\ \A x \in DOMAIN value_map' :
                     GivesNext(BinderIn(x, PathAt(pos + 1), pos + 1), x, value_map'[x])
               /\ \A i \in DOMAIN frames' : \A x \in DOMAIN frames'[i].value_map :
                     LET e == PathAt(pos + 1)[i]
                     IN  GivesNext(BinderIn(x, path[e], e), x, frames'[i].value_map[x])
  <2>1. /\ \A n : PathAt(n)' = PathAt(n)
        /\ \A x, q, n : BinderIn(x, q, n)' = BinderIn(x, q, n)
    BY TreeUnchanged, BinderUnchanged
  <2>2. \A x \in DOMAIN value_map' : LexicalValue(value_map[x], x, PathAt(pos), pos)'
    BY <1>8, <2>1 DEF LexicalValue, GivesNext
  <2>3. \A i \in DOMAIN frames' : \A x \in DOMAIN frames'[i].value_map :
           LET e == PathAt(pos)[i]
           IN  LexicalValue(frames[i].value_map[x], x, path[e], e)'
    BY <1>8, <2>1 DEF LexicalValue, GivesNext
  <2> QED BY <2>2, <2>3 DEF ValueMapInv
<1>9. CASE ast[pos].k \notin {"let", "fn", "test", "end"} /\ UNCHANGED <<value_map, frames>>
  <2>1. PathAt(pos + 1) = p
    BY <1>1, <1>2, <1>9 DEF PathAfter
  <2>2. \A x : BinderIn(x, PathAt(pos + 1), pos + 1) = BinderIn(x, p, pos)
    BY <1>1, <1>9, BinderStep
  <2> QED BY <1>6, <1>7, <1>9, <2>1, <2>2 DEF d
<1>10. CASE /\ ast[pos].k = "let" /\ UNCHANGED frames
            /\ value_map' = Overwrite(value_map, Entry(ast[pos].name, vals[pos - 1]))
  <2>1. PathAt(pos + 1) = p
    BY <1>1, <1>2, <1>10 DEF PathAfter
  <2>2. \A x : BinderIn(x, PathAt(pos + 1), pos + 1) =
                  IF x = ast[pos].name THEN pos ELSE BinderIn(x, p, pos)
    BY <1>1, <1>10, BinderStep
  <2>3. /\ DOMAIN value_map' = DOMAIN value_map \cup {ast[pos].name}
        /\ value_map'[ast[pos].name] = vals[pos - 1]
        /\ \A x \in DOMAIN value_map \ {ast[pos].name} : value_map'[x] = value_map[x]
    BY <1>10 DEF Overwrite, Entry
  <2>4. GivesNext(pos, ast[pos].name, vals[pos - 1])
    <3> SUFFICES ASSUME NEW b, b = pos, NEW v, v = vals[b - 1]
                 PROVE  Gives(b, ast[b].name, v)'
      BY DEF GivesNext
    <3>1. b > 1 /\ b \in Nat
      BY <1>10 DEF TypeInv, OperandsPrecede, Nodes
    <3>2. v = vals'[b - 1] /\ ast'[b].k = "let"
      BY <1>1, <1>10, <3>1
    <3> QED BY <3>2 DEF Gives
  <2> QED BY <1>6, <1>7, <1>10, <2>1, <2>2, <2>3, <2>4 DEF d
<1>11. CASE /\ ast[pos].k \in {"fn", "test"}
            /\ frames' = Append(frames, [ip |-> ip, value_map |-> value_map])
            /\ \A x \in DOMAIN value_map' :
                  x \in ParamNames(pos) /\ GivesNext(pos, x, value_map'[x])
  <2>1. PathAt(pos + 1) = Append(p, pos) /\ p \in Seq(Range(p))
    <3>1. PathAt(pos + 1) = Append(p, pos)
      BY <1>1, <1>2, <1>11 DEF PathAfter
    <3>2. p \in Seq(Range(p))
      BY <1>2 DEF Range
    <3> QED BY <3>1, <3>2
  <2>2. \A x \in DOMAIN value_map' : BinderIn(x, PathAt(pos + 1), pos + 1) = pos
    BY <1>1, <1>11, BinderStep
  <2>3. /\ DOMAIN frames' = 1..Len(p) + 1 /\ \A i \in 1..Len(p) : frames'[i] = frames[i]
        /\ frames'[Len(p) + 1].value_map = value_map
    BY <1>1, <1>11, SeqAppend
  <2>4. /\ \A i \in 1..Len(p) : PathAt(pos + 1)[i] = p[i]
        /\ PathAt(pos + 1)[Len(p) + 1] = pos /\ Len(p) \in Nat
    BY <2>1, SeqAppend, SMTT(20)
  <2>5. \A x \in DOMAIN value_map' : GivesNext(pos, x, value_map'[x])
    BY <1>11 DEF GivesNext
  <2>6. ASSUME NEW i \in DOMAIN frames', NEW x \in DOMAIN frames'[i].value_map
        PROVE  LET e == PathAt(pos + 1)[i]
               IN  GivesNext(BinderIn(x, path[e], e), x, frames'[i].value_map[x])
    <3>1. CASE i \in 1..Len(p)
      BY <1>1, <1>7, <2>3, <2>4, <2>6, <3>1 DEF d
    <3>2. CASE i = Len(p) + 1
      BY <1>1, <1>6, <2>3, <2>4, <2>6, <3>2
    <3> QED BY <2>3, <2>4, <3>1, <3>2
  <2> QED BY <2>2, <2>5, <2>6
<1>12. CASE /\ ast[pos].k = "end"
            /\ value_map' = Last(frames).value_map /\ frames' = Front(frames)
  <2>1. /\ p # <<>> /\ PathAt(pos + 1) = Front(p) /\ Len(p) \in Nat \ {0}
        /\ Last(p) = d(Len(p)) /\ \A i \in 1..Len(p) - 1 : Front(p)[i] = p[i]
    <3>1. p # <<>> /\ PathAt(pos + 1) = Front(p) /\ p \in Seq(Range(p))
      BY <1>2, <1>12 DEF Range
    <3>2. Last(p) = d(Len(p))
      BY DEF Last, d
    <3> QED BY <3>1, <3>2, SeqFront
  <2>2. \A x : BinderIn(x, PathAt(pos + 1), pos + 1) =
                  BinderIn(x, path[d(Len(p))], d(Len(p)))
    <3>1. \A x : BinderIn(x, PathAt(pos + 1), pos + 1) = BinderIn(x, path[Last(p)], Last(p))
      BY <1>1, <1>12, BinderStep
    <3> QED BY <2>1, <3>1
  <2>3. /\ Last(frames) = frames[Len(p)] /\ Len(p) \in DOMAIN frames
        /\ DOMAIN frames' = 1..Len(p) - 1
        /\ \A i \in 1..Len(p) - 1 : frames'[i] = frames[i] /\ i \in DOMAIN frames
    <3>1. frames # <<>> /\ DOMAIN frames = 1..Len(p) /\ Last(frames) = frames[Len(p)]
      BY <1>1, <2>1 DEF Last
    <3>2. /\ frames' \in Seq(Range(frames')) /\ Len(frames') = Len(p) - 1
          /\ \A i \in 1..Len(p) - 1 : frames'[i] = frames[i]
      BY <1>1, <1>12, <3>1, SeqFront
    <3> QED BY <2>1, <3>1, <3>2
  <2>4. \A x \in DOMAIN value_map' :
           GivesNext(BinderIn(x, PathAt(pos + 1), pos + 1), x, value_map'[x])
    BY <1>7, <1>12, <2>2, <2>3
  <2>5. ASSUME NEW i \in DOMAIN frames', NEW x \in DOMAIN frames'[i].value_map
        PROVE  LET e == PathAt(pos + 1)[i]
               IN  GivesNext(BinderIn(x, path[e], e), x, frames'[i].value_map[x])
    <3>1. PathAt(pos + 1)[i] = d(i) /\ frames'[i] = frames[i] /\ i \in DOMAIN frames
      BY <2>1, <2>3, <2>5 DEF d
    <3> QED BY <1>7, <2>5, <3>1
  <2> QED BY <2>4, <2>5
<1> QED BY <1>9, <1>10, <1>11, <1>12

\* A step of the walk that keeps the parts of GeneratorInv keeps all of it.
LEMMA WalkKeepsInvariant ==
    ASSUME IInv, TypeInv, GeneratorInv, phase = "generate", pos \in Nodes,
           UNCHANGED <<ast, path, open, phase>>, pos' = pos + 1, Grows,
           NEW w, vals' = Append(vals, w),
           ast[pos].k = "ident" =>
               ast[pos].name \in DOMAIN value_map /\ w = value_map[ast[pos].name],
           FunctionsInv', CallsInv', ReturnPointInv', ValueMapInv'
    PROVE  GeneratorInv'
<1>1. /\ TreeInv /\ PathAt(pos) = path[pos] /\ pos \in Nat \ {0} /\ vals \in Seq(Value)
      /\ Len(vals) = pos - 1 /\ ValueMapInv /\ LexicalValues /\ WellScoped
  <2>1. pos \in Nat \ {0}
    BY DEF Nodes
  <2> QED BY <2>1 DEF IInv, GenerateInv, TypeInv, TypeOK, GenerateTypes, GeneratorInv, PathAt,
             AcceptInv
<1>2. /\ DOMAIN vals' = 1..pos /\ \A n \in 1..pos - 1 : vals'[n] = vals[n]
      /\ vals'[pos] = w
  BY <1>1
<1>3. ASSUME NEW n \in 1..pos, ast[n].k = "ident", NEW x, x = ast[n].name
      PROVE  GivesNext(BinderIn(x, path[n], n), x, vals'[n])
  <2> SUFFICES ASSUME NEW b, b = BinderIn(x, path[n], n), NEW v, v = vals'[n]
               PROVE  Gives(b, x, v)'
    BY DEF GivesNext
  <2>1. Gives(b, x, v)
    <3>1. CASE n \in 1..pos - 1
      BY <1>1, <1>2, <1>3, <3>1 DEF LexicalValues, LexicalValue
    <3>2. CASE n = pos
      BY <1>1, <1>2, <1>3, <3>2 DEF ValueMapInv, LexicalValue
    <3> QED BY <1>1, <3>1, <3>2
  <2>2. x \in Scope(path[n], n)
    <3>1. n \in Nodes
      BY <1>1 DEF Nodes, TreeInv
    <3> QED BY <1>1, <1>3, <3>1 DEF WellScoped, WellScopedNode, ScopeAt
  <2>3. n \in Nat /\ n <= pos
    BY <1>1
  <2>4. ast[b].k = "let" => b - 1 \in 1..Len(vals)
    BY <2>2, <2>3, BinderPrecedes
  <2> QED BY <1>1, <2>1, <2>4, GivesKept
<1>4. LexicalValues'
  <2>1. \A x, p, n : BinderIn(x, p, n)' = BinderIn(x, p, n)
    BY BinderUnchanged
  <2>2. \A n \in DOMAIN vals' : ast[n].k = "ident" =>
           LexicalValue(vals[n], ast[n].name, path[n], n)'
    BY <1>2, <1>3, <2>1 DEF LexicalValue, GivesNext
  <2> QED BY <2>2 DEF LexicalValues
<1>5. TestsRunInOrder'
  BY DEF TestsRunInOrder
<1> QED BY <1>4, <1>5 DEF GeneratorInv

-----------------------------------------------------------------------------
\* The other passes leave the module alone.
LEMMA ModuleAtRest ==
    ASSUME GeneratorInv, UNCHANGED <<ast, path, open, genVars, argv>>,
           UNCHANGED <<phase, pos>> \/ phase' # "generate" \/ pos' = 0,
           phase' \in {"lower", "execute"} => phase \in {"lower", "execute"}
    PROVE  GeneratorInv'
<1>1. UNCHANGED <<funcs, ip, frames, value_map, vals, test_symbols>>
  BY DEF genVars
<1>2. /\ Nodes' = Nodes /\ TopLevelFns' = TopLevelFns
      /\ \A n : PathAt(n)' = PathAt(n)
      /\ \A x, p, n : BinderIn(x, p, n)' = BinderIn(x, p, n)
  BY TreeUnchanged, BinderUnchanged
<1>3. \A b, x, v : Gives(b, x, v)' <=> Gives(b, x, v)
  BY <1>1 DEF Gives, Sym
<1>4. \A v, x, p, n : LexicalValue(v, x, p, n)' <=> LexicalValue(v, x, p, n)
  BY <1>2, <1>3 DEF LexicalValue
<1>5. LexicalValues'
  BY <1>1, <1>4 DEF LexicalValues, GeneratorInv
<1>6. ASSUME phase' = "generate", pos' > 0
      PROVE  FunctionsInv' /\ CallsInv' /\ ReturnPointInv' /\ ValueMapInv'
  <2>1. UNCHANGED <<phase, pos>> /\ FunctionsInv /\ CallsInv /\ ReturnPointInv /\ ValueMapInv
    BY <1>6 DEF GeneratorInv
  <2>2. FunctionsInv'
    <3>1. TestsSoFar' = TestsSoFar
      BY <1>1 DEF TestsSoFar
    <3>2. Prototypes'
      BY <1>1, <2>1, PrototypesKept DEF FunctionsInv
    <3>3. DOMAIN funcs' = {Main} \cup TopLevelFns' \cup TestsSoFar'
      BY <1>1, <1>2, <2>1, <3>1 DEF FunctionsInv
    <3>4. /\ funcs'[Main].sym = Sym("__main")
          /\ \A i \in DOMAIN test_symbols' : test_symbols'[i] = TestSym(i - 1)
          /\ \A n \in TestsSoFar' :
                \E i \in DOMAIN test_symbols' : funcs'[n].sym = TestSym(i - 1)
          /\ \A i \in DOMAIN test_symbols' :
                \E n \in TestsSoFar' : funcs'[n].sym = TestSym(i - 1)
          /\ \A m, n \in TestsSoFar' :
                \A i, j \in DOMAIN test_symbols' :
                   funcs'[m].sym = TestSym(i - 1) /\ funcs'[n].sym = TestSym(j - 1)
                      => (m < n <=> i < j)
      BY <1>1, <2>1, <3>1 DEF FunctionsInv
    <3> QED BY <3>2, <3>3, <3>4 DEF FunctionsInv, Sym, TestSym, Main
  <2>3. CallsInv' /\ ReturnPointInv'
    BY <1>1, <1>2, <2>1 DEF CallsInv, ReturnPointInv, Sym, Main
  <2>4. ValueMapInv'
    BY <1>1, <1>2, <1>4, <2>1 DEF ValueMapInv
  <2> QED BY <2>2, <2>3, <2>4
<1>7. TestsRunInOrder'
  <2>1. run_tests' = run_tests
    BY DEF run_tests, positionals
  <2>2. TestDecls' = TestDecls
    BY <1>2 DEF TestDecls
  <2>3. \A o : CallsTest(o)' <=> CallsTest(o)
    BY <1>1 DEF CallsTest
  <2>4. \A sym : LookupSymbol(sym)' = LookupSymbol(sym)
    BY <1>1 DEF LookupSymbol
  <2>5. phase \in {"lower", "execute"} => TestsRunInOrder
    BY DEF GeneratorInv
  <2> QED BY <1>1, <2>1, <2>2, <2>3, <2>4, <2>5 DEF TestsRunInOrder, Main
<1> QED BY <1>5, <1>6, <1>7 DEF GeneratorInv

\* The operations of __main: those of the top-level code, the calls of the tests
\* and the return.
LEMMA SeqJoined ==
    ASSUME NEW s, s \in Seq(Range(s)), NEW t, t \in Seq(Range(t)), NEW e
    PROVE  LET joined == s \o Append(t, e)
               l      == Len(s)
               k      == Len(t)
           IN  /\ Len(joined) = l + k + 1 /\ DOMAIN joined = 1..l + k + 1
               /\ \A i \in 1..l : joined[i] = s[i]
               /\ \A i \in 1..k : joined[l + i] = t[i]
               /\ joined[l + k + 1] = e
<1> DEFINE d == Append(t, e)
           l == Len(s)
           k == Len(t)
<1>1. l \in Nat /\ k \in Nat
  OBVIOUS
<1>2. /\ d \in Seq(Range(d)) /\ Len(d) = k + 1
      /\ \A i \in 1..k : d[i] = t[i]
      /\ d[k + 1] = e
  BY SeqAppend
<1> HIDE DEF d
<1>3. /\ Len(s \o d) = l + k + 1 /\ DOMAIN (s \o d) = 1..l + k + 1
      /\ \A i \in 1..l : (s \o d)[i] = s[i]
      /\ \A i \in 1..k + 1 : (s \o d)[l + i] = d[i]
  BY <1>1, <1>2
<1>4. (s \o d)[l + k + 1] = e
  <2>1. l + k + 1 = l + (k + 1) /\ k + 1 \in 1..k + 1
    BY <1>1
  <2> QED BY <1>2, <1>3, <2>1
<1>5. \A i \in 1..k : (s \o d)[l + i] = t[i]
  BY <1>1, <1>2, <1>3
<1> QED BY <1>3, <1>4, <1>5 DEF d

\* GenFinish calls the tests that were generated, each once and in order.
LEMMA FinishRunsTests ==
    ASSUME IInv, TypeInv, GeneratorInv, GenFinish(run_tests), UNCHANGED <<ast, path, open, argv>>
    PROVE  GeneratorInv'
<1> DEFINE F == funcs[Main].ops
           T == Len(test_symbols)
           K == IF run_tests THEN T ELSE 0
           C == IF run_tests
                  THEN [i \in DOMAIN test_symbols |->
                           Operation("call", <<>>, test_symbols[i], NoType)]
                  ELSE <<>>
           R == Operation("return", <<>>, <<>>, NoType)
           ops == F \o Append(C, R)
<1>1. /\ phase = "generate" /\ pos = Len(ast) + 1 /\ phase' = "lower" /\ pos' = 0
      /\ UNCHANGED <<ip, frames, value_map, vals, test_symbols>>
      /\ funcs' = [funcs EXCEPT ![ip.fn].ops = @ \o Append(C, R)]
  BY DEF GenFinish, Enter
<1>2. /\ pos > 0 /\ Len(ast) \in Nat /\ TreeInv /\ ModuleTyped /\ vals \in Seq(Value)
      /\ Len(vals) = Len(ast) /\ FunctionsInv /\ CallsInv /\ LexicalValues
      /\ test_symbols \in Seq(Range(test_symbols))
  <2>1. Len(ast) \in Nat /\ pos > 0
    BY <1>1 DEF IInv, TreeInv
  <2> QED BY <1>1, <2>1 DEF IInv, TypeInv, TypeOK, GenerateTypes, GeneratorInv
<1>3. ip.fn = Main
  <2>1. Len(frames) = Len(PathAt(pos)) /\ frames \in Seq(Range(frames)) /\ open = <<>>
    BY <1>1, <1>2 DEF IInv, GenerateInv, QuietInv
  <2>2. PathAt(pos) = <<>>
    BY <1>1, <1>2, <2>1 DEF PathAt, Nodes
  <2>3. frames = <<>>
    BY <2>1, <2>2
  <2> QED BY <1>1, <1>2, <2>3 DEF GeneratorInv, ReturnPointInv
<1>4. /\ Main \in DOMAIN funcs /\ F \in Seq(Range(F)) /\ DOMAIN funcs \subseteq Nat
      /\ \A f \in DOMAIN funcs : DOMAIN funcs[f] = {"sym", "params", "rets", "blocks", "ops"}
  BY <1>2 DEF ModuleTyped, FunctionTyped
<1>5. /\ DOMAIN funcs' = DOMAIN funcs /\ funcs'[Main].ops = ops
      /\ \A f \in DOMAIN funcs : funcs'[f].sym = funcs[f].sym
      /\ \A f \in DOMAIN funcs \ {Main} : funcs'[f].ops = funcs[f].ops
  BY <1>1, <1>3, <1>4
<1>6. /\ DOMAIN F = 1..Len(F) /\ Len(F) \in Nat /\ K \in Nat /\ T \in Nat
      /\ DOMAIN test_symbols = 1..T
      /\ Len(ops) = Len(F) + K + 1 /\ DOMAIN ops = 1..Len(F) + K + 1
      /\ \A i \in 1..Len(F) : ops[i] = F[i]
      /\ \A i \in 1..K : ops[Len(F) + i] = C[i]
      /\ ops[Len(F) + K + 1] = R
  <2>1. /\ T \in Nat /\ DOMAIN test_symbols = 1..T /\ Len(F) \in Nat /\ DOMAIN F = 1..Len(F)
    BY <1>2, <1>4
  <2>2. C \in Seq(Range(C)) /\ Len(C) = K /\ DOMAIN C = 1..K
    <3>1. CASE run_tests
      <4>1. C = [i \in 1..T |-> Operation("call", <<>>, test_symbols[i], NoType)] /\ K = T
        BY <2>1, <3>1
      <4> HIDE DEF C, K
      <4> QED BY <2>1, <4>1 DEF Range
    <3>2. CASE ~run_tests
      BY <3>2
    <3> QED BY <3>1, <3>2
  <2> HIDE DEF C, R, T, K
  <2> DEFINE G == F
  <2>3. G \in Seq(Range(G)) /\ Len(G) \in Nat /\ DOMAIN G = 1..Len(G)
    BY <1>4, <2>1
  <2> HIDE DEF G
  <2> DEFINE joined == G \o Append(C, R)
  <2>4. /\ Len(joined) = Len(G) + K + 1 /\ DOMAIN joined = 1..Len(G) + K + 1
        /\ \A i \in 1..Len(G) : joined[i] = G[i]
        /\ \A i \in 1..K : joined[Len(G) + i] = C[i]
        /\ joined[Len(G) + K + 1] = R
    BY <2>2, <2>3, SeqJoined
  <2>5. joined = ops
    BY DEF G
  <2>6. K \in Nat
    BY <2>2, SeqJoined
  <2> HIDE DEF joined, ops
  <2> QED BY <2>1, <2>4, <2>5, <2>6 DEF G
<1>7. \A name, i : TestSym(i) # Sym(name)
  <2>1. \A name, i : Len(TestSym(i)) = 2 /\ Len(Sym(name)) = 1
    BY DEF TestSym, Sym
  <2>2. \A name, i : TestSym(i) = Sym(name) => 1 = 2
    BY <2>1, Zenon
  <2> QED BY <2>2
<1>8. \A i \in 1..T : test_symbols[i] = TestSym(i - 1)
  BY <1>2, <1>6 DEF FunctionsInv
<1>9. /\ \A i \in 1..Len(F) : ~CallsTest(F[i])
      /\ \A f \in DOMAIN funcs \ {Main} :
            \A i \in DOMAIN funcs[f].ops : ~CallsTest(funcs[f].ops[i])
  <2>1. ASSUME NEW f \in DOMAIN funcs, NEW i \in DOMAIN funcs[f].ops,
               CallsTest(funcs[f].ops[i])
        PROVE  FALSE
    <3>1. PICK j \in 1..T : funcs[f].ops[i].attr = test_symbols[j]
      BY <1>6, <2>1 DEF CallsTest, Range
    <3>2. PICK n \in Nodes : funcs[f].ops[i].attr = Sym(ast[n].name)
      BY <1>2, <2>1 DEF CallsTest, CallsInv
    <3> QED BY <1>7, <1>8, <3>1, <3>2
  <2> QED BY <1>4, <1>6, <2>1
<1>10. run_tests' = run_tests /\ TestDecls' = TestDecls
  BY <1>1 DEF run_tests, positionals, TestDecls, Nodes
<1>11. \A o : CallsTest(o)' <=> CallsTest(o)
  BY <1>1 DEF CallsTest
<1>12. TestsSoFar = TestDecls /\ \A n \in TestDecls : n \in Nat
  <2>1. DOMAIN vals = Nodes /\ \A n \in Nodes : n \in Nat
    BY <1>2 DEF Nodes
  <2> QED BY <2>1 DEF TestsSoFar, TestDecls
<1> DEFINE t(i) == LookupSymbol(test_symbols[i])
<1>13. \A i \in 1..T : t(i)' = t(i)
  BY <1>1, <1>5 DEF LookupSymbol
<1>14. /\ \A m, n \in TestsSoFar :
             \A i, j \in DOMAIN test_symbols :
                funcs[m].sym = TestSym(i - 1) /\ funcs[n].sym = TestSym(j - 1) => (m < n <=> i < j)
       /\ \A n \in TestsSoFar : \E i \in DOMAIN test_symbols : funcs[n].sym = TestSym(i - 1)
  BY <1>2, Zenon DEF FunctionsInv
<1>15. \A i \in 1..T : t(i) \in TestDecls /\ funcs[t(i)].sym = TestSym(i - 1)
  <2> SUFFICES ASSUME NEW i \in 1..T
               PROVE  t(i) \in TestDecls /\ funcs[t(i)].sym = TestSym(i - 1)
    OBVIOUS
  <2> DEFINE S == {f \in DOMAIN funcs : funcs[f].sym = TestSym(i - 1)}
  <2>1. S # {} /\ S \subseteq Nat
    BY <1>2, <1>4, <1>6 DEF FunctionsInv
  <2>2. Min(S) \in S
    BY <2>1, MinIsLeast
  <2>3. t(i) = Min(S)
    BY <1>8 DEF LookupSymbol
  <2>4. \A f \in S : f \in TestsSoFar
    BY <1>2, <1>7 DEF FunctionsInv, Prototypes
  <2> QED BY <1>12, <2>2, <2>3, <2>4
<1>16. \A i, j \in 1..T : i < j => t(i) < t(j)
  <2>1. \A m, n \in TestDecls : \A i, j \in 1..T :
           funcs[m].sym = TestSym(i - 1) /\ funcs[n].sym = TestSym(j - 1) => (m < n <=> i < j)
    BY <1>6, <1>12, <1>14
  <2> HIDE DEF t
  <2> QED BY <1>15, <2>1
<1>17. \A n \in TestDecls : \E i \in 1..T : n = t(i)
  <2> SUFFICES ASSUME NEW n \in TestDecls
               PROVE  \E i \in 1..T : n = t(i)
    OBVIOUS
  <2>1. PICK i \in 1..T : funcs[n].sym = TestSym(i - 1)
    BY <1>6, <1>12, <1>14
  <2>2. t(i) \in TestDecls /\ funcs[t(i)].sym = TestSym(i - 1) /\ i \in Nat
    BY <1>15
  <2> HIDE DEF t
  <2>3. ~(n < t(i)) /\ ~(t(i) < n)
    BY <1>6, <1>12, <1>14, <2>1, <2>2
  <2> QED BY <1>12, <2>2, <2>3
<1> HIDE DEF t
<1> DEFINE calls == {i \in DOMAIN ops : CallsTest(ops[i])}
<1>18. \A i \in 1..K : ops[Len(F) + i].attr = test_symbols[i] /\ CallsTest(ops[Len(F) + i])
  <2> SUFFICES ASSUME NEW i \in 1..K
               PROVE  ops[Len(F) + i].attr = test_symbols[i] /\ CallsTest(ops[Len(F) + i])
    OBVIOUS
  <2>1. run_tests /\ i \in 1..T
    BY <1>6
  <2>2. C[i] = Operation("call", <<>>, test_symbols[i], NoType)
    BY <1>6, <2>1
  <2>3. C[i].op = "call" /\ C[i].attr = test_symbols[i]
    BY <2>2 DEF Operation
  <2>4. test_symbols[i] \in Range(test_symbols)
    BY <1>6, <2>1 DEF Range
  <2>5. ops[Len(F) + i] = C[i]
    BY <1>6
  <2> HIDE DEF ops, C
  <2> QED BY <2>3, <2>4, <2>5 DEF CallsTest
<1>19. ~CallsTest(ops[Len(F) + K + 1])
  <2>1. ops[Len(F) + K + 1] = R /\ R.op = "return"
    BY <1>6 DEF Operation
  <2> HIDE DEF ops
  <2> QED BY <2>1 DEF CallsTest
<1>20. calls = Len(F) + 1..Len(F) + K
  <2> DEFINE l == Len(F)
  <2>1. \A i \in 1..l : ~CallsTest(ops[i])
    BY <1>6, <1>9
  <2>5. l \in Nat /\ K \in Nat /\ DOMAIN ops = 1..l + K + 1
    BY <1>6
  <2>6. /\ \A i \in 1..K : CallsTest(ops[l + i])
        /\ ~CallsTest(ops[l + K + 1])
    BY <1>18, <1>19
  <2> HIDE DEF ops, K, l
  <2>2. \A i \in l + 1..l + K : CallsTest(ops[i])
    <3> SUFFICES ASSUME NEW i \in l + 1..l + K
                 PROVE  CallsTest(ops[i])
      OBVIOUS
    <3>1. i - l \in 1..K /\ l + (i - l) = i
      BY <2>5
    <3> QED BY <2>6, <3>1
  <2>3. \A i \in 1..l + K + 1 : i \in 1..l \/ i \in l + 1..l + K \/ i = l + K + 1
    BY <2>5
  <2>4. l + 1..l + K \subseteq 1..l + K + 1
    BY <2>5
  <2>7. calls = l + 1..l + K
    BY <2>1, <2>2, <2>3, <2>4, <2>5, <2>6
  <2> QED BY <2>7 DEF l
<1>21. \A i \in 1..K : \A s : s = ops[Len(F) + i].attr => LookupSymbol(s)' = t(i)
  <2> SUFFICES ASSUME NEW i \in 1..K, NEW s, s = ops[Len(F) + i].attr
               PROVE  LookupSymbol(s)' = t(i)
    OBVIOUS
  <2>1. i \in 1..T
    BY <1>6
  <2>2. s = test_symbols[i]
    BY <1>18
  <2>3. LookupSymbol(s)' = LookupSymbol(s)
    BY <1>5 DEF LookupSymbol
  <2> QED BY <2>1, <2>2, <2>3 DEF t
<1>22. TestsRunInOrder'
  <2> DEFINE l == Len(F)
             last == l + K + 1
             S == IF run_tests THEN TestDecls ELSE {}
  <2>1. /\ funcs'[Main].ops = ops /\ l \in Nat /\ K \in Nat /\ DOMAIN ops = 1..last
        /\ Len(ops) = last /\ \A i \in DOMAIN ops : CallsTest(ops[i]) <=> i \in l + 1..l + K
    BY <1>5, <1>6, <1>20
  <2>2. \A i \in l + 1..l + K : \A s : s = ops[i].attr => LookupSymbol(s)' = t(i - l)
    <3> SUFFICES ASSUME NEW i \in l + 1..l + K
                 PROVE  \A s : s = ops[i].attr => LookupSymbol(s)' = t(i - l)
      OBVIOUS
    <3> DEFINE j == i - l
    <3>1. j \in 1..K /\ l + j = i
      <4> HIDE DEF l, K
      <4> QED BY <2>1
    <3> HIDE DEF j, ops, K
    <3> QED BY <1>21, <3>1 DEF j
  <2>3. \A i, j \in l + 1..l + K : i < j => t(i - l) < t(j - l)
    <3> SUFFICES ASSUME NEW i \in l + 1..l + K, NEW j \in l + 1..l + K, i < j
                 PROVE  t(i - l) < t(j - l)
      OBVIOUS
    <3>1. i - l \in 1..K /\ j - l \in 1..K /\ i - l < j - l
      <4> HIDE DEF l, K
      <4> QED BY <2>1
    <3>2. K = 0 \/ K = T
      OBVIOUS
    <3> HIDE DEF l, K
    <3> QED BY <1>16, <3>1, <3>2
  <2>4. {t(i - l) : i \in l + 1..l + K} = S
    <3>1. CASE run_tests
      <4>1. K = T
        BY <3>1
      <4>2. /\ \A i \in l + 1..l + K : i - l \in 1..T
            /\ \A i \in 1..T : l + i \in l + 1..l + K /\ (l + i) - l = i
        <5> HIDE DEF l, K, T
        <5> QED BY <2>1, <4>1
      <4> HIDE DEF l, K, T
      <4>3. \A n \in TestDecls : \E i \in l + 1..l + K : n = t(i - l)
        BY <1>17, <4>2
      <4>4. \A i \in l + 1..l + K : t(i - l) \in TestDecls
        BY <1>15, <4>2
      <4> QED BY <3>1, <4>3, <4>4
    <3>2. CASE ~run_tests
      <4>1. K = 0
        BY <3>2
      <4>2. l + 1..l + K = {}
        <5> HIDE DEF l, K
        <5> QED BY <2>1, <4>1
      <4> HIDE DEF l, K
      <4> QED BY <3>2, <4>2
    <3> QED BY <3>1, <3>2
  <2>5. /\ \A i \in l + 1..l + K, j \in 1..last : i < j => j \in l + 1..l + K \/ j = last
        /\ last \notin l + 1..l + K
    <3> HIDE DEF l, K
    <3> QED BY <2>1
  <2>6. \A f \in DOMAIN funcs \ {Main} :
           \A i \in DOMAIN funcs'[f].ops : ~CallsTest(funcs'[f].ops[i])
    BY <1>5, <1>9
  <2> DEFINE Named(sym) == Min({f \in DOMAIN funcs' : funcs'[f].sym = sym})
             now   == funcs'[Main].ops
             tests == {i \in DOMAIN now : CallsTest(now[i])}
  <2>7. \A sym : LookupSymbol(sym)' = Named(sym)
    BY DEF LookupSymbol
  <2>8. tests = l + 1..l + K /\ now = ops
    <3>1. l + 1..l + K \subseteq 1..last
      <4> HIDE DEF l, K
      <4> QED BY <2>1
    <3> HIDE DEF l, K, ops, last
    <3> QED BY <2>1, <3>1
  <2>9. \A i \in tests : Named(now[i].attr) = t(i - l)
    <3> HIDE DEF l, K, ops, Named, tests, now
    <3> QED BY <2>2, <2>7, <2>8
  <2>10. /\ \A i \in tests, j \in DOMAIN now : i < j => j \in tests \/ j = Len(now)
         /\ Len(now) \notin tests
         /\ {Named(now[i].attr) : i \in tests} = S
         /\ \A i, j \in tests : i < j => Named(now[i].attr) < Named(now[j].attr)
    <3> HIDE DEF l, K, ops, Named, tests, now, S, last
    <3>1. DOMAIN now = 1..last /\ Len(now) = last
      BY <2>1, <2>8
    <3>2. {Named(now[i].attr) : i \in tests} = {t(i - l) : i \in tests}
      BY <2>9
    <3> QED BY <2>3, <2>4, <2>5, <2>8, <2>9, <3>1, <3>2
  <2>11. /\ \A i \in tests, j \in DOMAIN funcs[Main]'.ops :
               i < j => j \in tests \/ j = Len(funcs[Main]'.ops)
         /\ Len(funcs[Main]'.ops) \notin tests
         /\ {LookupSymbol(funcs[Main].ops[i].attr)' : i \in tests} = S
         /\ \A i, j \in tests : i < j =>
               LookupSymbol(funcs[Main].ops[i].attr)' < LookupSymbol(funcs[Main].ops[j].attr)'
    BY <2>10 DEF LookupSymbol, Main
  <2>12. tests = {i \in DOMAIN funcs[Main]'.ops : CallsTest(funcs[Main].ops[i])'}
    BY <1>11 DEF Main
  <2>13. S = IF run_tests' THEN TestDecls' ELSE {}
    BY <1>10 DEF S
  <2>14. \A f \in DOMAIN funcs' \ {Main'} :
            \A i \in DOMAIN funcs'[f].ops : ~CallsTest(funcs[f].ops[i])'
    BY <1>5, <1>11, <2>6 DEF Main
  <2> HIDE DEF S, tests, now, Named
  <2> QED BY <2>11, <2>12, <2>13, <2>14, Zenon DEF TestsRunInOrder
<1>23. LexicalValues'
  <2>1. \A b, x, v : Gives(b, x, v) => Gives(b, x, v)'
    <3> SUFFICES ASSUME NEW b, NEW x, NEW v, Gives(b, x, v)
                 PROVE  Gives(b, x, v)'
      OBVIOUS
    <3>1. CASE ast[b].k = "let"
      BY <1>1, <3>1 DEF Gives
    <3>2. CASE ast[b].k # "let"
      BY <1>1, <1>3, <1>4, <1>5, <3>2, ZenonT(30) DEF Gives, Sym
    <3> QED BY <3>1, <3>2
  <2> QED BY <1>1, <1>2, <2>1, BinderUnchanged DEF LexicalValues, LexicalValue
<1> QED BY <1>1, <1>22, <1>23 DEF GeneratorInv

-----------------------------------------------------------------------------
\* Each callback of the generator keeps GeneratorInv.
LEMMA GeneratorKeepsInvariant ==
    ASSUME IInv, IInv', TypeInv, TypeInv', GeneratorInv, GenNext(run_tests),
           UNCHANGED <<parserVars, resolverVars, checkerVars, argv>>
    PROVE  GeneratorInv'
<1>1. phase = "generate" /\ UNCHANGED <<ast, path, open, argv>>
  BY DEF GenNext, GenBegin, GenIntLiteral, GenIdentifier, GenBinaryOperator, GenCall,
     GenIntrinsicCall, GenLet, GenReturn, GenFn, GenTest, GenEnd, GenFinish, Generating,
     parserVars
<1>2. ASSUME pos \in Nodes
      PROVE  /\ FunctionsInv /\ CallsInv /\ ReturnPointInv /\ ValueMapInv /\ ModuleTyped
             /\ vals \in Seq(Value) /\ Len(vals) = pos - 1 /\ pos \in Nat \ {0}
             /\ test_symbols \in Seq(Range(test_symbols)) /\ ip.fn \in DOMAIN funcs
             /\ frames \in Seq(Range(frames)) /\ Len(frames) = Len(PathAt(pos))
             /\ DOMAIN value_map = Scope(PathAt(pos), pos) /\ PathAt(pos) = path[pos]
  <2>1. pos \in Nat \ {0}
    BY <1>2 DEF Nodes
  <2> QED BY <1>1, <1>2, <2>1 DEF GeneratorInv, TypeInv, TypeOK, GenerateTypes, IInv,
             GenerateInv, PathAt
<1>3. ASSUME NEW code, NEW reason, Stop(code, reason), UNCHANGED genVars
      PROVE  GeneratorInv'
  BY <1>1, <1>3, ModuleAtRest DEF Stop
<1>4. ASSUME pos \in Nodes, pos' = pos + 1, UNCHANGED phase
      PROVE  Prototypes'
  <2>1. pos' # 0 /\ phase' = "generate"
    BY <1>1, <1>4 DEF Nodes
  <2> QED BY <2>1 DEF IInv, GenerateInv
<1>5. ASSUME pos \in Nodes, ast[pos].k \notin {"ident", "let", "fn", "test", "end"},
             NEW op, NEW args, NEW attr, NEW type, Create(op, args, attr, type),
             op = "call" => ast[pos].k = "call" /\ attr = Sym(ast[pos].name)
      PROVE  GeneratorInv'
  <2>1. CASE NoValue \in Range(args)
    BY <1>3, <1>5, <2>1 DEF Create
  <2>2. CASE NoValue \notin Range(args)
    <3> DEFINE v == IF type = NoType
                      THEN NoValue
                      ELSE [fn |-> ip.fn, at |-> Len(funcs[ip.fn].ops) + 1, type |-> type]
               o == Operation(op, args, attr, type)
    <3>1. /\ funcs' = [funcs EXCEPT ![ip.fn].ops = Append(@, o)]
          /\ vals' = Append(vals, v) /\ pos' = pos + 1
          /\ UNCHANGED <<phase, ip, frames, value_map, test_symbols>>
      BY <1>5, <2>2 DEF Create, Step
    <3>2. o.op = op /\ o.attr = attr
      BY DEF Operation
    <3> HIDE DEF v, o
    <3>3. DOMAIN funcs' = DOMAIN funcs
      BY <3>1
    <3>4. Grows
      <4>1. \E f, ops : funcs' = [funcs EXCEPT ![f].ops = ops]
        BY <3>1
      <4> QED BY <1>2, <1>5, <4>1, ModuleGrows
    <3>5. CallsInv'
      BY <1>1, <1>2, <1>5, <3>1, <3>2, CallsKept
    <3>6. FunctionsInv'
      BY <1>1, <1>2, <1>4, <1>5, <3>1, <3>3, <3>4, FunctionsKept
    <3>7. ReturnPointInv'
      BY <1>2, <1>5, <3>1 DEF ReturnPointInv, Main
    <3>8. ValueMapInv'
      BY <1>1, <1>5, <3>1, <3>4, WalkKeepsValues
    <3> QED BY <1>1, <1>5, <3>1, <3>4, <3>5, <3>6, <3>7, <3>8, WalkKeepsInvariant
  <2> QED BY <2>1, <2>2
<1>6. CASE GenBegin
  <2>1. /\ pos = 0 /\ pos' = 1 /\ UNCHANGED <<phase, frames, value_map, vals, test_symbols>>
        /\ vals = <<>> /\ test_symbols = <<>> /\ value_map = <<>> /\ frames = <<>>
        /\ ip' = [fn |-> Main, block |-> 1]
        /\ funcs' = [n \in {Main} \cup TopLevelFns |->
                        IF n = Main THEN Func(Sym("__main"), <<>>, <<>>, 1) ELSE FuncType(n)]
    BY <1>1, <1>6 DEF GenBegin, Step, TypeInv, GenerateTypes, IInv, GenerateInv
  <2>2. DOMAIN vals' = {} /\ DOMAIN test_symbols' = {} /\ DOMAIN value_map' = {}
    BY <2>1
  <2>3. TestsSoFar' = {} /\ LexicalValues'
    BY <2>2 DEF TestsSoFar, LexicalValues
  <2>4. \A f \in DOMAIN funcs' : funcs'[f].ops = <<>>
    BY <2>1 DEF Func, FuncType
  <2>5. CallsInv'
    BY <2>4 DEF CallsInv
  <2>6. FunctionsInv'
    <3>1. Prototypes'
      BY <1>1, <2>1 DEF IInv, GenerateInv
    <3>2. DOMAIN funcs' = {Main} \cup TopLevelFns' \cup TestsSoFar'
      BY <1>1, <2>1, <2>3, TreeUnchanged
    <3>3. funcs'[Main].sym = Sym("__main")
      BY <2>1 DEF Func
    <3> QED BY <2>2, <2>3, <3>1, <3>2, <3>3 DEF FunctionsInv, Sym, Main
  <2>7. ReturnPointInv' /\ ValueMapInv'
    BY <2>1, <2>2 DEF ReturnPointInv, ValueMapInv, Main
  <2>8. TestsRunInOrder'
    BY <1>1, <2>1 DEF TestsRunInOrder
  <2> QED BY <2>3, <2>5, <2>6, <2>7, <2>8 DEF GeneratorInv
<1>7. CASE GenIntLiteral
  BY <1>5, <1>7 DEF GenIntLiteral, Generating, At
<1>8. CASE GenIdentifier
  <2>1. pos \in Nodes /\ ast[pos].k = "ident"
    BY <1>8 DEF GenIdentifier, Generating, At
  <2>2. CASE ast[pos].name \notin DOMAIN value_map
    BY <1>3, <1>8, <2>2 DEF GenIdentifier
  <2>3. CASE ast[pos].name \in DOMAIN value_map
    <3>1. /\ vals' = Append(vals, value_map[ast[pos].name]) /\ pos' = pos + 1
          /\ UNCHANGED <<phase, funcs, ip, frames, value_map, test_symbols>>
      BY <1>8, <2>3 DEF GenIdentifier, Step
    <3>2. Grows
      BY <3>1 DEF Grows
    <3>3. CallsInv' /\ ReturnPointInv'
      BY <1>1, <1>2, <2>1, <3>1, CallsKept DEF ReturnPointInv, Main
    <3>4. FunctionsInv'
      BY <1>1, <1>2, <1>4, <2>1, <3>1, <3>2, FunctionsKept
    <3>5. ValueMapInv'
      BY <1>1, <2>1, <3>1, <3>2, WalkKeepsValues
    <3> QED BY <1>1, <2>1, <2>3, <3>1, <3>2, <3>3, <3>4, <3>5, WalkKeepsInvariant
  <2> QED BY <2>2, <2>3
<1>9. CASE GenBinaryOperator
  <2>1. pos \in Nodes /\ ast[pos].k = "bin" /\ ast[pos].op # "call"
    <3>1. pos \in Nodes /\ ast[pos].k = "bin"
      BY <1>9 DEF GenBinaryOperator, Generating, At
    <3>2. ast[pos] \in Node
      BY <3>1 DEF TypeInv, TypeOK, Nodes
    <3> QED BY <3>1, <3>2 DEF Node, ExprNode, ArithOps, CmpOps
  <2> QED BY <1>5, <1>9, <2>1 DEF GenBinaryOperator
<1>10. CASE GenCall
  <2>1. pos \in Nodes /\ ast[pos].k = "call"
    BY <1>10 DEF GenCall, Generating, At
  <2>2. CASE Stop("crash", "callee") /\ UNCHANGED genVars
    BY <1>3, <2>2
  <2>3. CASE ~(Stop("crash", "callee") /\ UNCHANGED genVars)
    <3>1. PICK type : Create("call", Operands(pos, vals), Sym(ast[pos].name), type)
      BY <1>10, <2>3 DEF GenCall
    <3> QED BY <1>5, <2>1, <3>1
  <2> QED BY <2>2, <2>3
<1>11. CASE GenIntrinsicCall
  <2>1. pos \in Nodes /\ ast[pos].k = "intrinsic"
    BY <1>11 DEF GenIntrinsicCall, Generating, At
  <2>2. CASE Stop("crash", "intrinsic") /\ UNCHANGED genVars
    BY <1>3, <2>2
  <2>3. CASE ~(Stop("crash", "intrinsic") /\ UNCHANGED genVars)
    <3>1. PICK args : Create("assert", args, <<>>, NoType)
      BY <1>11, <2>3 DEF GenIntrinsicCall
    <3> QED BY <1>5, <2>1, <3>1
  <2> QED BY <2>2, <2>3
<1>12. CASE GenLet
  <2>1. /\ pos \in Nodes /\ ast[pos].k = "let" /\ pos' = pos + 1
        /\ value_map' = Overwrite(value_map, Entry(ast[pos].name, vals[pos - 1]))
        /\ vals' = Append(vals, NoValue)
        /\ UNCHANGED <<phase, funcs, ip, frames, test_symbols>>
    BY <1>12 DEF GenLet, Generating, At, Step
  <2>2. Grows
    BY <2>1 DEF Grows
  <2>3. CallsInv' /\ ReturnPointInv'
    BY <1>1, <1>2, <2>1, CallsKept DEF ReturnPointInv, Main
  <2>4. FunctionsInv'
    BY <1>1, <1>2, <1>4, <2>1, <2>2, FunctionsKept
  <2>5. ValueMapInv'
    BY <1>1, <2>1, <2>2, WalkKeepsValues
  <2> QED BY <1>1, <2>1, <2>2, <2>3, <2>4, <2>5, WalkKeepsInvariant
<1>13. CASE GenReturn
  BY <1>5, <1>13 DEF GenReturn, Generating, At
<1>14. ASSUME NEW f, NEW b, NEW values, EnterBody(f, b, values), pos \in Nodes,
              ast[pos].k \in {"fn", "test"}, Grows, FunctionsInv', CallsInv',
              \A x \in DOMAIN values : x \in ParamNames(pos) /\ GivesNext(pos, x, values[x])
       PROVE  GeneratorInv'
  <2>1. /\ pos' = pos + 1 /\ value_map' = values /\ vals' = Append(vals, NoValue)
        /\ frames' = Append(frames, [ip |-> ip, value_map |-> value_map]) /\ UNCHANGED phase
    BY <1>14 DEF EnterBody, Step
  <2>2. ReturnPointInv'
    <3>1. /\ frames' # <<>> /\ Len(frames) \in Nat /\ frames'[Len(frames) + 1].ip = ip
          /\ \A i \in 1..Len(frames) : frames'[i] = frames[i]
      BY <1>2, <1>14, <2>1, SeqAppend
    <3>2. CASE frames = <<>>
      BY <1>2, <1>14, <3>1, <3>2 DEF ReturnPointInv, Main
    <3>3. CASE frames # <<>>
      <4>1. 1 \in 1..Len(frames)
        BY <1>2, <1>14, <3>1, <3>3
      <4> QED BY <1>2, <1>14, <3>1, <3>3, <4>1 DEF ReturnPointInv, Main
    <3> QED BY <3>2, <3>3
  <2>3. ValueMapInv'
    BY <1>1, <1>14, <2>1, WalkKeepsValues
  <2> QED BY <1>1, <1>14, <2>1, <2>2, <2>3, WalkKeepsInvariant
<1>15. CASE GenFn
  <2>1. pos \in Nodes /\ ast[pos].k = "fn"
    BY <1>15 DEF GenFn, Generating, At
  <2> DEFINE sym == Sym(ast[pos].name)
             f == LookupSymbol(sym)
  <2>2. CASE Stop("crash", "addEntryBlock") /\ UNCHANGED genVars
    BY <1>3, <2>2
  <2>3. CASE ~(Stop("crash", "addEntryBlock") /\ UNCHANGED genVars)
    <3>1. /\ Declared(sym) /\ funcs' = [funcs EXCEPT ![f].blocks = @ + 1]
          /\ EnterBody(f, funcs[f].blocks + 1, EntryArguments(f)) /\ UNCHANGED test_symbols
      BY <1>15, <2>3 DEF GenFn
    <3>2. pos' = pos + 1 /\ vals' = Append(vals, NoValue) /\ UNCHANGED phase
      BY <3>1 DEF EnterBody, Step
    <3>3. Grows
      <4>1. \E g, b : funcs' = [funcs EXCEPT ![g].blocks = b]
        BY <3>1
      <4> QED BY <1>2, <2>1, <4>1, ModuleGrows
    <3>4. CallsInv'
      BY <1>1, <1>2, <2>1, <3>1, CallsKept
    <3>5. DOMAIN funcs' = DOMAIN funcs
      BY <3>1
    <3>6. FunctionsInv'
      BY <1>1, <1>2, <1>4, <2>1, <3>1, <3>2, <3>3, <3>5, FunctionsKept
    <3>7. f \in DOMAIN funcs /\ funcs[f].sym = sym
      <4> DEFINE S == {g \in DOMAIN funcs : funcs[g].sym = sym}
      <4>1. S # {} /\ S \subseteq Nat
        BY <1>2, <2>1, <3>1 DEF Declared, ModuleTyped
      <4>2. Min(S) \in S
        BY <4>1, MinIsLeast
      <4> QED BY <4>2 DEF LookupSymbol
    <3>8. \A x \in DOMAIN EntryArguments(f) :
             x \in ParamNames(pos) /\ GivesNext(pos, x, EntryArguments(f)[x])
      <4> SUFFICES ASSUME NEW x \in ParamNames(pos), NEW b, b = pos, NEW v,
                          v = EntryArguments(f)[x]
                   PROVE  Gives(b, x, v)'
        BY DEF EntryArguments, GivesNext
      <4> DEFINE i == Max({j \in DOMAIN ast[b].params : ast[b].params[j].name = x})
      <4>1. v = [fn |-> f, at |-> -i, type |-> funcs[f].params[i]]
        BY DEF EntryArguments
      <4>2. /\ f \in DOMAIN funcs' /\ funcs'[f].sym = Sym(ast'[b].name)
            /\ v = [fn |-> f, at |-> -i, type |-> funcs'[f].params[i]]
        BY <1>1, <3>3, <3>7, <4>1 DEF Grows
      <4> HIDE DEF f
      <4> QED BY <1>1, <2>1, <4>2 DEF Gives, Sym
    <3> QED BY <1>14, <2>1, <3>1, <3>3, <3>4, <3>6, <3>8
  <2> QED BY <2>2, <2>3
<1>16. CASE GenTest
  <2> DEFINE T == Len(test_symbols)
             r == Func(TestSym(T), <<>>, <<>>, 1)
  <2>1. /\ pos \in Nodes /\ ast[pos].k = "test" /\ EnterBody(pos, 1, <<>>)
        /\ funcs' = Overwrite(funcs, Entry(pos, r))
        /\ test_symbols' = Append(test_symbols, TestSym(T))
    BY <1>16 DEF GenTest, Generating, At
  <2>2. pos' = pos + 1 /\ vals' = Append(vals, NoValue) /\ UNCHANGED phase
    BY <2>1 DEF EnterBody, Step
  <2>3. pos \notin DOMAIN funcs
    <3>1. pos \notin DOMAIN vals /\ pos # 0
      BY <1>2, <2>1
    <3> QED BY <1>2, <2>1, <3>1 DEF FunctionsInv, TestsSoFar, TopLevelFns, Main
  <2>4. r.sym = TestSym(T) /\ r.ops = <<>>
    BY DEF Func
  <2> HIDE DEF r
  <2>5. Grows
    BY <1>2, <2>1, <2>3, ModuleGrows
  <2>6. CallsInv'
    BY <1>1, <1>2, <2>1, <2>4, CallsKept
  <2>7. DOMAIN funcs' = DOMAIN funcs \cup {pos} /\ funcs'[pos] = r
    BY <2>1 DEF Overwrite, Entry
  <2>8. FunctionsInv'
    BY <1>1, <1>2, <1>4, <2>1, <2>2, <2>4, <2>5, <2>7, TestAdded
  <2>9. DOMAIN <<>> = {}
    OBVIOUS
  <2> QED BY <1>14, <2>1, <2>5, <2>6, <2>8, <2>9
<1>17. CASE GenEnd
  <2>1. /\ pos \in Nodes /\ ast[pos].k = "end" /\ pos' = pos + 1 /\ UNCHANGED phase
        /\ ip' = Last(frames).ip /\ value_map' = Last(frames).value_map
        /\ frames' = Front(frames) /\ vals' = Append(vals, NoValue) /\ UNCHANGED test_symbols
        /\ \/ funcs' = funcs
           \/ funcs' = [funcs EXCEPT ![ip.fn].ops = Append(@, ImplicitReturn)]
    BY <1>17 DEF GenEnd, CloseBody, Generating, At, Step
  <2>2. ImplicitReturn.op = "return"
    BY DEF ImplicitReturn, Operation
  <2>3. DOMAIN funcs' = DOMAIN funcs
    BY <2>1
  <2>4. Grows
    <3>1. funcs' = funcs \/ \E f, ops : funcs' = [funcs EXCEPT ![f].ops = ops]
      BY <2>1
    <3> QED BY <1>2, <2>1, <3>1, ModuleGrows
  <2>5. CallsInv'
    BY <1>1, <1>2, <2>1, <2>2, CallsKept
  <2>6. FunctionsInv'
    BY <1>1, <1>2, <1>4, <2>1, <2>3, <2>4, FunctionsKept
  <2>7. ReturnPointInv'
    <3>1. PathAt(pos) # <<>> /\ PathAt(pos) \in Seq(Nat)
      BY <2>1, LetsStep DEF IInv
    <3>2. frames # <<>> /\ Len(frames) \in Nat \ {0}
      BY <1>2, <2>1, <3>1
    <3>3. /\ Last(frames) = frames[Len(frames)] /\ Len(frames') = Len(frames) - 1
          /\ \A i \in 1..Len(frames) - 1 : frames'[i] = frames[i]
          /\ frames' \in Seq(Range(frames'))
      BY <1>2, <2>1, <3>2, SeqFront DEF Last
    <3>4. CASE Len(frames) = 1
      <4>1. frames' = <<>>
        BY <3>3, <3>4
      <4> QED BY <1>2, <2>1, <3>2, <3>3, <3>4, <4>1 DEF ReturnPointInv, Main
    <3>5. CASE Len(frames) # 1
      <4>1. frames' # <<>> /\ frames'[1] = frames[1]
        BY <3>2, <3>3, <3>5
      <4> QED BY <1>2, <2>1, <3>2, <4>1 DEF ReturnPointInv, Main
    <3> QED BY <3>4, <3>5
  <2>8. ValueMapInv'
    BY <1>1, <2>1, <2>4, WalkKeepsValues
  <2> QED BY <1>1, <2>1, <2>4, <2>5, <2>6, <2>7, <2>8, WalkKeepsInvariant
<1>18. CASE GenFinish(run_tests)
  BY <1>1, <1>18, FinishRunsTests
<1> QED
  BY <1>6, <1>7, <1>8, <1>9, <1>10, <1>11, <1>12, <1>13, <1>15, <1>16, <1>17, <1>18
  DEF GenNext

\* Every step of the compiler keeps GeneratorInv.
LEMMA StepGeneratorInv ==
    IInv /\ TypeInv /\ GeneratorInv /\ [Next]_vars => GeneratorInv'
<1> SUFFICES ASSUME IInv, TypeInv, GeneratorInv, [Next]_vars PROVE GeneratorInv'
  OBVIOUS
<1>1. IInv' /\ TypeInv'
  BY StepIInv, StepTypeInv
<1>2. CASE UNCHANGED vars
  BY <1>2, ModuleAtRest DEF vars, runVars, parserVars
<1>3. CASE Driver /\ UNCHANGED <<parserVars, resolverVars, checkerVars, genVars, argv, stack>>
  <2>1. /\ phase' \in {"done", "parse", "execute"} /\ UNCHANGED <<ast, path, open, genVars, argv>>
        /\ phase' = "execute" => phase = "lower"
    BY <1>3 DEF Driver, Usage, Start, EmitMLIR, Lower, EmitLLVM, Stop, Enter, parserVars
  <2> QED BY <2>1, ModuleAtRest
<1>4. CASE ParserNext /\ UNCHANGED <<resolverVars, checkerVars, genVars, argv, stack>>
  <2>1. phase = "parse" /\ phase' \in {"parse", "resolve", "done"} /\ UNCHANGED genVars
    BY <1>4 DEF ParserNext, ParseLet, ParseReturn, ParseExpressionStmt, ParseFn, ParseTest,
       ParseTailExpression, ParseClose, ParseEof, ParseUnreadable, ParseSyntaxError,
       ParseHugeInteger, Reading, Stop, Enter, runVars
  <2>2. vals' = <<>>
    BY <2>1 DEF TypeInv, GenerateTypes, genVars
  <2>3. DOMAIN vals' = {}
    BY <2>2
  <2> QED BY <2>1, <2>3 DEF GeneratorInv, LexicalValues, TestsRunInOrder
<1>5. CASE ResolverNext /\ UNCHANGED <<parserVars, checkerVars, genVars, argv, stack>>
  <2>1. phase = "resolve" /\ phase' \in {"resolve", "check", "done"}
    BY <1>5 DEF ResolverNext, ResolverBegin, ResolveChildren, ResolveIdentifier, ResolveCall,
       ResolveLet, ResolveBody, ResolveEnd, ResolverReturn, Resolving, Verdict, Stop, Enter,
       Step
  <2> QED BY <1>5, <2>1, ModuleAtRest DEF parserVars
<1>6. CASE CheckerNext /\ UNCHANGED <<parserVars, resolverVars, genVars, argv, stack>>
  <2>1. /\ phase = "check" /\ phase' \in {"check", "generate", "done"}
        /\ phase' = "generate" => pos' = 0
    BY <1>6 DEF CheckerNext, CheckerBegin, CheckIntLiteral, CheckIdentifier,
       CheckBinaryOperator, CheckCall, CheckIntrinsicCall, CheckLet, CheckReturn,
       CheckModuleReturn, CheckFn, CheckNestedFn, CheckTest, CheckEnd, CheckerReturn,
       Checking, Infer, Verdict, Stop, Enter, Step
  <2> QED BY <1>6, <2>1, ModuleAtRest DEF parserVars
<1>7. CASE /\ GenNext(run_tests)
           /\ UNCHANGED <<parserVars, resolverVars, checkerVars, argv, stack>>
  BY <1>1, <1>7, GeneratorKeepsInvariant
<1>8. CASE Execute /\ UNCHANGED <<parserVars, resolverVars, checkerVars, genVars, argv>>
  <2>1. UNCHANGED <<phase, pos>> \/ phase' \in {"done", "run"}
    <3>1. \/ UNCHANGED runVars
          \/ Enter("run")
          \/ \E code, reason : Stop(code, reason)
      BY <1>8 DEF Execute, ExecNext, JITFails, RunInvalid, Invoke, RunIllFormed, RunConstant,
                  RunArith, RunUndefined, RunCompare, RunAssert, RunCall, RunReturn, RunEnd, Result
    <3> QED BY <3>1 DEF runVars, Enter, Stop
  <2> QED BY <1>8, <2>1, ModuleAtRest DEF parserVars
<1>9. CASE Ended /\ UNCHANGED <<parserVars, resolverVars, checkerVars, argv, stack>>
  BY <1>9, ModuleAtRest DEF Ended, runVars, parserVars
<1> QED BY <1>2, <1>3, <1>4, <1>5, <1>6, <1>7, <1>8, <1>9, Zenon DEF Next

\* For every source and every bound: value_map follows the scopes of the tree,
\* and the module has the functions and the calls that the source asks for.
THEOREM Generation == Spec => []GeneratorInv
<1>1. Init => IInv /\ TypeInv /\ GeneratorInv
  <2> SUFFICES ASSUME Init PROVE GeneratorInv
    BY InitIInv, InitTypeInv
  <2>1. phase = "start" /\ DOMAIN vals = {}
    BY DEF Init, GenInit
  <2> QED BY <2>1 DEF GeneratorInv, LexicalValues, TestsRunInOrder
<1>2. (IInv /\ TypeInv /\ GeneratorInv) /\ [Next]_vars => (IInv /\ TypeInv /\ GeneratorInv)'
  BY StepIInv, StepTypeInv, StepGeneratorInv
<1> QED BY <1>1, <1>2, PTL DEF Spec

\* A variable reads the value that its lexical binder gave it, whatever is
\* shadowed and however bodies nest: save, clear and restore of value_map are
\* lexical scoping.
THEOREM Lexicality == Spec => []ValueIsLexical
<1>1. GeneratorInv => ValueIsLexical
  <2> SUFFICES ASSUME LexicalValues, NEW n \in DOMAIN vals, ast[n].k = "ident"
               PROVE  LET x == ast[n].name
                          b == Binder(x, n)
                      IN  IF ast[b].k = "let"
                            THEN vals[n] = vals[b - 1]
                            ELSE /\ funcs[vals[n].fn].sym = Sym(ast[b].name)
                                 /\ vals[n].at =
                                      -Max({i \in DOMAIN ast[b].params :
                                               ast[b].params[i].name = x})
    BY DEF GeneratorInv, ValueIsLexical
  <2> DEFINE x == ast[n].name
             b == Binder(x, n)
  <2>1. Gives(b, x, vals[n])
    BY DEF LexicalValues, LexicalValue, Binder
  <2> DEFINE i == Max({j \in DOMAIN ast[b].params : ast[b].params[j].name = x})
  <2>2. CASE ast[b].k = "let"
    BY <2>1, <2>2 DEF Gives
  <2>3. CASE ast[b].k # "let"
    <3>1. \E f \in DOMAIN funcs :
             /\ funcs[f].sym = Sym(ast[b].name)
             /\ vals[n] = [fn |-> f, at |-> -i, type |-> funcs[f].params[i]]
      BY <2>1, <2>3 DEF Gives
    <3> HIDE DEF b, i
    <3>2. funcs[vals[n].fn].sym = Sym(ast[b].name) /\ vals[n].at = -i
      BY <3>1
    <3> QED BY <2>3, <3>2 DEF b, i
  <2> QED BY <2>2, <2>3
<1> QED BY <1>1, Generation, PTL

\* `forge test` calls every test of the source exactly once and in order, as
\* the last thing that __main does; `forge build` calls none.
THEOREM TestOrder == Spec => []TestsRunInOrder
<1>1. GeneratorInv => TestsRunInOrder
  BY DEF GeneratorInv
<1> QED BY <1>1, Generation, PTL
=============================================================================
