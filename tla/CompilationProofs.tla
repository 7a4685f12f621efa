-------------------------- MODULE CompilationProofs --------------------------
(***************************************************************************)
(* Where in the module each step of the source ends up, whatever the        *)
(* source: CompilationInv is inductive.  The generator renders the steps of *)
(* a body in their order, and what it creates later leaves them alone.      *)
(***************************************************************************)
EXTENDS CompilationInvariant, SoundnessProofs, ExecutionProofs, FiniteSetTheorems

\* How many steps of a body precede a node.
LEMMA StepsFinite ==
    ASSUME NEW p, NEW n \in Nat
    PROVE  IsFiniteSet({m \in 1..n - 1 : path[m] = p /\ IsStep(m)})
<1> DEFINE S == {m \in 1..n - 1 : path[m] = p /\ IsStep(m)}
<1>1. IsFiniteSet(1..n - 1)
  BY FS_Interval
<1>2. S \in SUBSET (1..n - 1)
  OBVIOUS
<1> HIDE DEF S
<1>3. IsFiniteSet(S)
  BY <1>1, <1>2, FS_Subset
<1> QED BY <1>3 DEF S

LEMMA BeforeIsNumber == \A p : \A n \in Nat : Before(p, n) \in Nat
<1> TAKE p
<1> TAKE n \in Nat
<1> DEFINE S == {m \in 1..n - 1 : path[m] = p /\ IsStep(m)}
<1>1. IsFiniteSet(S)
  BY StepsFinite, Zenon
<1>2. Before(p, n) = Cardinality(S)
  BY DEF Before
<1> HIDE DEF S
<1> QED BY <1>1, <1>2, FS_CardinalityType

LEMMA BeforeNext ==
    ASSUME NEW p, NEW n \in Nat \ {0}
    PROVE  Before(p, n + 1) = IF path[n] = p /\ IsStep(n) THEN Before(p, n) + 1 ELSE Before(p, n)
<1> DEFINE S == {m \in 1..n - 1 : path[m] = p /\ IsStep(m)}
           T == {m \in 1..(n + 1) - 1 : path[m] = p /\ IsStep(m)}
<1>1. IsFiniteSet(S) /\ n \notin S
  <2>1. n \in Nat /\ n \notin 1..n - 1
    OBVIOUS
  <2>2. IsFiniteSet(S)
    BY <2>1, StepsFinite, Zenon
  <2> QED BY <2>1, <2>2, Zenon
<1>2. T = IF path[n] = p /\ IsStep(n) THEN S \cup {n} ELSE S
  <2>1. 1..(n + 1) - 1 = (1..n - 1) \cup {n}
    OBVIOUS
  <2> QED BY <2>1, Zenon
<1>3. Before(p, n) = Cardinality(S) /\ Before(p, n + 1) = Cardinality(T)
  BY DEF Before
<1> HIDE DEF S, T
<1>4. Cardinality(S \cup {n}) = Cardinality(S) + 1
  BY <1>1, FS_AddElement
<1> QED BY <1>2, <1>3, <1>4

LEMMA BeforeFirst == ASSUME NEW p PROVE Before(p, 1) = 0
<1>1. {m \in 1..1 - 1 : path[m] = p /\ IsStep(m)} = {}
  OBVIOUS
<1> QED BY <1>1, FS_EmptySet DEF Before

\* A step comes before every node that follows it.
LEMMA BeforeGrows ==
    ASSUME NEW p, NEW m \in Nat \ {0}, NEW n \in Nat \ {0}, m < n
    PROVE  /\ Before(p, m) <= Before(p, n) /\ Before(p, m) \in Nat /\ Before(p, n) \in Nat
           /\ path[m] = p /\ IsStep(m) => Before(p, m) < Before(p, n)
<1>1. ASSUME NEW j \in Nat, NEW k \in Nat, j <= k
      PROVE  Before(p, j) <= Before(p, k)
  <2> DEFINE S == {i \in 1..j - 1 : path[i] = p /\ IsStep(i)}
             T == {i \in 1..k - 1 : path[i] = p /\ IsStep(i)}
  <2>1. IsFiniteSet(T)
    BY StepsFinite, Zenon
  <2>2. S \in SUBSET T
    BY <1>1
  <2>3. Before(p, j) = Cardinality(S) /\ Before(p, k) = Cardinality(T)
    BY DEF Before
  <2> HIDE DEF S, T
  <2> QED BY <2>1, <2>2, <2>3, FS_Subset
<1>2. Before(p, m) <= Before(p, n) /\ Before(p, m + 1) <= Before(p, n)
  BY <1>1
<1>3. Before(p, m) \in Nat /\ Before(p, n) \in Nat /\ Before(p, m + 1) \in Nat
  BY BeforeIsNumber
<1>4. path[m] = p /\ IsStep(m) => Before(p, m + 1) = Before(p, m) + 1
  BY BeforeNext
<1> QED BY <1>2, <1>3, <1>4

\* A source that stays as it is has the same steps.
StepsStay ==
    /\ Nodes' = Nodes /\ \A n : IsStep(n)' <=> IsStep(n)
    /\ \A p : Steps(p)' = Steps(p)
    /\ \A p, n : Before(p, n)' = Before(p, n)
    /\ \A n : Index(n)' = Index(n)

LEMMA StepsUnchanged == ASSUME UNCHANGED <<ast, path>> PROVE StepsStay
<1>1. Nodes' = Nodes /\ \A n : IsStep(n)' <=> IsStep(n)
  BY DEF Nodes, IsStep
<1>2. \A p : Steps(p)' = Steps(p)
  BY <1>1 DEF Steps
<1>3. \A p, n : Before(p, n)' = Before(p, n)
  BY <1>1 DEF Before
<1>4. \A n : Index(n)' = Index(n)
  BY <1>3 DEF Index
<1> QED BY <1>1, <1>2, <1>3, <1>4 DEF StepsStay

\* The operation that renders a node still does when later nodes have values.
LEMMA RendersKept ==
    ASSUME AtNode, UNCHANGED <<ast, path, ty>>, NEW w, vals' = Append(vals, w),
           NEW n \in 1..pos, NEW o, Renders(o, n)
    PROVE  Renders(o, n)'
<1>1. /\ n \in Nodes /\ OperandsPrecede(n) /\ CallableNode(n) /\ ast[n] \in Node
      /\ vals \in Seq(Value) /\ Len(vals) = pos - 1 /\ pos \in Nat
  BY GeneratingFacts DEF TreeInv, Nodes
<1>2. \A m \in 1..n - 1 : vals'[m] = vals[m]
  BY <1>1
<1>3. ASSUME ast[n].k \in {"bin", "call", "intrinsic"}
      PROVE  /\ "kids" \in DOMAIN ast[n] /\ DOMAIN ast[n].kids = 1..Len(ast[n].kids)
             /\ \A i \in 1..Len(ast[n].kids) : Kid(n, i) \in 1..n - 1
  <2>1. "kids" \in DOMAIN ast[n] /\ ast[n].kids \in Seq(Nat \ {0})
    BY <1>1, <1>3 DEF Node, ExprNode, Kids
  <2> QED BY <1>1, <2>1 DEF OperandsPrecede
<1>4. \A i : Kid(n, i)' = Kid(n, i)
  BY DEF Kid
<1>5. ASSUME ast[n].k \in {"bin", "call"}
      PROVE  Operands(n, vals)' = Operands(n, vals)
  <2>1. \A i \in 1..Len(ast[n].kids) : vals'[Kid(n, i)] = vals[Kid(n, i)]
    BY <1>2, <1>3, <1>5
  <2> QED BY <2>1 DEF Operands, Kid
<1>6. ast[n].k = "intrinsic" => vals'[Kid(n, 1)] = vals[Kid(n, 1)]
  <2> SUFFICES ASSUME ast[n].k = "intrinsic" PROVE vals'[Kid(n, 1)] = vals[Kid(n, 1)]
    OBVIOUS
  <2>1. Len(ast[n].kids) = 1
    BY <1>1 DEF CallableNode
  <2>2. Kid(n, 1) \in 1..n - 1
    BY <1>3, <2>1
  <2> QED BY <1>2, <2>2
<1>7. ast[n].k = "return" /\ ast[n].expr => vals'[n - 1] = vals[n - 1]
  <2>1. ast[n].k = "return" /\ ast[n].expr => n > 1
    BY <1>1 DEF OperandsPrecede
  <2> QED BY <1>1, <1>2, <2>1
<1> QED BY <1>4, <1>5, <1>6, <1>7 DEF Renders

\* The body that is generated in function f.
LEMMA BodyAtHand ==
    ASSUME AtNode, NEW f \in DOMAIN funcs
    PROVE  path[pos] = Body(f) <=> f = Home(pos)
<1>1. /\ pos \in 1..pos /\ Home(pos) \in DOMAIN funcs
      /\ IF path[pos] = <<>> THEN Home(pos) = Main
                             ELSE path[pos] = <<Home(pos)>> /\ Home(pos) # Main
  <2>1. pos \in 1..pos
    BY GeneratingFacts
  <2> QED BY <2>1, HomeExists
<1>2. \A g, h : <<g>> = <<h>> => g = h
  OBVIOUS
<1>3. \A g : <<g>> # <<>>
  OBVIOUS
<1>4. CASE path[pos] = <<>>
  BY <1>1, <1>3, <1>4 DEF Body, ModuleScope, Main
<1>5. CASE path[pos] # <<>>
  BY <1>1, <1>2, <1>5 DEF Body, ModuleScope, Main
<1> QED BY <1>4, <1>5

\* The step at the cursor is the next of its body.
LEMMA NextAccounted ==
    ASSUME NEW f, NEW n \in Nodes, Len(ast) \in Nat, StepsFirst(f, n)
    PROVE  StepsFirst(f, n + 1)
<1>1. n \in Nat \ {0}
  BY DEF Nodes
<1>2. Before(Body(f), n) \in Nat
  BY <1>1, BeforeIsNumber
<1> SUFFICES ASSUME NEW i \in 1..Before(Body(f), n + 1)
             PROVE  \E m \in Steps(Body(f)) : m < n + 1 /\ Index(m) = i
  BY DEF StepsFirst
<1>3. CASE i \in 1..Before(Body(f), n)
  <2>1. PICK m \in Steps(Body(f)) : m < n /\ Index(m) = i
    BY <1>3 DEF StepsFirst
  <2>2. m \in Nat
    BY DEF Steps, Nodes
  <2> QED BY <1>1, <2>1, <2>2
<1>4. CASE i \notin 1..Before(Body(f), n)
  <2>1. path[n] = Body(f) /\ IsStep(n) /\ i = Before(Body(f), n) + 1
    BY <1>1, <1>2, <1>4, BeforeNext
  <2> QED BY <1>1, <2>1 DEF Steps, Index
<1> QED BY <1>3, <1>4

\* What a handler of the generator does to the module, at the cursor: it adds
\* at most one operation, o, which is for the node at the cursor.
Compiles(o, w) ==
    /\ pos' = pos + 1 /\ vals' = Append(vals, w)
    /\ \A f \in DOMAIN funcs :
          /\ f \in DOMAIN funcs' /\ funcs'[f].sym = funcs[f].sym
          /\ funcs'[f].ops = IF f = Home(pos) /\ IsStep(pos)
                               THEN Append(funcs[f].ops, o) ELSE funcs[f].ops
    /\ \A f \in DOMAIN funcs' \ DOMAIN funcs : f = pos /\ funcs'[f].ops = <<>>
    /\ IsStep(pos) => Renders(o, pos)
    /\ ast[pos].k \in ValueKinds => w \in Value
    /\ ast[pos].k \in ValueKinds \ {"ident"} => w.at = Index(pos)
    /\ ast[pos].k = "ident" => w.at # 0 /\ w.at <= Before(path[pos], pos)
    /\ IF ast[pos].k = "test"
         THEN LET sym == TestSym(Len(test_symbols))
              IN  /\ pos \in DOMAIN funcs' /\ funcs'[pos].sym = sym
                  /\ test_symbols' = Append(test_symbols, sym)
         ELSE test_symbols' = test_symbols

LEMMA OperationsAccounted ==
    ASSUME AtNode, CompilingInv, UNCHANGED <<ast, path, open>>, NEW o, NEW w, Compiles(o, w),
           NEW f \in DOMAIN funcs'
    PROVE  Accounted(f, pos)'
<1>1. /\ pos \in Nat \ {0} /\ pos \in Nodes /\ Len(ast) \in Nat /\ pos' = pos + 1
      /\ ModuleTyped /\ TreeInv
  BY GeneratingFacts DEF Compiles, AtNode
<1>2. StepsStay
  BY StepsUnchanged
<1>3. CASE f \in DOMAIN funcs
  <2>1. Len(funcs[f].ops) = Before(Body(f), pos) /\ StepsFirst(f, pos)
    BY <1>3 DEF CompilingInv, Accounted
  <2>2. StepsFirst(f, pos + 1)
    BY <1>1, <2>1, NextAccounted
  <2>3. path[pos] = Body(f) <=> f = Home(pos)
    BY <1>3, BodyAtHand
  <2>4. Before(Body(f), pos + 1) = IF f = Home(pos) /\ IsStep(pos)
                                     THEN Before(Body(f), pos) + 1 ELSE Before(Body(f), pos)
    BY <1>1, <2>3, BeforeNext
  <2>5. funcs[f].ops \in Seq(Range(funcs[f].ops))
    BY <1>1, <1>3 DEF ModuleTyped, FunctionTyped
  <2>6. funcs'[f].ops = IF f = Home(pos) /\ IsStep(pos)
                           THEN Append(funcs[f].ops, o) ELSE funcs[f].ops
    BY <1>3 DEF Compiles
  <2>7. Len(funcs'[f].ops) = Before(Body(f), pos + 1)
    <3> DEFINE ops == funcs[f].ops
    <3>1. Len(Append(ops, o)) = Len(ops) + 1
      BY <2>5
    <3> QED BY <2>1, <2>4, <2>6, <3>1
  <2> QED BY <1>1, <1>2, <2>2, <2>7 DEF Accounted, StepsFirst, StepsStay, Body
<1>4. CASE f \notin DOMAIN funcs
  <2>1. f = pos /\ funcs'[f].ops = <<>>
    BY <1>4 DEF Compiles
  <2>2. Body(pos) = <<pos>>
    BY <1>1 DEF Body, ModuleScope
  <2>3. \A m \in 1..pos : path[m] # <<pos>>
    <3> SUFFICES ASSUME NEW m \in 1..pos, path[m] = <<pos>> PROVE FALSE
      OBVIOUS
    <3>1. m \in Nodes /\ PathAt(m) = path[m] /\ m \in 1..Len(ast) + 1
      BY <1>1 DEF Nodes, PathAt
    <3>2. Nested(m)
      BY <1>1, <3>1 DEF TreeInv
    <3>3. Len(PathAt(m)) = 1 /\ PathAt(m)[1] = pos
      BY <3>1
    <3>4. pos < m
      BY <3>2, <3>3 DEF Nested
    <3> QED BY <1>1, <3>4
  <2>4. {m \in 1..(pos + 1) - 1 : path[m] = Body(pos) /\ IsStep(m)} = {}
    BY <1>1, <2>2, <2>3
  <2>5. Before(Body(pos), pos + 1) = 0
    BY <2>4, FS_EmptySet DEF Before
  <2>6. Len(funcs'[f].ops) = 0 /\ 1..Before(Body(pos), pos + 1) = {}
    BY <2>1, <2>5
  <2> QED BY <1>1, <1>2, <2>1, <2>5, <2>6 DEF Accounted, StepsFirst, StepsStay, Body
<1> QED BY <1>3, <1>4

\* What was compiled stays compiled.
LEMMA NodesStayCompiled ==
    ASSUME AtNode, CompilingInv, UNCHANGED <<ast, path, open, ty>>, NEW o, NEW w, Compiles(o, w),
           NEW n \in 1..pos - 1
    PROVE  StepCompiled(n)' /\ ValueInPlace(n)'
<1>1. /\ pos \in Nat \ {0} /\ n \in 1..pos /\ n \in DOMAIN vals /\ ModuleTyped
      /\ vals \in Seq(Value) /\ Len(vals) = pos - 1
  BY GeneratingFacts
<1>2. StepsStay
  BY StepsUnchanged
<1>3. StepCompiled(n) /\ ValueInPlace(n)
  BY <1>1 DEF CompilingInv
<1>4. vals' = Append(vals, w) /\ vals'[n] = vals[n]
  BY <1>1 DEF Compiles
<1>5. ValueInPlace(n)'
  BY <1>2, <1>3, <1>4 DEF ValueInPlace, StepsStay
<1>6. ASSUME IsStep(n)
      PROVE  StepCompiled(n)'
  <2> DEFINE f == Home(n)
             ops == funcs[f].ops
  <2>1. f \in DOMAIN funcs
    BY <1>1, HomeExists
  <2>2. /\ Index(n) \in DOMAIN ops /\ Renders(ops[Index(n)], n)
        /\ ast[n].k \in {"int", "bin", "call"} => vals[n].at = Index(n)
    BY <1>3, <1>6 DEF StepCompiled, Home
  <2>3. ops \in Seq(Range(ops))
    BY <1>1, <2>1 DEF ModuleTyped, FunctionTyped
  <2>4. funcs'[f].ops = ops \/ funcs'[f].ops = Append(ops, o)
    BY <2>1 DEF Compiles
  <2>5. Index(n) \in DOMAIN funcs'[f].ops /\ funcs'[f].ops[Index(n)] = ops[Index(n)]
    <3> HIDE DEF ops
    <3>1. DOMAIN ops \subseteq DOMAIN Append(ops, o) /\ \A i \in DOMAIN ops : Append(ops, o)[i] = ops[i]
      BY <2>3
    <3> QED BY <2>2, <2>4, <3>1
  <2>6. PICK q : q = ops[Index(n)]
    OBVIOUS
  <2>7. Renders(q, n)'
    BY <1>1, <1>4, <2>2, <2>6, RendersKept
  <2>8. Home(n)' = f /\ Index(n)' = Index(n)
    BY <1>2 DEF Home, FnOf, Main, StepsStay
  <2> HIDE DEF f, ops
  <2> QED BY <1>4, <2>2, <2>5, <2>6, <2>7, <2>8 DEF StepCompiled, Home
<1>7. ~IsStep(n) => StepCompiled(n)'
  BY <1>2 DEF StepCompiled, StepsStay
<1> QED BY <1>5, <1>6, <1>7

\* And the node at the cursor is compiled.
LEMMA NodeCompiled ==
    ASSUME AtNode, CompilingInv, UNCHANGED <<ast, path, open, ty>>, NEW o, NEW w, Compiles(o, w),
           NEW n, n = pos
    PROVE  StepCompiled(n)' /\ ValueInPlace(n)'
<1>1. /\ pos \in Nat \ {0} /\ pos \in 1..pos /\ ModuleTyped
      /\ vals \in Seq(Value) /\ Len(vals) = pos - 1
  BY GeneratingFacts
<1>2. StepsStay
  BY StepsUnchanged
<1>3. n = pos
  OBVIOUS
<1>4. vals' = Append(vals, w) /\ vals'[n] = w
  BY <1>1, <1>3 DEF Compiles
<1>5. ValueInPlace(n)'
  <2>1. Before(path[n], n) \in Nat
    BY <1>1, <1>3, BeforeIsNumber
  <2>2. Before(path[n], n + 1) = IF IsStep(n) THEN Before(path[n], n) + 1 ELSE Before(path[n], n)
    BY <1>1, <1>3, BeforeNext
  <2>3. ASSUME ast[n].k \in ValueKinds
        PROVE  w \in Value /\ w.at # 0 /\ w.at <= Before(path[n], n + 1)
    <3>1. CASE ast[n].k = "ident"
      <4>1. ~IsStep(n)
        BY <3>1 DEF IsStep
      <4> QED BY <1>3, <2>1, <2>2, <2>3, <3>1, <4>1 DEF Compiles
    <3>2. CASE ast[n].k # "ident"
      <4>1. IsStep(n)
        BY <2>3, <3>2 DEF IsStep, ValueKinds, ExprKinds
      <4> QED BY <1>3, <2>1, <2>2, <2>3, <3>2, <4>1 DEF Compiles, Index
    <3> QED BY <3>1, <3>2
  <2> QED BY <1>2, <1>4, <2>3 DEF ValueInPlace, StepsStay
<1>6. ASSUME IsStep(n)
      PROVE  StepCompiled(n)'
  <2> DEFINE f == Home(n)
             ops == funcs[f].ops
  <2>1. f \in DOMAIN funcs /\ Body(f) = path[n]
    <3>1. Home(pos) \in DOMAIN funcs
      BY <1>1, HomeExists
    <3> QED BY <1>3, <3>1, BodyAtHand
  <2>2. Len(ops) = Before(path[n], n)
    BY <1>3, <2>1 DEF CompilingInv, Accounted
  <2>3. ops \in Seq(Range(ops))
    BY <1>1, <2>1 DEF ModuleTyped, FunctionTyped
  <2>4. funcs'[f].ops = Append(ops, o) /\ Renders(o, n)
    BY <1>3, <1>6, <2>1 DEF Compiles
  <2>5. Index(n) \in DOMAIN funcs'[f].ops /\ funcs'[f].ops[Index(n)] = o
    <3> HIDE DEF ops
    <3>1. Len(ops) + 1 \in DOMAIN Append(ops, o) /\ Append(ops, o)[Len(ops) + 1] = o
      BY <2>3
    <3> QED BY <2>2, <2>4, <3>1 DEF Index
  <2>6. Renders(o, n)'
    BY <1>1, <1>3, <1>4, <2>4, RendersKept
  <2>7. Home(n)' = f /\ Index(n)' = Index(n)
    BY <1>2 DEF Home, FnOf, Main, StepsStay
  <2>8. ast[n].k \in {"int", "bin", "call"} => w.at = Index(n)
    BY <1>3 DEF Compiles, ValueKinds, ExprKinds
  <2> HIDE DEF f, ops
  <2> QED BY <1>4, <2>5, <2>6, <2>7, <2>8 DEF StepCompiled, Home
<1>7. ~IsStep(n) => StepCompiled(n)'
  BY <1>2 DEF StepCompiled, StepsStay
<1> QED BY <1>5, <1>6, <1>7

\* The tests are numbered as they stand.
LEMMA TestsNumbered ==
    ASSUME AtNode, CompilingInv, UNCHANGED <<ast, path, open, ty>>, NEW o, NEW w, Compiles(o, w)
    PROVE  /\ Len(test_symbols') = Cardinality(TestsSoFar')
           /\ \A n \in TestsSoFar' : funcs'[n].sym = TestSym(TestNumber(n)')
<1>1. /\ pos \in Nat \ {0} /\ pos \in Nodes /\ DOMAIN vals = 1..pos - 1 /\ FunctionsInv
      /\ \A n \in 1..pos : n \in Nodes
  BY GeneratingFacts DEF AtNode
<1>2. test_symbols \in Seq(Range(test_symbols))
  BY <1>1 DEF AtNode, TypeInv, GenerateTypes
<1>3. /\ Len(test_symbols) = Cardinality(TestsSoFar)
      /\ \A n \in TestsSoFar : funcs[n].sym = TestSym(TestNumber(n))
  BY DEF CompilingInv
<1>4. DOMAIN vals' = 1..pos
  BY <1>1, GeneratingFacts DEF Compiles
<1>5. TestsSoFar' = IF ast[pos].k = "test" THEN TestsSoFar \cup {pos} ELSE TestsSoFar
  BY <1>1, <1>4 DEF TestsSoFar
<1>6. IsFiniteSet(TestsSoFar) /\ pos \notin TestsSoFar
  <2>1. IsFiniteSet(1..pos - 1)
    BY <1>1, FS_Interval
  <2>2. TestsSoFar \in SUBSET (1..pos - 1)
    BY <1>1 DEF TestsSoFar
  <2>3. IsFiniteSet(TestsSoFar)
    BY <2>1, <2>2, FS_Subset
  <2> QED BY <1>1, <2>2, <2>3
<1>7. \A n : TestNumber(n)' = TestNumber(n)
  BY DEF TestNumber, TestDecls, Nodes
<1>8. \A n \in TestsSoFar : funcs'[n].sym = TestSym(TestNumber(n)')
  <2>1. \A n \in TestsSoFar : n \in DOMAIN funcs
    BY <1>1 DEF FunctionsInv
  <2> QED BY <1>3, <1>7, <2>1 DEF Compiles
<1>9. CASE ast[pos].k = "test"
  <2>1. Len(test_symbols') = Len(test_symbols) + 1
    BY <1>2, <1>9 DEF Compiles
  <2>2. Cardinality(TestsSoFar \cup {pos}) = Cardinality(TestsSoFar) + 1
    BY <1>6, FS_AddElement
  <2>3. TestNumber(pos) = Cardinality(TestsSoFar)
    <3>1. {m \in TestDecls : m < pos} = TestsSoFar
      BY <1>1 DEF TestDecls, TestsSoFar, Nodes
    <3> QED BY <3>1 DEF TestNumber
  <2>4. PICK n : n = pos
    OBVIOUS
  <2>5. funcs'[n].sym = TestSym(TestNumber(n)')
    <3>1. funcs'[n].sym = TestSym(Len(test_symbols))
      BY <1>9, <2>4 DEF Compiles
    <3>2. TestNumber(n)' = Len(test_symbols)
      BY <1>3, <1>7, <2>3, <2>4
    <3> QED BY <3>1, <3>2
  <2> QED BY <1>3, <1>5, <1>8, <1>9, <2>1, <2>2, <2>4, <2>5
<1>10. CASE ast[pos].k # "test"
  BY <1>3, <1>5, <1>8, <1>10 DEF Compiles
<1> QED BY <1>9, <1>10

LEMMA WalkKeepsCompiling ==
    ASSUME AtNode, CompilingInv, UNCHANGED <<ast, path, open, ty>>, NEW o, NEW w, Compiles(o, w)
    PROVE  CompilingInv'
<1>1. pos \in Nat \ {0} /\ DOMAIN vals' = 1..pos
  BY GeneratingFacts DEF Compiles
<1>2. ASSUME NEW n \in DOMAIN vals'
      PROVE  StepCompiled(n)' /\ ValueInPlace(n)'
  <2>1. CASE n = pos
    BY <2>1, NodeCompiled
  <2>2. CASE n # pos
    BY <1>1, <2>2, NodesStayCompiled
  <2> QED BY <2>1, <2>2
<1>3. \A f \in DOMAIN funcs' : Accounted(f, pos)'
  BY OperationsAccounted
<1>4. /\ Len(test_symbols') = Cardinality(TestsSoFar')
      /\ \A n \in TestsSoFar' : funcs'[n].sym = TestSym(TestNumber(n)')
  BY TestsNumbered
<1> QED BY <1>2, <1>3, <1>4 DEF CompilingInv

\* One handler after the other.  Those that create an operation:
LEMMA CreateCompiles ==
    ASSUME AtNode, CompilingInv, UNCHANGED <<ast, path, open, ty>>, vals' \in Seq(Value),
           ast[pos].k \notin {"ident", "test"}, IsStep(pos),
           NEW op, NEW args, NEW attr, NEW type, Create(op, args, attr, type),
           NoValue \notin Range(args), Renders(Operation(op, args, attr, type), pos),
           ast[pos].k \in ValueKinds => type # NoType
    PROVE  phase' = phase /\ CompilingInv'
<1> DEFINE f == Home(pos)
           o == Operation(op, args, attr, type)
           w == IF type = NoType THEN NoValue ELSE [fn |-> f, at |-> Len(funcs[f].ops) + 1, type |-> type]
<1>1. /\ ip = [fn |-> f, block |-> 1] /\ f \in DOMAIN funcs /\ ModuleTyped
      /\ pos \in Nat \ {0} /\ vals \in Seq(Value) /\ Len(vals) = pos - 1
  <2>1. pos \in 1..pos
    BY GeneratingFacts
  <2> QED BY <2>1, GeneratingFacts, HomeExists
<1>2. /\ funcs' = [funcs EXCEPT ![f].ops = Append(@, o)] /\ vals' = Append(vals, w)
      /\ pos' = pos + 1 /\ UNCHANGED <<phase, test_symbols>>
  BY <1>1 DEF Create, Step
<1>3. Len(funcs[f].ops) + 1 = Index(pos)
  <2>1. path[pos] = Body(f)
    BY <1>1, BodyAtHand
  <2> QED BY <1>1, <2>1 DEF CompilingInv, Accounted, Index
<1> HIDE DEF f, o
<1>4. ast[pos].k \in ValueKinds => w.at = Index(pos)
  BY <1>3
<1> HIDE DEF w
<1>5. w \in Value
  <2>1. vals'[pos] = w /\ pos \in DOMAIN vals'
    BY <1>1, <1>2
  <2> QED BY <2>1
<1>6. \A g \in DOMAIN funcs :
         /\ g \in DOMAIN funcs' /\ funcs'[g].sym = funcs[g].sym
         /\ funcs'[g].ops = IF g = f THEN Append(funcs[g].ops, o) ELSE funcs[g].ops
  <2> TAKE g \in DOMAIN funcs
  <2>1. FunctionTyped(funcs[g])
    BY <1>1 DEF ModuleTyped
  <2>2. DOMAIN funcs[g] = {"sym", "params", "rets", "blocks", "ops"}
    BY <2>1 DEF FunctionTyped
  <2> QED BY <1>1, <1>2, <2>2
<1>7. DOMAIN funcs' = DOMAIN funcs
  BY <1>2
<1>8. Compiles(o, w)
  <2>1. Renders(o, pos)
    BY DEF o
  <2> QED BY <1>2, <1>4, <1>5, <1>6, <1>7, <2>1 DEF Compiles, f
<1> QED BY <1>2, <1>8, WalkKeepsCompiling

LEMMA GenIntLiteralCompiles ==
    ASSUME AtNode, CompilingInv, UNCHANGED <<ast, path, open, ty>>, vals' \in Seq(Value), GenIntLiteral
    PROVE  phase' = phase /\ CompilingInv'
<1>1. ast[pos].k = "int" /\ Create("constant", <<>>, <<ast[pos].value>>, "i64")
  BY DEF GenIntLiteral, Generating, At
<1>2. CheckedNode(pos)
  BY GeneratingFacts DEF AtNode
<1>3. ty[pos] = "i64"
  BY <1>1, <1>2 DEF CheckedNode
<1>4. IsStep(pos) /\ Renders(Operation("constant", <<>>, <<ast[pos].value>>, "i64"), pos)
  BY <1>1, <1>3 DEF Renders, Operation, IsStep
<1>5. Range(<<>>) = {}
  BY DEF Range
<1> QED BY <1>1, <1>4, <1>5, CreateCompiles DEF NoType

LEMMA GenBinaryOperatorCompiles ==
    ASSUME AtNode, CompilingInv, UNCHANGED <<ast, path, open, ty>>, vals' \in Seq(Value), GenBinaryOperator
    PROVE  phase' = phase /\ CompilingInv'
<1> DEFINE o == Operands(pos, vals)
<1>1. /\ ast[pos].k = "bin" /\ "kids" \in DOMAIN ast[pos] /\ CheckedNode(pos)
      /\ Create(ast[pos].op, o, <<>>, ty[pos])
  BY BinaryCreated
<1>2. NoValue \notin Range(o)
  BY <1>1, OperandsUsable
<1>3. IsStep(pos) /\ Renders(Operation(ast[pos].op, o, <<>>, ty[pos]), pos)
  BY <1>1 DEF Renders, Operation, IsStep
<1>4. ty[pos] # NoType
  BY <1>1 DEF CheckedNode, ValueKinds, ExprKinds, ScalarTypes, IntegerTypes, Floats, NoType
<1> HIDE DEF o
<1> QED BY <1>1, <1>2, <1>3, <1>4, CreateCompiles

LEMMA GenCallCompiles ==
    ASSUME AtNode, CompilingInv, UNCHANGED <<ast, path, open, ty>>, vals' \in Seq(Value), GenCall
    PROVE  phase' = phase /\ CompilingInv'
<1> DEFINE o == Operands(pos, vals)
<1>1. /\ ast[pos].k = "call" /\ "kids" \in DOMAIN ast[pos]
      /\ Create("call", o, Sym(ast[pos].name), ty[pos])
  BY CallCreated
<1>2. NoValue \notin Range(o)
  BY <1>1, OperandsUsable
<1>3. IsStep(pos) /\ Renders(Operation("call", o, Sym(ast[pos].name), ty[pos]), pos)
  BY <1>1 DEF Renders, Operation, IsStep
<1>4. ty[pos] # NoType
  <2>1. CheckedNode(pos)
    BY GeneratingFacts DEF AtNode
  <2> QED BY <1>1, <2>1 DEF CheckedNode, ValueKinds, ExprKinds, ScalarTypes, IntegerTypes, Floats, NoType
<1> HIDE DEF o
<1> QED BY <1>1, <1>2, <1>3, <1>4, CreateCompiles

LEMMA GenIntrinsicCallCompiles ==
    ASSUME AtNode, CompilingInv, UNCHANGED <<ast, path, open, ty>>, vals' \in Seq(Value), GenIntrinsicCall
    PROVE  phase' = phase /\ CompilingInv'
<1> DEFINE o == Operands(pos, vals)
           v == vals[Kid(pos, 1)]
<1>1. /\ ast[pos].k = "intrinsic" /\ "kids" \in DOMAIN ast[pos] /\ Len(ast[pos].kids) = 1
      /\ Create("assert", <<v>>, <<>>, NoType)
  BY AssertCreated
<1>2. /\ DOMAIN o = 1..1 /\ NoValue \notin Range(o)
  BY <1>1, OperandsUsable
<1>3. o[1] = v /\ v \in Range(o)
  BY <1>1, <1>2 DEF Operands, Range
<1>4. NoValue \notin Range(<<v>>)
  BY <1>2, <1>3 DEF Range
<1>5. IsStep(pos) /\ Renders(Operation("assert", <<v>>, <<>>, NoType), pos)
  BY <1>1 DEF Renders, Operation, IsStep
<1>6. ast[pos].k \notin ValueKinds
  BY <1>1 DEF ValueKinds, ExprKinds
<1> HIDE DEF o, v
<1> QED BY <1>1, <1>4, <1>5, <1>6, CreateCompiles

LEMMA GenReturnCompiles ==
    ASSUME AtNode, CompilingInv, UNCHANGED <<ast, path, open, ty>>, vals' \in Seq(Value), GenReturn
    PROVE  phase' = phase /\ CompilingInv'
<1> DEFINE args == IF ast[pos].expr THEN <<vals[pos - 1]>> ELSE <<>>
<1>1. ast[pos].k = "return" /\ Create("return", args, <<>>, NoType)
  BY DEF GenReturn, Generating, At
<1>2. IsStep(pos) /\ Renders(Operation("return", args, <<>>, NoType), pos)
  BY <1>1 DEF Renders, Operation, IsStep
<1>3. NoValue \notin Range(args)
  <2>1. CASE ~ast[pos].expr
    BY <2>1 DEF Range
  <2>2. CASE ast[pos].expr
    <3>1. Shaped /\ ~AssertUsedAsValue /\ OperandsPrecede(pos) /\ pos \in Nodes /\ pos \in Nat
      BY GeneratingFacts DEF AtNode, Gap
    <3>2. pos - 1 \in 1..pos - 1
      BY <1>1, <2>2, <3>1 DEF OperandsPrecede
    <3>3. ast[pos - 1].k \in ValueKinds
      BY <1>1, <2>2, <3>1, OperandsAreValues
    <3>4. path[pos - 1] = path[pos]
      BY <1>1, <2>2, <3>1 DEF Shaped, ShapedNode
    <3>5. vals[pos - 1] # NoValue
      BY <3>2, <3>3, <3>4, OperandUsable
    <3> QED BY <2>2, <3>5 DEF Range
  <2> QED BY <2>1, <2>2
<1>4. ast[pos].k \notin ValueKinds
  BY <1>1 DEF ValueKinds, ExprKinds
<1> HIDE DEF args
<1> QED BY <1>1, <1>2, <1>3, <1>4, CreateCompiles

\* Those that create none:
LEMMA QuietCompiles ==
    ASSUME AtNode, CompilingInv, UNCHANGED <<ast, path, open, ty>>, vals' \in Seq(Value),
           UNCHANGED <<funcs, test_symbols>>, ast[pos].k \notin {"test"}, ~IsStep(pos),
           pos' = pos + 1, NEW w, vals' = Append(vals, w),
           ast[pos].k \in ValueKinds =>
               w.at # 0 /\ w.at <= Before(path[pos], pos)
    PROVE  CompilingInv'
<1>1. vals \in Seq(Value) /\ Len(vals) = pos - 1 /\ pos \in Nat \ {0}
  BY GeneratingFacts
<1>2. w \in Value
  <2>1. vals'[pos] = w /\ pos \in DOMAIN vals'
    BY <1>1
  <2> QED BY <2>1
<1>3. ast[pos].k \notin ValueKinds \ {"ident"}
  BY DEF ValueKinds, ExprKinds, IsStep
<1>4. Compiles(<<>>, w)
  <2>1. ast[pos].k = "ident" => w.at # 0 /\ w.at <= Before(path[pos], pos)
    BY DEF ValueKinds, ExprKinds
  <2> QED BY <1>2, <1>3, <2>1 DEF Compiles
<1> QED BY <1>4, WalkKeepsCompiling

LEMMA GenLetCompiles ==
    ASSUME AtNode, CompilingInv, UNCHANGED <<ast, path, open, ty>>, vals' \in Seq(Value), GenLet
    PROVE  phase' = phase /\ CompilingInv'
<1>1. /\ ast[pos].k = "let" /\ pos' = pos + 1 /\ vals' = Append(vals, NoValue)
      /\ UNCHANGED <<phase, funcs, test_symbols>>
  BY DEF GenLet, Generating, At, Step
<1> QED BY <1>1, QuietCompiles DEF ValueKinds, ExprKinds, IsStep

LEMMA GenIdentifierCompiles ==
    ASSUME AtNode, CompilingInv, UNCHANGED <<ast, path, open, ty>>, vals' \in Seq(Value), GenIdentifier
    PROVE  phase' = phase /\ CompilingInv'
<1>1. PICK v : /\ vals' = Append(vals, v) /\ v.type = ty[pos]
               /\ Dominates(v, Home(pos), Len(funcs[Home(pos)].ops) + 1)
  BY IdentifierUsable
<1>2. ast[pos].k = "ident" /\ pos' = pos + 1 /\ UNCHANGED <<phase, funcs, test_symbols>>
  BY IdentifierUsable
<1>3. /\ pos \in 1..pos /\ pos \in Nat \ {0} /\ Len(vals) = pos - 1 /\ vals \in Seq(Value)
      /\ Home(pos) \in DOMAIN funcs
  <2>1. pos \in 1..pos
    BY GeneratingFacts
  <2> QED BY <2>1, GeneratingFacts, HomeExists
<1>4. Len(funcs[Home(pos)].ops) = Before(path[pos], pos)
  <2>1. path[pos] = Body(Home(pos))
    BY <1>3, BodyAtHand
  <2> QED BY <1>3, <2>1 DEF CompilingInv, Accounted
<1>5. v \in Value
  <2>1. vals'[pos] = v /\ pos \in DOMAIN vals'
    BY <1>1, <1>3
  <2> QED BY <2>1
<1>6. v.at # 0 /\ v.at <= Before(path[pos], pos)
  <2>1. v.at \in Int /\ Before(path[pos], pos) \in Nat
    BY <1>3, <1>5, BeforeIsNumber DEF Value
  <2>2. v.at < Before(path[pos], pos) + 1 /\ v.at # 0
    BY <1>1, <1>4 DEF Dominates
  <2> QED BY <2>1, <2>2
<1> QED BY <1>1, <1>2, <1>6, QuietCompiles DEF IsStep

\* A declaration opens a body that has no operations yet.
LEMMA GenFnCompiles ==
    ASSUME AtNode, CompilingInv, UNCHANGED <<ast, path, open, ty>>, vals' \in Seq(Value), GenFn
    PROVE  phase' = phase /\ CompilingInv'
<1>1. /\ ast[pos].k = "fn" /\ pos \in DOMAIN funcs
      /\ funcs' = [funcs EXCEPT ![pos].blocks = @ + 1]
      /\ vals' = Append(vals, NoValue) /\ pos' = pos + 1 /\ UNCHANGED <<phase, test_symbols>>
  BY FnOpened
<1>2. ~IsStep(pos) /\ ast[pos].k \notin ValueKinds
  BY <1>1 DEF IsStep, ValueKinds, ExprKinds
<1>3. \A f \in DOMAIN funcs :
         f \in DOMAIN funcs' /\ funcs'[f].sym = funcs[f].sym /\ funcs'[f].ops = funcs[f].ops
  <2> TAKE f \in DOMAIN funcs
  <2>1. DOMAIN funcs[f] = {"sym", "params", "rets", "blocks", "ops"}
    BY GeneratingFacts DEF ModuleTyped, FunctionTyped
  <2> QED BY <1>1, <2>1
<1>4. DOMAIN funcs' = DOMAIN funcs
  BY <1>1
<1>5. Compiles(<<>>, NoValue)
  BY <1>1, <1>2, <1>3, <1>4 DEF Compiles, ValueKinds, ExprKinds
<1> QED BY <1>1, <1>5, WalkKeepsCompiling

LEMMA GenTestCompiles ==
    ASSUME AtNode, CompilingInv, UNCHANGED <<ast, path, open, ty>>, vals' \in Seq(Value), GenTest
    PROVE  phase' = phase /\ CompilingInv'
<1>1. PICK sym, F : sym = TestSym(Len(test_symbols)) /\ F = Func(sym, <<>>, <<>>, 1)
  OBVIOUS
<1>2. /\ ast[pos].k = "test" /\ funcs' = Overwrite(funcs, Entry(pos, F))
      /\ test_symbols' = Append(test_symbols, sym)
      /\ vals' = Append(vals, NoValue) /\ pos' = pos + 1 /\ phase' = phase
  BY <1>1 DEF GenTest, EnterBody, Step, Generating, At
<1>3. pos \notin DOMAIN funcs
  BY <1>2, GeneratingFacts DEF FunctionsInv, TopLevelFns, TestsSoFar, Main
<1>4. F.ops = <<>> /\ F.sym = sym
  BY <1>1 DEF Func
<1>5. /\ DOMAIN funcs' = DOMAIN funcs \cup {pos} /\ funcs'[pos] = F
      /\ \A f \in DOMAIN funcs : funcs'[f] = funcs[f]
  BY <1>2, <1>3 DEF Overwrite, Entry
<1>6. ~IsStep(pos) /\ ast[pos].k \notin ValueKinds
  BY <1>2 DEF IsStep, ValueKinds, ExprKinds
<1>7. Compiles(<<>>, NoValue)
  BY <1>1, <1>2, <1>4, <1>5, <1>6 DEF Compiles, ValueKinds, ExprKinds
<1> QED BY <1>2, <1>7, WalkKeepsCompiling

\* A test that does not return returns at its end.
LEMMA GenEndCompiles ==
    ASSUME AtNode, CompilingInv, UNCHANGED <<ast, path, open, ty>>, vals' \in Seq(Value), GenEnd
    PROVE  phase' = phase /\ CompilingInv'
<1> DEFINE o == Operation("return", <<>>, <<>>, NoType)
           d == Home(pos)
<1>1. /\ ast[pos].k = "end" /\ CloseBody /\ vals' = Append(vals, NoValue) /\ pos' = pos + 1
      /\ UNCHANGED <<phase, test_symbols>>
  BY DEF GenEnd, Generating, At, Step
<1>2. /\ d \in DOMAIN funcs
      /\ IF ast[pos - 1].k = "return" THEN funcs' = funcs
                                      ELSE funcs' = [funcs EXCEPT ![d].ops = Append(@, o)]
  BY <1>1, ReturnAdded
<1>3. IsStep(pos) <=> ast[pos - 1].k # "return"
  BY <1>1 DEF IsStep
<1>4. Renders(o, pos)
  BY <1>1 DEF Renders, Operation
<1> HIDE DEF o, d
<1>5. DOMAIN funcs' = DOMAIN funcs
  BY <1>2
<1>6. \A f \in DOMAIN funcs :
         /\ f \in DOMAIN funcs' /\ funcs'[f].sym = funcs[f].sym
         /\ funcs'[f].ops = IF f = d /\ IsStep(pos) THEN Append(funcs[f].ops, o) ELSE funcs[f].ops
  <2> TAKE f \in DOMAIN funcs
  <2>1. DOMAIN funcs[f] = {"sym", "params", "rets", "blocks", "ops"}
    BY GeneratingFacts DEF ModuleTyped, FunctionTyped
  <2>2. CASE IsStep(pos)
    <3>1. funcs' = [funcs EXCEPT ![d].ops = Append(@, o)]
      BY <1>2, <1>3, <2>2
    <3> QED BY <1>2, <2>1, <2>2, <3>1
  <2>3. CASE ~IsStep(pos)
    BY <1>2, <1>3, <2>3
  <2> QED BY <2>2, <2>3
<1>7. Compiles(o, NoValue)
  BY <1>1, <1>4, <1>5, <1>6 DEF Compiles, ValueKinds, ExprKinds, d
<1> QED BY <1>1, <1>7, WalkKeepsCompiling

\* Before the first node nothing is compiled.
LEMMA GenBeginCompiles ==
    ASSUME IInv, TypeInv, UNCHANGED <<ast, path, open, ty>>, GenBegin
    PROVE  phase' = phase /\ CompilingInv'
<1>1. /\ vals = <<>> /\ test_symbols = <<>>
      /\ funcs' = [n \in {Main} \cup TopLevelFns |->
                      IF n = Main THEN Func(Sym("__main"), <<>>, <<>>, 1) ELSE FuncType(n)]
      /\ pos' = 1 /\ UNCHANGED <<phase, vals, test_symbols>>
  BY DEF GenBegin, Step, TypeInv, GenerateTypes
<1>2. StepsStay
  BY StepsUnchanged
<1>3. ASSUME NEW f \in DOMAIN funcs'
      PROVE  Accounted(f, pos)'
  <2>1. funcs'[f].ops = <<>>
    BY <1>1, <1>3 DEF Func, FuncType
  <2>2. Before(Body(f), 1) = 0
    BY BeforeFirst
  <2>3. Len(funcs'[f].ops) = 0 /\ 1..Before(Body(f), 1) = {}
    BY <2>1, <2>2
  <2> QED BY <1>1, <1>2, <2>2, <2>3 DEF Accounted, StepsFirst, StepsStay, Body
<1>4. DOMAIN vals' = {} /\ TestsSoFar' = {} /\ Len(test_symbols') = 0
  BY <1>1 DEF TestsSoFar
<1>5. Len(test_symbols') = Cardinality(TestsSoFar')
  BY <1>4, FS_EmptySet
<1> QED BY <1>1, <1>3, <1>4, <1>5 DEF CompilingInv

\* The body of each node is that of __main's, of a function's or of a test's code.
LEMMA BodiesDeclared ==
    ASSUME TreeInv, Shaped, \A m \in Nodes : CheckedNode(m), NEW n \in Nodes
    PROVE  /\ FnOf(path[n]) \in {Main} \cup TopLevelFns \cup TestDecls
           /\ path[n] = Body(FnOf(path[n]))
<1>1. /\ n \in 1..Len(ast) + 1 /\ PathAt(n) = path[n] /\ \A m \in Nodes : m # ModuleScope
      /\ \A m \in Nodes : ast[m].k = "fn" => path[m] = <<>>
  <2>1. \A m \in Nodes : ast[m].k = "fn" => path[m] = <<>>
    BY DEF CheckedNode
  <2>2. Len(ast) \in Nat
    BY DEF TreeInv
  <2> QED BY <2>1, <2>2 DEF Nodes, PathAt, ModuleScope
<1>2. CASE path[n] = <<>>
  BY <1>2 DEF FnOf, Main, Body, ModuleScope
<1>3. CASE path[n] # <<>>
  <2> DEFINE d == Last(path[n])
  <2>1. d \in Nodes /\ path[n] = <<d>> /\ ast[d].k \in {"fn", "test"} /\ path[d] = <<>>
    BY <1>1, <1>3, FlatBodies
  <2>2. FnOf(path[n]) = d
    BY <1>3 DEF FnOf
  <2> HIDE DEF d
  <2> QED BY <1>1, <2>1, <2>2 DEF TopLevelFns, TestDecls, Body
<1> QED BY <1>2, <1>3

\* The operations of __main that render its steps are its first, and the calls of
\* the tests follow them.
LEMMA GenFinishCompiles ==
    ASSUME IInv, TypeInv, TypeInv', GeneratorInv, Shaped, CheckedInv, GeneratedInv, CompilingInv,
           UNCHANGED <<ast, path, open, ty, argv>>, GenFinish(run_tests)
    PROVE  phase' = "lower" /\ CompleteInv'
<1> DEFINE F == funcs[Main].ops
           ops == funcs'[Main].ops
<1>1. PICK l, k : l = Len(funcs[Main].ops) /\ k = Len(FinalCalls)
  OBVIOUS
<1>2. phase = "generate" /\ pos = Len(ast) + 1 /\ Len(ast) \in Nat /\ UNCHANGED <<vals, test_symbols>>
  BY DEF GenFinish, IInv, TreeInv
<1>3. DeclarationsInv /\ (\A n \in Nodes : CheckedNode(n)) /\ TreeInv /\ WellScoped
  <2>1. pos > 0
    BY <1>2
  <2>2. DeclarationsInv /\ \A n \in Nodes : CheckedNode(n)
    BY <1>2, <2>1, Zenon DEF GeneratedInv, CheckedInv
  <2> QED BY <1>2, <2>2 DEF IInv, AcceptInv
<1>4. /\ phase' = "lower" /\ vals \in Seq(Value) /\ Len(vals) = Len(ast) /\ FunctionsInv
      /\ Main \in DOMAIN funcs /\ DOMAIN funcs' = DOMAIN funcs
      /\ \A f \in DOMAIN funcs :
            funcs'[f].sym = funcs[f].sym /\ (f # Main => funcs'[f].ops = funcs[f].ops)
  BY <1>1, <1>3, ModuleFinished
<1>5. /\ l \in Nat /\ k \in Nat /\ Continues(ops, F, l, FinalCalls, k, FinalReturn)
      /\ k = IF run_tests THEN Len(test_symbols) ELSE 0
      /\ \A i \in 1..k :
            /\ FinalCalls[i].op = "call" /\ FinalCalls[i].args = <<>>
            /\ i \in DOMAIN test_symbols /\ FinalCalls[i].attr = test_symbols[i]
  BY <1>1, <1>3, ModuleFinished
<1> HIDE DEF F, ops
<1>6. /\ DOMAIN F = 1..l /\ DOMAIN ops = 1..l + k + 1 /\ Len(ops) = l + k + 1
      /\ \A i \in 1..l : ops[i] = F[i]
      /\ \A i \in 1..k : ops[l + i] = FinalCalls[i]
      /\ ops[l + k + 1] = FinalReturn
  BY <1>5 DEF Continues
<1>7. StepsStay
  BY StepsUnchanged
<1>8. /\ Nodes = DOMAIN vals /\ TestDecls = TestsSoFar
      /\ DOMAIN funcs = {Main} \cup TopLevelFns \cup TestDecls
      /\ TopLevelFns' = TopLevelFns /\ TestDecls' = TestDecls
      /\ \A n : TestNumber(n)' = TestNumber(n)
  BY <1>2, <1>4, <1>7 DEF Nodes, TestDecls, TestsSoFar, TopLevelFns, TestNumber, StepsStay, FunctionsInv
<1>9. /\ DOMAIN funcs' = ({Main} \cup TopLevelFns \cup TestDecls)'
      /\ funcs'[Main].sym = Sym("__main") /\ Prototypes'
      /\ \A n \in TestDecls : funcs'[n].sym = TestSym(TestNumber(n)')
  <2>1. Prototypes /\ funcs[Main].sym = Sym("__main")
    BY <1>4 DEF FunctionsInv
  <2>2. \A n \in TestDecls : funcs[n].sym = TestSym(TestNumber(n))
    BY <1>8 DEF CompilingInv
  <2>3. Prototypes'
    <3>1. \A n \in TopLevelFns :
             n \in DOMAIN funcs' /\ funcs'[n].sym = Sym(ast[n].name) /\ "sym" \in DOMAIN funcs'[n]
      <4> TAKE n \in TopLevelFns
      <4>1. n \in DOMAIN funcs /\ funcs[n].sym = Sym(ast[n].name)
        BY <2>1 DEF Prototypes
      <4>2. FunctionTyped(funcs'[n])
        BY <1>4, <4>1 DEF TypeInv, GenerateTypes, ModuleTyped
      <4> QED BY <1>4, <4>1, <4>2 DEF FunctionTyped
    <3> QED BY <1>8, <3>1 DEF Prototypes, Sym
  <2> QED BY <1>4, <1>8, <2>1, <2>2, <2>3 DEF Main
<1>10. \A f \in DOMAIN funcs : Accounted(f, Len(ast) + 1)
  BY <1>2 DEF CompilingInv
<1>11. ASSUME NEW f \in DOMAIN funcs
       PROVE  StepsFirst(f, Len(ast) + 1)' /\ (f # Main => Accounted(f, Len(ast) + 1)')
  <2>1. StepsFirst(f, Len(ast) + 1)'
    BY <1>7, <1>10 DEF Accounted, StepsFirst, StepsStay, Body
  <2>2. f # Main => Len(funcs'[f].ops) = Before(Body(f), Len(ast) + 1)'
    BY <1>4, <1>7, <1>10 DEF Accounted, StepsStay
  <2> QED BY <2>1, <2>2 DEF Accounted, Body
<1>12. ASSUME NEW n \in Nodes
       PROVE  CheckedNode(n)' /\ StepCompiled(n)' /\ ValueInPlace(n)'
  <2>1. CheckedNode(n)'
    BY <1>3, CheckedKept DEF TypeInv
  <2>2. ValueInPlace(n) /\ StepCompiled(n)
    BY <1>8 DEF CompilingInv
  <2>3. ValueInPlace(n)'
    BY <1>2, <1>7, <2>2 DEF ValueInPlace, StepsStay
  <2>4. \A o : Renders(o, n) => Renders(o, n)'
    BY <1>2 DEF Renders, Operands, Kid
  <2>5. FnOf(path[n]) \in DOMAIN funcs
    BY <1>3, <1>8, BodiesDeclared
  <2>6. \A f \in DOMAIN funcs : \A i \in DOMAIN funcs[f].ops :
           i \in DOMAIN funcs'[f].ops /\ funcs'[f].ops[i] = funcs[f].ops[i]
    <3>1. 1..l \subseteq 1..l + k + 1
      BY <1>5
    <3> QED BY <1>4, <1>6, <3>1 DEF F, ops
  <2> QED BY <1>2, <1>7, <2>1, <2>2, <2>3, <2>4, <2>5, <2>6 DEF StepCompiled, StepsStay, FnOf, Main
<1>13. TestsCalled'
  <2>1. l = Before(<<>>, Len(ast) + 1) /\ MainSteps' = l
    <3>1. l = Before(<<>>, Len(ast) + 1)
      BY <1>1, <1>4, <1>10 DEF Accounted, Body, Main, ModuleScope
    <3> QED BY <1>7, <3>1 DEF MainSteps, StepsStay
  <2>2. TestCalls' = k
    <3>1. Len(test_symbols) = Cardinality(TestDecls)
      BY <1>8 DEF CompilingInv
    <3>2. run_tests' = run_tests
      BY DEF run_tests, positionals
    <3> QED BY <1>5, <1>8, <3>1, <3>2 DEF TestCalls
  <2>3. ASSUME NEW i \in 1..k
        PROVE  /\ ops[l + i].op = "call" /\ ops[l + i].attr = TestSym(i - 1)
               /\ ops[l + i].args = <<>>
    BY <1>4, <1>5, <1>6 DEF FunctionsInv
  <2>4. ops[Len(ops)].op = "return"
    BY <1>6 DEF FinalReturn, Operation
  <2>5. ops = funcs'[Main].ops
    BY DEF ops
  <2> QED BY <1>6, <2>1, <2>2, <2>3, <2>4, <2>5 DEF TestsCalled, Main
<1>14. Len(vals') = Len(ast') /\ Nodes' = Nodes
  BY <1>2, <1>4, <1>7 DEF StepsStay
<1> QED BY <1>4, <1>8, <1>9, <1>11, <1>12, <1>13, <1>14 DEF CompleteInv, Main

\* Every handler goes on as it should.
LEMMA GeneratorKeepsCompiled ==
    ASSUME IInv, TypeInv, TypeInv', GeneratorInv, SoundnessInv, CompilationInv, ~Gap,
           GenNext(run_tests), UNCHANGED <<ast, path, open, ty, argv>>
    PROVE  /\ phase' = "generate" => CompilingInv'
           /\ (phase' = "lower" /\ CompleteInv') \/ phase' = "generate"
<1>1. /\ phase = "generate" /\ Shaped /\ CheckedInv /\ GeneratedInv /\ vals' \in Seq(Value)
      /\ pos > 0 => CompilingInv
  <2>1. phase = "generate"
    BY DEF GenNext, GenBegin, GenIntLiteral, GenIdentifier, GenBinaryOperator, GenCall,
       GenIntrinsicCall, GenLet, GenReturn, GenFn, GenTest, GenEnd, GenFinish, Generating
  <2> QED BY <2>1 DEF SoundnessInv, CompilationInv, TypeInv, TypeOK
<1>2. ASSUME pos \in Nodes PROVE AtNode /\ CompilingInv
  <2>1. pos > 0
    BY <1>2 DEF Nodes
  <2> QED BY <1>1, <1>2, <2>1 DEF AtNode
<1>3. CASE GenFinish(run_tests)
  <2>1. pos > 0
    BY <1>3 DEF GenFinish, IInv, TreeInv
  <2> QED BY <1>1, <1>3, <2>1, GenFinishCompiles
<1>4. CASE GenBegin
  BY <1>1, <1>4, GenBeginCompiles
<1>5. CASE GenIntLiteral
  BY <1>1, <1>2, <1>5, GenIntLiteralCompiles DEF GenIntLiteral, Generating, At
<1>6. CASE GenIdentifier
  BY <1>1, <1>2, <1>6, GenIdentifierCompiles DEF GenIdentifier, Generating, At
<1>7. CASE GenBinaryOperator
  BY <1>1, <1>2, <1>7, GenBinaryOperatorCompiles DEF GenBinaryOperator, Generating, At
<1>8. CASE GenCall
  BY <1>1, <1>2, <1>8, GenCallCompiles DEF GenCall, Generating, At
<1>9. CASE GenIntrinsicCall
  BY <1>1, <1>2, <1>9, GenIntrinsicCallCompiles DEF GenIntrinsicCall, Generating, At
<1>10. CASE GenLet
  BY <1>1, <1>2, <1>10, GenLetCompiles DEF GenLet, Generating, At
<1>11. CASE GenReturn
  BY <1>1, <1>2, <1>11, GenReturnCompiles DEF GenReturn, Generating, At
<1>12. CASE GenFn
  BY <1>1, <1>2, <1>12, GenFnCompiles DEF GenFn, Generating, At
<1>13. CASE GenTest
  BY <1>1, <1>2, <1>13, GenTestCompiles DEF GenTest, Generating, At
<1>14. CASE GenEnd
  BY <1>1, <1>2, <1>14, GenEndCompiles DEF GenEnd, Generating, At
<1> QED
  BY <1>1, <1>3, <1>4, <1>5, <1>6, <1>7, <1>8, <1>9, <1>10, <1>11, <1>12, <1>13, <1>14
  DEF GenNext

-----------------------------------------------------------------------------
\* The complete module stays as it is until it runs, and while it does.
LEMMA CompleteAtRest ==
    ASSUME IInv, TypeInv, CompleteInv, phase \in {"lower", "execute", "run"},
           UNCHANGED <<ast, path, open, ty, genVars, argv>>
    PROVE  CompleteInv'
<1>1. UNCHANGED <<funcs, vals>> /\ run_tests' = run_tests /\ StepsStay
  BY StepsUnchanged DEF genVars, run_tests, positionals
<1>2. /\ DOMAIN funcs = {Main} \cup TopLevelFns \cup TestDecls
      /\ funcs[Main].sym = Sym("__main") /\ Prototypes
      /\ \A n \in TestDecls : funcs[n].sym = TestSym(TestNumber(n))
      /\ Len(vals) = Len(ast)
      /\ \A n \in Nodes : CheckedNode(n) /\ StepCompiled(n) /\ ValueInPlace(n)
      /\ \A f \in DOMAIN funcs \ {Main} : Accounted(f, Len(ast) + 1)
      /\ StepsFirst(Main, Len(ast) + 1) /\ TestsCalled
  BY DEF CompleteInv
<1>3. /\ Nodes' = Nodes /\ TopLevelFns' = TopLevelFns /\ TestDecls' = TestDecls
      /\ \A n : TestNumber(n)' = TestNumber(n)
  BY <1>1 DEF TopLevelFns, TestDecls, TestNumber, StepsStay
<1>4. Prototypes'
  BY <1>1, <1>2, <1>3 DEF Prototypes, Sym
<1>5. ASSUME NEW n \in Nodes
      PROVE  CheckedNode(n)' /\ StepCompiled(n)' /\ ValueInPlace(n)'
  <2>1. CheckedNode(n)'
    <3>1. WellScoped /\ TreeInv /\ OperandsPrecede(n)
      BY DEF IInv, AcceptInv, TypeInv
    <3> QED BY <1>2, <3>1, CheckedKept
  <2>2. ValueInPlace(n)'
    BY <1>1, <1>2 DEF ValueInPlace, StepsStay
  <2>3. \A o : Renders(o, n) => Renders(o, n)'
    BY <1>1 DEF Renders, Operands, Kid
  <2>4. StepCompiled(n)'
    BY <1>1, <1>2, <2>3 DEF StepCompiled, StepsStay, FnOf, Main
  <2> QED BY <2>1, <2>2, <2>4
<1>6. \A f : (Accounted(f, Len(ast) + 1) => Accounted(f, Len(ast) + 1)')
             /\ (StepsFirst(f, Len(ast) + 1) => StepsFirst(f, Len(ast) + 1)')
  BY <1>1 DEF Accounted, StepsFirst, StepsStay, Body
<1>7. TestsCalled'
  <2>1. MainSteps' = MainSteps /\ TestCalls' = TestCalls
    BY <1>1, <1>3 DEF MainSteps, TestCalls, StepsStay
  <2> QED BY <1>1, <1>2, <2>1 DEF TestsCalled, Main, TestSym
<1> QED BY <1>1, <1>2, <1>3, <1>4, <1>5, <1>6, <1>7 DEF CompleteInv, Main, Sym, TestSym

\* A stack of which the k-th element is the new last one.
LEMMA CutAt ==
    ASSUME NEW S, NEW s \in Seq(S), NEW k \in DOMAIN s, NEW b,
           NEW t, t = Append(SubSeq(s, 1, k - 1), b)
    PROVE  /\ k \in Nat \ {0} /\ k \in 1..Len(s) /\ Len(t) = k /\ DOMAIN t = 1..k /\ t[k] = b
           /\ \A i \in 1..k - 1 : t[i] = s[i]
<1>1. k \in 1..Len(s) /\ Len(s) \in Nat
  OBVIOUS
<1>2. SubSeq(s, 1, k - 1) = [i \in 1..k - 1 |-> s[i]] /\ SubSeq(s, 1, k - 1) \in Seq(S)
      /\ Len(SubSeq(s, 1, k - 1)) = k - 1
  BY <1>1
<1> QED BY <1>1, <1>2

\* The first call under way stays that of __main.
LEMMA MainAtBottom ==
    ASSUME RunInv, phase \in {"execute", "run"} => ModuleTyped, ExecNext, phase' = "run",
           phase = "run" => stack[1].fn = Main
    PROVE  phase \in {"execute", "run"} /\ stack'[1].fn = Main
<1>1. CASE Invoke
  BY <1>1 DEF Invoke, Activation
<1>2. \A code, reason : ~Stop(code, reason)
  BY DEF Stop
<1>3. CASE phase = "run"
  <2>1. PICK R : R = [fn : DOMAIN funcs, args : Seq(Int), results : Seq(Int)]
    OBVIOUS
  <2>2. stack \in Seq(R) /\ Len(stack) \in Nat \ {0} /\ Top = stack[Len(stack)] /\ ModuleTyped
    <3>1. stack \in Seq(R)
      BY <1>3, <2>1 DEF RunInv
    <3> QED BY <1>3, <3>1, CurrentOperation
  <2>3. ASSUME NEW k \in DOMAIN stack, NEW v,
               stack' = Append(SubSeq(stack, 1, k - 1), [stack[k] EXCEPT !.results = Append(@, v)])
        PROVE  stack'[1].fn = Main
    <3>1. PICK b : b = [stack[k] EXCEPT !.results = Append(@, v)]
      OBVIOUS
    <3>2. b.fn = stack[k].fn
      <4>1. stack[k] \in R
        BY <2>2
      <4> QED BY <2>1, <3>1, <4>1
    <3>3. PICK t : t = Append(SubSeq(stack, 1, k - 1), b)
      OBVIOUS
    <3>4. t[k] = b /\ k \in Nat \ {0} /\ \A i \in 1..k - 1 : t[i] = stack[i]
      BY <2>2, <3>3, CutAt
    <3>5. stack' = t
      BY <2>3, <3>1, <3>3
    <3> QED BY <1>3, <3>2, <3>4, <3>5
  <2>4. ASSUME NEW v, Result(v) PROVE stack'[1].fn = Main
    <3>1. Len(stack) \in DOMAIN stack
      BY <2>2
    <3> QED BY <2>2, <2>3, <2>4, <3>1 DEF Result, Front
  <2>5. CASE RunReturn
    BY <1>3, <2>2, <2>3, <2>5, ReturnResumes
  <2>6. CASE RunCall
    <3>1. PICK b : stack' = Append(stack, b)
      BY <1>2, <2>6 DEF RunCall
    <3> QED BY <1>3, <2>2, <3>1
  <2>7. (\E v : Result(v)) \/ RunCall \/ RunReturn
    BY <1>2, <1>3 DEF ExecNext, JITFails, RunInvalid, Invoke, RunIllFormed, RunConstant, RunArith,
       RunUndefined, RunCompare, RunAssert, RunEnd
  <2> QED BY <1>3, <2>4, <2>5, <2>6, <2>7
<1>4. phase = "run" \/ Invoke
  BY <1>2 DEF ExecNext, JITFails, RunInvalid, RunIllFormed, RunConstant, RunArith, RunUndefined,
              RunCompare, RunAssert, RunCall, RunReturn, RunEnd, Running
<1> QED BY <1>1, <1>3, <1>4 DEF Invoke

LEMMA CompilingAtRest ==
    ASSUME CompilingInv, UNCHANGED <<ast, path, ty, pos, vals, funcs, test_symbols>>
    PROVE  CompilingInv'
<1>1. StepsStay
  BY StepsUnchanged
<1>2. ASSUME NEW n \in DOMAIN vals PROVE StepCompiled(n)' /\ ValueInPlace(n)'
  <2>1. StepCompiled(n) /\ ValueInPlace(n)
    BY DEF CompilingInv
  <2>2. ValueInPlace(n)'
    BY <1>1, <2>1 DEF ValueInPlace, StepsStay
  <2>3. \A o : Renders(o, n) => Renders(o, n)'
    BY DEF Renders, Operands, Kid
  <2> QED BY <1>1, <2>1, <2>2, <2>3 DEF StepCompiled, StepsStay, FnOf, Main
<1>3. \A f : Accounted(f, pos) => Accounted(f, pos)'
  BY <1>1 DEF Accounted, StepsFirst, StepsStay, Body
<1>4. TestsSoFar' = TestsSoFar /\ \A n : TestNumber(n)' = TestNumber(n)
  BY DEF TestsSoFar, TestNumber, TestDecls, Nodes
<1> QED BY <1>2, <1>3, <1>4 DEF CompilingInv, TestSym

\* Every step of the compiler and of its program keeps CompilationInv.
LEMMA StepCompilationInv ==
    /\ IInv /\ TypeInv /\ GeneratorInv /\ SoundnessInv /\ ExecutionInv /\ CompilationInv
    /\ [Next]_vars
    => CompilationInv'
<1> SUFFICES ASSUME IInv, TypeInv, GeneratorInv, SoundnessInv, ExecutionInv, CompilationInv,
                    [Next]_vars
             PROVE  CompilationInv'
  OBVIOUS
<1>1. IInv' /\ TypeInv'
  BY StepIInv, StepTypeInv
<1>2. ASSUME UNCHANGED <<ast, path, open, ty, genVars, argv>>,
             phase' = "generate" => (phase = "generate" /\ pos' = pos) \/ pos' = 0,
             phase' \in {"lower", "execute", "run"} => phase \in {"lower", "execute", "run"},
             phase' = "run" => stack'[1].fn = Main
      PROVE  CompilationInv'
  <2>1. Gap => Gap'
    BY <1>2, GapStays DEF genVars
  <2> SUFFICES ASSUME ~Gap
               PROVE  /\ phase' = "generate" /\ pos' > 0 => CompilingInv'
                      /\ phase' \in {"lower", "execute", "run"} => CompleteInv'
                      /\ phase' = "run" => stack'[1].fn = Main
    BY <2>1 DEF CompilationInv
  <2>2. phase' \in {"lower", "execute", "run"} => CompleteInv'
    BY <1>2, CompleteAtRest DEF CompilationInv
  <2>3. phase' = "generate" /\ pos' > 0 => CompilingInv'
    <3> SUFFICES ASSUME phase = "generate", pos' = pos, pos > 0 PROVE CompilingInv'
      BY <1>2
    <3>1. CompilingInv
      BY DEF CompilationInv
    <3> QED BY <1>2, <3>1, CompilingAtRest DEF genVars
  <2> QED BY <1>2, <2>2, <2>3
<1>3. CASE UNCHANGED vars
  <2>1. UNCHANGED <<ast, path, open, ty, genVars, argv, phase, pos, stack>>
    BY <1>3 DEF vars, parserVars, checkerVars, runVars
  <2>2. CASE Gap
    BY <2>1, <2>2, GapStays DEF CompilationInv
  <2>3. CASE ~Gap
    <3>1. phase = "run" => stack[1].fn = Main
      BY <2>3 DEF CompilationInv
    <3> QED BY <1>2, <2>1, <3>1
  <2> QED BY <2>2, <2>3
<1>4. CASE Driver /\ UNCHANGED <<parserVars, resolverVars, checkerVars, genVars, argv, stack>>
  <2>1. /\ phase' \in {"done", "parse", "execute"}
        /\ phase' = "execute" => phase = "lower"
    BY <1>4 DEF Driver, Usage, Start, EmitMLIR, Lower, EmitLLVM, Stop, Enter
  <2> QED BY <1>2, <1>4, <2>1 DEF parserVars, checkerVars
<1>5. CASE ParserNext /\ UNCHANGED <<resolverVars, checkerVars, genVars, argv, stack>>
  <2>1. phase' \in {"parse", "resolve", "done"}
    BY <1>5 DEF ParserNext, ParseLet, ParseReturn, ParseExpressionStmt, ParseFn, ParseTest,
       ParseTailExpression, ParseClose, ParseEof, ParseUnreadable, ParseSyntaxError,
       ParseHugeInteger, Reading, Stop, Enter, runVars
  <2> QED BY <2>1 DEF CompilationInv
<1>6. CASE ResolverNext /\ UNCHANGED <<parserVars, checkerVars, genVars, argv, stack>>
  <2>1. phase' \in {"resolve", "check", "done"}
    BY <1>6 DEF ResolverNext, ResolverBegin, ResolveChildren, ResolveIdentifier, ResolveCall,
       ResolveLet, ResolveBody, ResolveEnd, ResolverReturn, Resolving, Verdict, Stop, Enter, Step
  <2> QED BY <2>1 DEF CompilationInv
<1>7. CASE CheckerNext /\ UNCHANGED <<parserVars, resolverVars, genVars, argv, stack>>
  <2>1. phase' \in {"check", "generate", "done"} /\ (phase' = "generate" => pos' = 0)
    BY <1>7 DEF CheckerNext, CheckerBegin, CheckIntLiteral, CheckIdentifier,
       CheckBinaryOperator, CheckCall, CheckIntrinsicCall, CheckLet, CheckReturn,
       CheckModuleReturn, CheckFn, CheckNestedFn, CheckTest, CheckEnd, CheckerReturn,
       Checking, Infer, Verdict, Stop, Enter, Step
  <2> QED BY <2>1 DEF CompilationInv
<1>8. CASE /\ GenNext(run_tests)
           /\ UNCHANGED <<parserVars, resolverVars, checkerVars, argv, stack>>
  <2>1. UNCHANGED <<ast, path, open, ty, argv>>
    BY <1>8 DEF parserVars, checkerVars
  <2>2. Gap => Gap'
    BY <2>1, GapStays
  <2>3. CASE ~Gap
    <3>1. /\ phase' = "generate" => CompilingInv'
          /\ (phase' = "lower" /\ CompleteInv') \/ phase' = "generate"
      BY <1>1, <1>8, <2>1, <2>3, GeneratorKeepsCompiled
    <3> QED BY <3>1 DEF CompilationInv
  <2> QED BY <2>2, <2>3 DEF CompilationInv
<1>9. CASE Execute /\ UNCHANGED <<parserVars, resolverVars, checkerVars, genVars, argv>>
  <2>1. phase \in {"execute", "run"} /\ phase' \in {"execute", "run", "done"}
    BY <1>9 DEF Execute, ExecNext, JITFails, RunInvalid, Invoke, RunIllFormed, RunConstant,
       RunArith, RunUndefined, RunCompare, RunAssert, RunCall, RunReturn, RunEnd, Result, Running,
       Stop, Enter, runVars
  <2>2. UNCHANGED <<ast, path, open, ty, genVars, argv>>
    BY <1>9 DEF parserVars, checkerVars
  <2>3. CASE ~Gap
    <3>1. phase' = "run" => stack'[1].fn = Main
      BY <1>9, <2>1, <2>3, MainAtBottom
      DEF Execute, ExecutionInv, CompilationInv, TypeInv, GenerateTypes
    <3> QED BY <1>2, <2>1, <2>2, <3>1
  <2>4. CASE Gap
    BY <2>2, <2>4, GapStays DEF CompilationInv
  <2> QED BY <2>3, <2>4
<1>10. CASE Ended /\ UNCHANGED <<parserVars, resolverVars, checkerVars, argv, stack>>
  <2>1. phase' = "done"
    BY <1>10 DEF Ended, runVars
  <2> QED BY <2>1 DEF CompilationInv
<1> QED BY <1>3, <1>4, <1>5, <1>6, <1>7, <1>8, <1>9, <1>10, Zenon DEF Next

\* For every source without a gap: each literal, operator, call, @assert and return of
\* the tree is one operation, on the values of its operands, in the function of its
\* body; the operations of a function are those of its steps in the order in which
\* they stand, and __main's are followed by the calls of the tests.
THEOREM Compilation == Spec => []CompilationInv
<1>1. Init => IInv /\ TypeInv /\ GeneratorInv /\ SoundnessInv /\ ExecutionInv /\ CompilationInv
  <2>1. Init => ExecutionInv /\ CompilationInv
    BY DEF Init, ExecutionInv, RunInv, CompilationInv
  <2> QED BY <2>1, InitIInv, InitTypeInv, InitSoundnessInv
<1>2. /\ IInv /\ TypeInv /\ GeneratorInv /\ SoundnessInv /\ ExecutionInv /\ CompilationInv
      /\ [Next]_vars
      => (IInv /\ TypeInv /\ GeneratorInv /\ SoundnessInv /\ ExecutionInv /\ CompilationInv)'
  BY StepIInv, StepTypeInv, StepGeneratorInv, StepSoundnessInv, StepExecutionInv,
     StepCompilationInv
<1> QED BY <1>1, <1>2, PTL DEF Spec
=============================================================================
