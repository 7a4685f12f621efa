-------------------------- MODULE RefinementProofs --------------------------
(***************************************************************************)
(* The compiled program does what its source says, whatever the source:     *)
(* the compiler and the program it runs implement SourceMachine.  An        *)
(* activation stands at the operation that renders the step its call stands *)
(* at, and each value is where CompilationInv says; so the operation reads  *)
(* what the step reads, computes what it computes, and goes on where it     *)
(* goes on.                                                                *)
(***************************************************************************)
EXTENDS CompilationProofs

\* The least element of a set of numbers is its Min.
LEMMA LeastIsMin ==
    ASSUME NEW S, S \subseteq Int, NEW m \in S, \A x \in S : m <= x
    PROVE  Min(S) = m
<1>1. \A x \in S : (\A y \in S : x <= y) => x = m
  OBVIOUS
<1> QED BY <1>1 DEF Min

\* Steps have the numbers from 0, in their order, ...
LEMMA StepNumbered ==
    ASSUME Len(ast) \in Nat, NEW p, NEW n \in Steps(p)
    PROVE  StepNumber(p, Before(p, n)) = n
<1> DEFINE S == {m \in Steps(p) : Before(p, m) = Before(p, n)} \cup {Len(ast) + 1}
<1>1. \A m \in Steps(p) : m \in Nat \ {0} /\ m <= Len(ast) /\ path[m] = p /\ IsStep(m)
  BY DEF Steps, Nodes
<1>2. ASSUME NEW m \in Steps(p), Before(p, m) = Before(p, n) PROVE m = n
  <2>1. CASE m < n
    <3>1. Before(p, m) < Before(p, n) /\ Before(p, m) \in Nat /\ Before(p, n) \in Nat
      BY <1>1, <2>1, BeforeGrows
    <3> QED BY <1>2, <3>1
  <2>2. CASE n < m
    <3>1. Before(p, n) < Before(p, m) /\ Before(p, m) \in Nat /\ Before(p, n) \in Nat
      BY <1>1, <2>2, BeforeGrows
    <3> QED BY <1>2, <3>1
  <2> QED BY <1>1, <2>1, <2>2
<1>3. S \subseteq Int /\ n \in S /\ \A x \in S : n <= x
  BY <1>1, <1>2
<1> HIDE DEF S
<1>4. Min(S) = n
  BY <1>3, LeastIsMin
<1> QED BY <1>4 DEF StepNumber, S

\* ... and after the last there is the end of the tree.
LEMMA NoStepNumbered ==
    ASSUME Len(ast) \in Nat, NEW p, NEW k \in Nat, Before(p, Len(ast) + 1) <= k
    PROVE  StepNumber(p, k) = Len(ast) + 1
<1> DEFINE S == {m \in Steps(p) : Before(p, m) = k} \cup {Len(ast) + 1}
<1>1. ASSUME NEW m \in Steps(p) PROVE Before(p, m) # k
  <2>1. m \in Nat \ {0} /\ m < Len(ast) + 1 /\ path[m] = p /\ IsStep(m)
    BY DEF Steps, Nodes
  <2>2. /\ Before(p, m) < Before(p, Len(ast) + 1)
        /\ Before(p, m) \in Nat /\ Before(p, Len(ast) + 1) \in Nat
    BY <2>1, BeforeGrows
  <2> QED BY <2>2
<1>2. S = {Len(ast) + 1}
  BY <1>1
<1> HIDE DEF S
<1>3. Min(S) = Len(ast) + 1
  BY <1>2, LeastIsMin
<1> QED BY <1>3 DEF StepNumber, S

\* The step that follows node m has the number of the steps up to m.
LEMMA NextStep ==
    ASSUME Len(ast) \in Nat, NEW p, NEW m \in 0..Len(ast)
    PROVE  StepNumber(p, Before(p, m + 1)) = StepAfter(p, m)
<1> DEFINE L == {n \in Steps(p) : n > m}
           q == StepAfter(p, m)
<1>1. \A n \in Steps(p) : n \in Nat \ {0} /\ n <= Len(ast) /\ path[n] = p /\ IsStep(n)
  BY DEF Steps, Nodes
<1>2. \A n \in 1..Len(ast) : path[n] = p /\ IsStep(n) => n \in Steps(p)
  BY DEF Steps, Nodes
<1>3. CASE L = {}
  <2>1. q = Len(ast) + 1
    <3>1. L \cup {Len(ast) + 1} = {Len(ast) + 1}
      BY <1>3
    <3> HIDE DEF L
    <3>2. Min({Len(ast) + 1}) = Len(ast) + 1
      BY LeastIsMin
    <3> QED BY <3>1, <3>2 DEF StepAfter, L
  <2>2. {n \in 1..(Len(ast) + 1) - 1 : path[n] = p /\ IsStep(n)}
        = {n \in 1..(m + 1) - 1 : path[n] = p /\ IsStep(n)}
    BY <1>2, <1>3
  <2>3. Before(p, Len(ast) + 1) = Before(p, m + 1)
    BY <2>2 DEF Before
  <2>4. Before(p, m + 1) \in Nat
    BY BeforeIsNumber
  <2> HIDE DEF q
  <2> QED BY <2>1, <2>3, <2>4, NoStepNumbered DEF q
<1>4. CASE L # {}
  <2>1. Min(L) \in L /\ \A n \in L : Min(L) <= n
    BY <1>1, <1>4, MinIsLeast
  <2>3. q = Min(L)
    <3> DEFINE S == L \cup {Len(ast) + 1}
    <3>1. \A n \in L : n \in Int /\ n <= Len(ast) + 1
      BY <1>1
    <3> HIDE DEF L
    <3>2. S \subseteq Int /\ Min(L) \in S /\ \A x \in S : Min(L) <= x
      BY <2>1, <3>1
    <3> HIDE DEF S
    <3>3. Min(S) = Min(L)
      BY <3>2, LeastIsMin
    <3> QED BY <3>3 DEF StepAfter, L, S
  <2>4. q \in Steps(p) /\ q > m /\ \A n \in Steps(p) : n > m => q <= n
    BY <2>1, <2>3
  <2> HIDE DEF q
  <2>5. {n \in 1..q - 1 : path[n] = p /\ IsStep(n)}
        = {n \in 1..(m + 1) - 1 : path[n] = p /\ IsStep(n)}
    BY <1>1, <1>2, <2>4
  <2>6. Before(p, q) = Before(p, m + 1)
    BY <2>5 DEF Before
  <2>7. StepNumber(p, Before(p, q)) = q
    BY <2>4, StepNumbered
  <2> QED BY <2>6, <2>7 DEF q
<1> QED BY <1>3, <1>4

-----------------------------------------------------------------------------
\* A compiled source without a Gap, and the same while it runs.
Compiled ==
    /\ IInv /\ TypeInv /\ GeneratorInv /\ SoundnessInv /\ CompleteInv
    /\ ~Gap /\ phase \in {"execute", "run"}

UnderWay == Compiled /\ RunInv /\ phase = "run" /\ stack[1].fn = Main

\* The activations there may be, of any function.
AnyActivation == [fn : DOMAIN funcs, args : Seq(Int), results : Seq(Int)]

\* What is known of the tree and the module of a compiled source.
LEMMA CompiledFacts ==
    ASSUME Compiled
    PROVE  /\ TreeInv /\ Shaped /\ WellScoped /\ ModuleTyped /\ LexicalValues
           /\ Len(ast) \in Nat /\ Nodes = 1..Len(ast)
           /\ vals \in Seq(Value) /\ Len(vals) = Len(ast) /\ DOMAIN vals = Nodes
           /\ \A n \in Nodes : /\ ast[n] \in Node /\ path[n] \in Seq(Nat) /\ OperandsPrecede(n)
                               /\ CheckedNode(n) /\ StepCompiled(n) /\ ValueInPlace(n)
           /\ DOMAIN funcs = {Main} \cup TopLevelFns \cup TestDecls
           /\ funcs[Main].sym = Sym("__main") /\ Prototypes
           /\ \A n \in TestDecls : funcs[n].sym = TestSym(TestNumber(n))
           /\ \A f \in DOMAIN funcs \ {Main} : Accounted(f, Len(ast) + 1)
           /\ StepsFirst(Main, Len(ast) + 1) /\ TestsCalled
           /\ ~AssertUsedAsValue
<1>1. TreeInv /\ WellScoped
  BY DEF Compiled, IInv, AcceptInv
<1>2. Shaped /\ LexicalValues /\ ~AssertUsedAsValue
  BY DEF Compiled, SoundnessInv, GeneratorInv, Gap
<1>3. ModuleTyped /\ vals \in Seq(Value) /\ \A n \in Nodes : OperandsPrecede(n)
  BY DEF Compiled, TypeInv, TypeOK, GenerateTypes
<1>4. /\ Len(vals) = Len(ast)
      /\ \A n \in Nodes : CheckedNode(n) /\ StepCompiled(n) /\ ValueInPlace(n)
      /\ DOMAIN funcs = {Main} \cup TopLevelFns \cup TestDecls
      /\ funcs[Main].sym = Sym("__main") /\ Prototypes
      /\ \A n \in TestDecls : funcs[n].sym = TestSym(TestNumber(n))
      /\ \A f \in DOMAIN funcs \ {Main} : Accounted(f, Len(ast) + 1)
      /\ StepsFirst(Main, Len(ast) + 1) /\ TestsCalled
  BY DEF Compiled, CompleteInv
<1>5. ast \in Seq(Node) /\ path \in Seq(Seq(Nat)) /\ Len(path) = Len(ast)
  BY <1>1 DEF TreeInv
<1>6. /\ Len(ast) \in Nat /\ Nodes = 1..Len(ast) /\ DOMAIN vals = Nodes
      /\ \A n \in Nodes : ast[n] \in Node /\ path[n] \in Seq(Nat)
  BY <1>3, <1>4, <1>5 DEF Nodes
<1> QED BY <1>1, <1>2, <1>3, <1>4, <1>6

\* The functions of the module are apart from each other, and so are their symbols.
LEMMA FunctionsApart ==
    ASSUME Compiled
    PROVE  /\ Main \notin TopLevelFns \cup TestDecls /\ TopLevelFns \cap TestDecls = {}
           /\ \A g \in TopLevelFns : ast[g].k = "fn" /\ path[g] = <<>> /\ g \in Nodes
           /\ \A x, i : Sym(x) # TestSym(i)
           /\ \A f \in DOMAIN funcs : FnOf(Body(f)) = f
<1>1. /\ \A g \in TopLevelFns : ast[g].k = "fn" /\ path[g] = <<>> /\ g \in Nodes
      /\ \A g \in TestDecls : ast[g].k = "test" /\ g \in Nodes
  BY DEF TopLevelFns, TestDecls
<1>2. \A n \in Nodes : n # 0
  BY CompiledFacts
<1>3. \A x, i : Sym(x) # TestSym(i)
  BY DEF Sym, TestSym
<1>4. ASSUME NEW f \in DOMAIN funcs PROVE FnOf(Body(f)) = f
  <2>1. <<f>> # <<>> /\ Last(<<f>>) = f
    BY DEF Last
  <2> QED BY <2>1 DEF FnOf, Body, Main, ModuleScope
<1> QED BY <1>1, <1>2, <1>3, <1>4 DEF Main

\* An activation that has not returned is about to run the operation that renders
\* the step it stands at; or it is that of __main, which has no more steps.
LEMMA Pending ==
    ASSUME Compiled, NEW a \in AnyActivation, Len(a.results) < Len(funcs[a.fn].ops),
           NEW p, p = Body(a.fn), NEW n, n = StepNumber(p, Len(a.results))
    PROVE  \/ /\ n \in Steps(p) /\ path[n] = p /\ IsStep(n) /\ n \in Nodes
              /\ Before(p, n) = Len(a.results) /\ Before(p, n + 1) = Len(a.results) + 1
              /\ Renders(NextOp(a), n)
              /\ ast[n].k \in {"int", "bin", "call"} => vals[n].at = Len(a.results) + 1
           \/ a.fn = Main /\ n = Len(ast) + 1 /\ MainSteps <= Len(a.results)
<1> DEFINE r == Len(a.results)
<1>1. /\ r \in Nat /\ Len(ast) \in Nat /\ a.fn \in DOMAIN funcs /\ FnOf(p) = a.fn
      /\ Before(p, Len(ast) + 1) \in Nat
  BY CompiledFacts, FunctionsApart, BeforeIsNumber DEF AnyActivation
<1> HIDE DEF r
<1>2. StepsFirst(a.fn, Len(ast) + 1)
  BY <1>1, CompiledFacts DEF Accounted
<1>3. CASE r < Before(p, Len(ast) + 1)
  <2>1. PICK m \in Steps(p) : Index(m) = r + 1
    <3>1. r + 1 \in 1..Before(p, Len(ast) + 1)
      BY <1>1, <1>3
    <3> QED BY <1>2, <3>1 DEF StepsFirst
  <2>2. m \in Nodes /\ path[m] = p /\ IsStep(m) /\ m \in Nat \ {0}
    BY CompiledFacts DEF Steps
  <2>3. Before(p, m) = r /\ Before(p, m + 1) = r + 1
    <3>1. Before(p, m) \in Nat /\ Before(p, m) + 1 = r + 1
      BY <2>1, <2>2, BeforeIsNumber DEF Index
    <3>2. Before(p, m) = r
      BY <1>1, <3>1
    <3> QED BY <2>2, <3>2, BeforeNext
  <2>4. n = m
    BY <1>1, <2>3, StepNumbered DEF r
  <2>5. /\ Renders(NextOp(a), m)
        /\ ast[m].k \in {"int", "bin", "call"} => vals[m].at = r + 1
    <3>1. StepCompiled(m)
      BY <2>2, CompiledFacts
    <3> QED BY <1>1, <2>1, <2>2, <3>1 DEF StepCompiled, NextOp, r
  <2> QED BY <2>2, <2>3, <2>4, <2>5 DEF r
<1>4. CASE Before(p, Len(ast) + 1) <= r
  <2>1. n = Len(ast) + 1
    BY <1>1, <1>4, NoStepNumbered DEF r
  <2>2. a.fn = Main
    <3>1. SUFFICES ASSUME a.fn # Main PROVE FALSE
      OBVIOUS
    <3>2. Len(funcs[a.fn].ops) = Before(p, Len(ast) + 1)
      BY <1>1, <3>1, CompiledFacts DEF Accounted
    <3> QED BY <1>1, <1>4, <3>2 DEF r
  <2>3. MainSteps <= r
    BY <1>4, <2>2 DEF MainSteps, Body, Main, ModuleScope
  <2> QED BY <2>1, <2>2, <2>3 DEF r
<1> QED BY <1>1, <1>3, <1>4

-----------------------------------------------------------------------------
\* SourceMachine's steps, scopes and numbers are those of the tree.
LEMMA SameSteps ==
    /\ Source!Nodes = Nodes /\ Source!TestDecls = TestDecls /\ Source!TopLevelFns = TopLevelFns
    /\ \A n, i : Source!Kid(n, i) = Kid(n, i)
    /\ \A d : Source!Body(d) = Body(d)
    /\ \A p, n : Source!StepAfter(p, n) = StepAfter(p, n)
    /\ \A p, n : Source!ValueNodes(p, n) = ValueNodes(p, n)
    /\ \A x, n : Source!Binder(x, n) = Binder(x, n)
    /\ \A S : Source!Min(S) = Min(S) /\ Source!Max(S) = Max(S)
    /\ \A s : Source!Front(s) = Front(s) /\ Source!Last(s) = Last(s)
<1>1. Source!Nodes = Nodes
  BY DEF Nodes, Source!Nodes
<1>2. Source!TestDecls = TestDecls /\ Source!TopLevelFns = TopLevelFns
  BY <1>1 DEF TestDecls, Source!TestDecls, TopLevelFns, Source!TopLevelFns
<1>3. \A n, i : Source!Kid(n, i) = Kid(n, i)
  BY DEF Kid, Source!Kid
<1>4. \A d : Source!Body(d) = Body(d)
  BY DEF Body, Source!Body, ModuleScope, Source!ModuleScope
<1>5. \A S : Source!Min(S) = Min(S) /\ Source!Max(S) = Max(S)
  BY DEF Min, Source!Min, Max, Source!Max
<1>6. \A s : Source!Front(s) = Front(s) /\ Source!Last(s) = Last(s)
  BY DEF Front, Source!Front, Last, Source!Last
<1>7. \A p, n : Source!StepAfter(p, n) = StepAfter(p, n)
  <2>1. \A n : Source!IsStep(n) <=> IsStep(n)
    BY DEF IsStep, Source!IsStep
  <2>2. \A p : Source!Steps(p) = Steps(p)
    BY <1>1, <2>1 DEF Steps, Source!Steps
  <2> QED BY <1>5, <2>2 DEF StepAfter, Source!StepAfter
<1>8. \A p, n : Source!ValueNodes(p, n) = ValueNodes(p, n)
  BY DEF ValueNodes, Source!ValueNodes
<1>9. \A x, n : Source!Binder(x, n) = Binder(x, n)
  <2>1. \A n : Source!ParamNames(n) = ParamNames(n)
    BY DEF ParamNames, Source!ParamNames, Range, Source!Range
  <2>2. \A p, n : Source!Lets(p, n) = Lets(p, n) /\ Source!ParamsOf(p) = ParamsOf(p)
    BY <1>1, <1>6, <2>1 DEF Lets, Source!Lets, ParamsOf, Source!ParamsOf
  <2>3. ASSUME NEW x, NEW p, NEW n PROVE Source!BinderIn(x, p, n) = BinderIn(x, p, n)
    <3> DEFINE lets == {m \in Lets(p, n) : ast[m].name = x}
    <3>1. Source!BinderIn(x, p, n) =
              CASE lets # {} -> Max(lets)
                [] lets = {} /\ x \in ParamsOf(p) -> Last(p)
                [] OTHER -> 0
      <4>1. {m \in Source!Lets(p, n) : ast[m].name = x} = lets
        BY <2>2
      <4> HIDE DEF lets
      <4>2. Source!Max(lets) = Max(lets) /\ Source!Last(p) = Last(p)
            /\ Source!ParamsOf(p) = ParamsOf(p)
        BY <1>5, <1>6, <2>2
      <4> QED BY <4>1, <4>2, Zenon DEF Source!BinderIn
    <3> QED BY <3>1, Zenon DEF BinderIn
  <2> QED BY <2>3 DEF Binder, Source!Binder
<1> QED BY <1>1, <1>2, <1>3, <1>4, <1>5, <1>6, <1>7, <1>8, <1>9

\* So are its numbers.
LEMMA SameArithmetic ==
    /\ \A v, type : Source!Wrap(v, type) = Wrap(v, type)
    /\ \A type : Source!Signed(type) = Signed(type)
    /\ \A a, b, type : Source!Undefined(a, b, type) <=> Undefined(a, b, type)
    /\ \A o, a, b : Source!Arith(o, a, b) = Arith(o, a, b)
    /\ \A o, a, b : Source!Holds(o, a, b) = Holds(o, a, b)
    /\ Source!True = True /\ Source!False = False /\ Source!NoResult = NoResult
    /\ Source!CmpOps = CmpOps
<1>1. \A a, b : Source!Quotient(a, b) = Quotient(a, b)
  BY DEF Quotient, Source!Quotient, Magnitude, Source!Magnitude
<1>2. \A o, a, b : Source!Arith(o, a, b) = Arith(o, a, b)
  BY <1>1 DEF Arith, Source!Arith
<1>3. \A o, a, b : Source!Holds(o, a, b) = Holds(o, a, b)
  BY DEF Holds, Source!Holds
<1> QED BY <1>2, <1>3 DEF Wrap, Source!Wrap, Signed, Source!Signed, Undefined, Source!Undefined,
        True, Source!True, False, Source!False, NoResult, Source!NoResult, CmpOps, Source!CmpOps

\* The call that activation a is, and its operands.
LEMMA CallInIs ==
    ASSUME Compiled, NEW a \in AnyActivation,
           NEW p, p = Body(a.fn), NEW n, n = StepNumber(p, Len(a.results))
    PROVE  /\ n \in 1..Len(ast) + 1 /\ n \in Nat
           /\ CallIn(a) = [fn |-> a.fn, args |-> a.args, at |-> n,
                           values |-> [m \in ValueNodes(p, n) |-> ValueIn(a, vals[m])]]
<1> DEFINE S == {m \in Steps(p) : Before(p, m) = Len(a.results)} \cup {Len(ast) + 1}
<1>1. S \subseteq 1..Len(ast) + 1 /\ S # {} /\ Len(ast) \in Nat
  <2>1. Len(ast) \in Nat /\ \A m \in Steps(p) : m \in 1..Len(ast)
    BY CompiledFacts DEF Steps
  <2> QED BY <2>1
<1>2. n = Min(S)
  BY DEF StepNumber
<1> HIDE DEF S
<1>3. S \subseteq Nat
  BY <1>1
<1>4. n \in S
  BY <1>1, <1>2, <1>3, MinIsLeast
<1>5. n \in 1..Len(ast) + 1 /\ n \in Nat
  BY <1>1, <1>4
<1> QED BY <1>5 DEF CallIn, CallAt

\* A node's operands are nodes before it, in its body, that have a value.
LEMMA OperandNodes ==
    ASSUME Compiled, NEW n \in Nodes, NEW q \in Int, n <= q
    PROVE  /\ "kids" \in DOMAIN ast[n] =>
                \A i \in DOMAIN ast[n].kids : Kid(n, i) \in ValueNodes(path[n], q)
           /\ ast[n].k = "let" \/ (ast[n].k = "return" /\ ast[n].expr) =>
                n - 1 \in ValueNodes(path[n], q)
<1>1. /\ Shaped /\ ~AssertUsedAsValue /\ OperandsPrecede(n) /\ n \in Nat \ {0}
      /\ ShapedNode(n)
  BY CompiledFacts DEF Shaped
<1>2. /\ "kids" \in DOMAIN ast[n] => \A i \in DOMAIN ast[n].kids : ast[Kid(n, i)].k \in ValueKinds
      /\ ast[n].k = "let" \/ (ast[n].k = "return" /\ ast[n].expr) => ast[n - 1].k \in ValueKinds
  BY <1>1, OperandsAreValues
<1>3. ValueKinds = {"int", "ident", "bin", "call"}
  BY DEF ValueKinds, ExprKinds
<1>4. ASSUME "kids" \in DOMAIN ast[n], NEW i \in DOMAIN ast[n].kids
      PROVE  Kid(n, i) \in ValueNodes(path[n], q)
  <2> DEFINE m == Kid(n, i)
  <2>1. m \in 1..n - 1 /\ path[m] = path[n] /\ ast[m].k \in {"int", "ident", "bin", "call"}
    BY <1>1, <1>2, <1>3, <1>4 DEF OperandsPrecede, ShapedNode
  <2> HIDE DEF m
  <2>2. m \in 1..q - 1
    BY <1>1, <2>1
  <2> QED BY <2>1, <2>2 DEF ValueNodes, m
<1>5. ASSUME ast[n].k = "let" \/ (ast[n].k = "return" /\ ast[n].expr)
      PROVE  n - 1 \in ValueNodes(path[n], q)
  <2>1. n > 1 /\ path[n - 1] = path[n] /\ ast[n - 1].k \in {"int", "ident", "bin", "call"}
    BY <1>1, <1>2, <1>3, <1>5 DEF OperandsPrecede, ShapedNode
  <2> QED BY <1>1, <2>1 DEF ValueNodes
<1> QED BY <1>4, <1>5

\* In a call that an activation is, each name has the value of its variable.
LEMMA NamesHaveValues ==
    ASSUME Compiled, NEW a \in AnyActivation,
           NEW p, p = Body(a.fn), NEW n, n = StepNumber(p, Len(a.results)),
           NEW m \in ValueNodes(p, n), ast[m].k = "ident"
    PROVE  Source!Variable(CallIn(a), m) = ValueIn(a, vals[m])
<1> DEFINE c == CallIn(a)
           x == ast[m].name
           b == Binder(x, m)
           i == Max({j \in DOMAIN ast[b].params : ast[b].params[j].name = x})
<1>1. /\ TreeInv /\ WellScoped /\ Len(ast) \in Nat /\ DOMAIN vals = Nodes
      /\ LexicalValues
  BY CompiledFacts
<1>2. n \in Nat /\ n <= Len(ast) + 1 /\ c.args = a.args
      /\ c.values = [k \in ValueNodes(p, n) |-> ValueIn(a, vals[k])]
  BY <1>1, CallInIs
<1>3. m \in Nodes /\ m \in Nat /\ m < n /\ path[m] = p
  BY <1>1, <1>2 DEF ValueNodes, Nodes
<1>4. /\ Gives(b, x, vals[m]) /\ x \in Scope(p, m)
      /\ (b \in Lets(p, m) /\ ast[b].name = x)
         \/ (p # <<>> /\ b = Last(p) /\ x \in ParamNames(b) /\ ast[b].k = "fn")
  <2>1. Gives(BinderIn(x, p, m), x, vals[m])
    BY <1>1, <1>3 DEF LexicalValues, LexicalValue
  <2>2. x \in Scope(p, m)
    BY <1>1, <1>3 DEF WellScoped, WellScopedNode, ScopeAt
  <2> QED BY <1>1, <1>3, <2>1, <2>2, BinderIsMember DEF Binder
<1>5. Source!Variable(c, m) = IF ast[b].k = "let" THEN c.values[b - 1] ELSE c.args[i]
  BY SameSteps DEF Source!Variable
<1>6. CASE ast[b].k = "let"
  <2>1. vals[m] = vals[b - 1]
    BY <1>4, <1>6 DEF Gives
  <2>2. b \in Nodes /\ b < m /\ path[b] = p
    BY <1>4, <1>6 DEF Lets
  <2>3. b - 1 \in ValueNodes(p, n)
    <3>1. b \in Int /\ n \in Int /\ b <= n
      BY <1>2, <1>3, <2>2 DEF Nodes
    <3> HIDE DEF b
    <3> QED BY <1>6, <2>2, <3>1, OperandNodes
  <2>4. c.values[b - 1] = ValueIn(a, vals[b - 1])
    BY <1>2, <2>3
  <2> QED BY <1>5, <1>6, <2>1, <2>4
<1>7. CASE ast[b].k # "let"
  <2>1. PICK f \in DOMAIN funcs : vals[m] = [fn |-> f, at |-> -i, type |-> funcs[f].params[i]]
    BY <1>4, <1>7 DEF Gives
  <2>2. ast[b].k = "fn" /\ x \in ParamNames(b)
    BY <1>4, <1>7 DEF Lets
  <2>3. i \in Nat \ {0}
    <3> DEFINE S == {j \in DOMAIN ast[b].params : ast[b].params[j].name = x}
    <3>1. b \in Nodes
      <4>1. p # <<>> /\ b = Last(p)
        BY <1>4, <1>7 DEF Lets
      <4>2. p = <<a.fn>> /\ a.fn # Main /\ a.fn \in DOMAIN funcs
        BY <4>1 DEF Body, Main, ModuleScope, AnyActivation
      <4>3. a.fn \in Nodes
        BY <4>2, CompiledFacts DEF TopLevelFns, TestDecls
      <4> QED BY <4>1, <4>2, <4>3 DEF Last
    <3>2. ast[b].params \in Seq([name : STRING, type : STRING])
      BY <1>1, <2>2, <3>1, CompiledFacts DEF Node, ExprNode, Params
    <3>3. S \subseteq 1..Len(ast[b].params) /\ S # {} /\ Len(ast[b].params) \in Nat
      BY <2>2, <3>2 DEF ParamNames, Range
    <3> HIDE DEF S
    <3>4. Max(S) \in S
      BY <3>3, MaxIsMember
    <3>5. Max(S) \in Nat \ {0}
      <4>1. \A k \in 1..Len(ast[b].params) : k \in Nat \ {0}
        OBVIOUS
      <4> QED BY <3>3, <3>4, <4>1
    <3> QED BY <3>5 DEF S
  <2>4. ValueIn(a, vals[m]) = a.args[i]
    <3> HIDE DEF i
    <3>1. vals[m].at = -i /\ -i < 0 /\ -(-i) = i
      BY <2>1, <2>3
    <3> QED BY <3>1 DEF ValueIn
  <2> QED BY <1>2, <1>5, <1>7, <2>4
<1> QED BY <1>6, <1>7

\* So such a call is one that SourceMachine may have under way.
LEMMA CallsAreEvaluated ==
    ASSUME Compiled, NEW a \in AnyActivation
    PROVE  Source!Evaluated(CallIn(a))
<1> DEFINE p == Body(a.fn)
           n == StepNumber(p, Len(a.results))
           c == CallIn(a)
<1>1. c.fn = a.fn /\ c.at = n /\ c.values = [m \in ValueNodes(p, n) |-> ValueIn(a, vals[m])]
  BY CallInIs
<1>2. ASSUME NEW m \in ValueNodes(p, n), ast[m].k = "ident"
      PROVE  c.values[m] = Source!Variable(c, m)
  BY <1>1, <1>2, NamesHaveValues
<1> HIDE DEF p, n, c
<1> QED BY <1>1, <1>2, SameSteps DEF Source!Evaluated, p, n, c

\* A call begins at the first step of its body.
LEMMA CallBegins ==
    ASSUME Compiled, NEW f \in DOMAIN funcs, NEW args \in Seq(Int)
    PROVE  Source!Begins(CallIn(Activation(f, args)), f, args)
<1> DEFINE a == Activation(f, args)
           c == CallIn(a)
<1>1. a \in AnyActivation /\ a.fn = f /\ a.args = args /\ Len(a.results) = 0
  BY DEF Activation, AnyActivation
<1> HIDE DEF a
<1>2. StepNumber(Body(f), 0) = StepAfter(Body(f), 0)
  <2>1. Len(ast) \in Nat /\ 0 \in 0..Len(ast) /\ Before(Body(f), 0 + 1) = 0
    BY CompiledFacts, BeforeFirst
  <2> QED BY <2>1, NextStep
<1>3. c = [fn |-> f, args |-> args, at |-> StepAfter(Body(f), 0), values |-> c.values]
  BY <1>1, <1>2, CallInIs
<1>4. Source!Evaluated(c)
  BY <1>1, CallsAreEvaluated
<1> HIDE DEF c
<1>5. Source!Begins(c, f, args)
  BY <1>3, <1>4, SameSteps DEF Source!Begins
<1> QED BY <1>5 DEF c, a

\* The activation whose operation has had a result.
LEMMA Resumed ==
    ASSUME NEW a \in AnyActivation, NEW v \in Int,
           NEW b, b = [a EXCEPT !.results = Append(@, v)]
    PROVE  /\ b \in AnyActivation /\ b.fn = a.fn /\ b.args = a.args
           /\ b.results = Append(a.results, v)
           /\ a.results \in Seq(Int) /\ Len(a.results) \in Nat
           /\ Len(b.results) = Len(a.results) + 1
<1>1. a.fn \in DOMAIN funcs /\ a.args \in Seq(Int) /\ a.results \in Seq(Int)
      /\ a = [fn |-> a.fn, args |-> a.args, results |-> a.results]
  BY DEF AnyActivation
<1>2. Append(a.results, v) \in Seq(Int) /\ Len(a.results) \in Nat
      /\ Len(Append(a.results, v)) = Len(a.results) + 1
  BY <1>1
<1>3. b = [fn |-> a.fn, args |-> a.args, results |-> Append(a.results, v)]
  BY <1>1
<1> QED BY <1>1, <1>2, <1>3 DEF AnyActivation

\* The values that an activation has stay when it goes on.
LEMMA ValueStays ==
    ASSUME Compiled, NEW a \in AnyActivation, NEW v \in Int,
           NEW b, b = [a EXCEPT !.results = Append(@, v)],
           NEW m \in Nodes, ast[m].k \in ValueKinds, Before(path[m], m + 1) <= Len(a.results)
    PROVE  ValueIn(b, vals[m]) = ValueIn(a, vals[m])
<1> DEFINE r == Len(a.results)
           w == vals[m]
<1>1. /\ a.results \in Seq(Int) /\ r \in Nat
      /\ b.args = a.args /\ b.results = Append(a.results, v)
  BY Resumed
<1>2. w.at \in Int /\ w.at # 0 /\ w.at <= Before(path[m], m + 1)
  <2>1. ValueInPlace(m)
    BY CompiledFacts
  <2> QED BY <2>1 DEF ValueInPlace, Value
<1>3. Before(path[m], m + 1) \in Int /\ Before(path[m], m + 1) <= r
  <2>1. m + 1 \in Nat
    BY CompiledFacts
  <2>2. Before(path[m], m + 1) \in Nat
    BY <2>1, BeforeIsNumber
  <2> QED BY <2>2
<1>4. w.at <= r
  BY <1>1, <1>2, <1>3
<1> HIDE DEF w
<1>5. CASE w.at < 0
  <2>1. ValueIn(b, w) = b.args[-w.at] /\ ValueIn(a, w) = a.args[-w.at]
    BY <1>5, Zenon DEF ValueIn
  <2> QED BY <1>1, <2>1 DEF w
<1>6. CASE w.at > 0
  <2>1. w.at \in 1..r
    BY <1>2, <1>4, <1>6
  <2>2. Append(a.results, v)[w.at] = a.results[w.at]
    BY <1>1, <2>1
  <2>3. ~(w.at < 0)
    BY <1>2, <1>6
  <2>4. ValueIn(b, w) = b.results[w.at] /\ ValueIn(a, w) = a.results[w.at]
    BY <2>3, Zenon DEF ValueIn
  <2> QED BY <1>1, <2>2, <2>4, Zenon DEF w
<1> QED BY <1>2, <1>5, <1>6

\* An activation that runs the operation of a step advances past the step.
LEMMA CallAdvances ==
    ASSUME Compiled, NEW a \in AnyActivation, NEW v \in Int,
           NEW b, b = [a EXCEPT !.results = Append(@, v)],
           Len(a.results) < Len(funcs[a.fn].ops),
           NEW p, p = Body(a.fn), NEW n, n = StepNumber(p, Len(a.results)), n \in Steps(p)
    PROVE  Source!Advances(CallIn(a), CallIn(b), v)
<1> DEFINE r == Len(a.results)
           c == CallIn(a)
           d == CallIn(b)
           q == StepAfter(p, n)
<1>1. /\ n \in Nodes /\ path[n] = p /\ Before(p, n) = r /\ Before(p, n + 1) = r + 1
      /\ ast[n].k \in {"int", "bin", "call"} => vals[n].at = r + 1
  <2>1. n # Len(ast) + 1
    BY CompiledFacts DEF Steps
  <2> QED BY <2>1, Pending
<1>2. /\ b \in AnyActivation /\ b.fn = a.fn /\ b.args = a.args
      /\ b.results = Append(a.results, v) /\ Len(b.results) = r + 1 /\ r \in Nat
  BY Resumed
<1>3. Len(ast) \in Nat /\ n \in 1..Len(ast) /\ n \in 0..Len(ast)
  BY <1>1, CompiledFacts
<1>4. StepNumber(p, r + 1) = q
  BY <1>1, <1>3, NextStep
<1>5. /\ c = [fn |-> a.fn, args |-> a.args, at |-> n,
              values |-> [m \in ValueNodes(p, n) |-> ValueIn(a, vals[m])]]
      /\ d = [fn |-> a.fn, args |-> a.args, at |-> q,
              values |-> [m \in ValueNodes(p, q) |-> ValueIn(b, vals[m])]]
      /\ q \in Nat
  <2> HIDE DEF q
  <2>1. Body(b.fn) = p /\ q = StepNumber(p, Len(b.results))
    BY <1>2, <1>4
  <2>2. d = [fn |-> a.fn, args |-> a.args, at |-> q,
              values |-> [m \in ValueNodes(p, q) |-> ValueIn(b, vals[m])]] /\ q \in Nat
    BY <1>2, <2>1, CallInIs
  <2>3. c = [fn |-> a.fn, args |-> a.args, at |-> n,
              values |-> [m \in ValueNodes(p, n) |-> ValueIn(a, vals[m])]]
    BY CallInIs
  <2> QED BY <2>2, <2>3
<1>6. n < q
  <2> DEFINE S == {m \in Steps(p) : m > n} \cup {Len(ast) + 1}
  <2>1. S \subseteq Nat /\ S # {} /\ \A m \in S : m > n
    BY <1>3, CompiledFacts DEF Steps
  <2> HIDE DEF S
  <2>2. Min(S) \in S
    BY <2>1, MinIsLeast
  <2> QED BY <2>1, <2>2 DEF StepAfter, S
<1>7. Source!Evaluated(d)
  BY <1>2, CallsAreEvaluated
<1> HIDE DEF q
<1>8. ASSUME NEW m \in ValueNodes(p, n)
      PROVE  m \in ValueNodes(p, q) /\ ValueIn(b, vals[m]) = ValueIn(a, vals[m])
  <2>1. m \in Nat \ {0} /\ m < n /\ path[m] = p /\ ast[m].k \in ValueKinds /\ m \in Nodes
    BY <1>3, CompiledFacts DEF ValueNodes, ValueKinds, ExprKinds
  <2>2. m \in ValueNodes(p, q)
    BY <1>3, <1>5, <1>6, <2>1 DEF ValueNodes, ValueKinds, ExprKinds
  <2>3. Before(p, m + 1) <= Before(p, n)
    <3>1. CASE m + 1 = n
      <4>1. Before(p, n) \in Nat
        BY <1>3, BeforeIsNumber
      <4> QED BY <3>1, <4>1
    <3>2. CASE m + 1 # n
      <4>1. m + 1 \in Nat \ {0} /\ n \in Nat \ {0} /\ m + 1 < n
        BY <1>3, <2>1, <3>2
      <4> QED BY <4>1, BeforeGrows
    <3> QED BY <3>1, <3>2
  <2>4. ValueIn(b, vals[m]) = ValueIn(a, vals[m])
    BY <1>1, <2>1, <2>3, ValueStays
  <2> QED BY <2>2, <2>4
<1> DEFINE C == [m \in ValueNodes(p, n) |-> ValueIn(a, vals[m])]
           D == [m \in ValueNodes(p, q) |-> ValueIn(b, vals[m])]
<1>9. ASSUME n \in ValueNodes(p, q) PROVE D[n] = v
  <2>1. SUFFICES ValueIn(b, vals[n]) = v
    BY <1>9
  <2>2. ast[n].k \in {"int", "bin", "call"}
    <3>1. IsStep(n) /\ ast[n].k \in {"int", "ident", "bin", "call"}
      BY <1>9 DEF ValueNodes, Steps
    <3> QED BY <3>1 DEF IsStep
  <2>3. vals[n].at = r + 1
    BY <1>1, <2>2
  <2>4. a.results \in Seq(Int)
    BY DEF AnyActivation
  <2>5. Append(a.results, v)[r + 1] = v /\ ~(r + 1 < 0)
    BY <1>2, <2>4
  <2> QED BY <1>2, <2>3, <2>5 DEF ValueIn
<1>10. /\ d = [c EXCEPT !.at = StepAfter(Body(c.fn), c.at), !.values = d.values]
       /\ \A m \in DOMAIN c.values : d.values[m] = c.values[m]
       /\ c.at \in DOMAIN d.values => d.values[c.at] = v
  <2>1. DOMAIN C = ValueNodes(p, n) /\ DOMAIN D = ValueNodes(p, q) /\ \A m \in DOMAIN C : D[m] = C[m]
    BY <1>8
  <2>2. /\ c = [fn |-> a.fn, args |-> a.args, at |-> n, values |-> C]
        /\ d = [fn |-> a.fn, args |-> a.args, at |-> q, values |-> D]
    BY <1>5
  <2> HIDE DEF c, d, C, D
  <2>3. c.fn = a.fn /\ c.at = n /\ c.values = C /\ d.values = D
    BY <2>2
  <2>4. d = [c EXCEPT !.at = q, !.values = d.values]
    <3> DEFINE e == [fn |-> a.fn, args |-> a.args, at |-> q, values |-> C]
    <3>1. [c EXCEPT !.at = q, !.values = D] = d
      <4>1. [c EXCEPT !.at = q, !.values = D] = [[c EXCEPT !.at = q] EXCEPT !.values = D]
        OBVIOUS
      <4>2. [c EXCEPT !.at = q] = e
        BY <2>2
      <4>3. [e EXCEPT !.values = D] = d
        BY <2>2
      <4> HIDE DEF e
      <4> QED BY <4>1, <4>2, <4>3
    <3> QED BY <2>3, <3>1
  <2> QED BY <1>9, <2>1, <2>3, <2>4 DEF q
<1> HIDE DEF c, d
<1>11. Source!Advances(c, d, v)
  BY <1>7, <1>10, SameSteps DEF Source!Advances
<1> QED BY <1>11 DEF c, d

\* __main, which calls the tests after its steps, stays at its end.
LEMMA MainStands ==
    ASSUME Compiled, NEW a \in AnyActivation, NEW v \in Int,
           NEW b, b = [a EXCEPT !.results = Append(@, v)],
           a.fn = Main, MainSteps <= Len(a.results)
    PROVE  CallIn(b) = CallIn(a)
<1> DEFINE r == Len(a.results)
           e == Len(ast) + 1
<1>1. /\ b \in AnyActivation /\ b.fn = Main /\ b.args = a.args
      /\ b.results = Append(a.results, v) /\ Len(b.results) = r + 1 /\ r \in Nat
  BY Resumed
<1>2. /\ Len(ast) \in Nat /\ Body(Main) = <<>> /\ MainSteps = Before(<<>>, e)
      /\ MainSteps \in Nat
  BY CompiledFacts, BeforeIsNumber DEF Body, Main, ModuleScope, MainSteps
<1>3. StepNumber(<<>>, r) = e /\ StepNumber(<<>>, r + 1) = e
  BY <1>1, <1>2, NoStepNumbered
<1>4. /\ CallIn(a) = [fn |-> Main, args |-> a.args, at |-> e,
                      values |-> [m \in ValueNodes(<<>>, e) |-> ValueIn(a, vals[m])]]
      /\ CallIn(b) = [fn |-> Main, args |-> a.args, at |-> e,
                      values |-> [m \in ValueNodes(<<>>, e) |-> ValueIn(b, vals[m])]]
  BY <1>1, <1>2, <1>3, CallInIs
<1>5. ASSUME NEW m \in ValueNodes(<<>>, e) PROVE ValueIn(b, vals[m]) = ValueIn(a, vals[m])
  <2>1. m \in Nat \ {0} /\ m < e /\ path[m] = <<>> /\ ast[m].k \in ValueKinds /\ m \in Nodes
    BY <1>2, CompiledFacts DEF ValueNodes, ValueKinds, ExprKinds
  <2>2. Before(<<>>, m + 1) <= Before(<<>>, e)
    <3>1. CASE m + 1 = e
      BY <1>2, <3>1
    <3>2. CASE m + 1 # e
      <4>1. m + 1 \in Nat \ {0} /\ e \in Nat \ {0} /\ m + 1 < e
        BY <1>2, <2>1, <3>2
      <4> QED BY <4>1, BeforeGrows
    <3> QED BY <3>1, <3>2
  <2>3. Before(<<>>, m + 1) <= r
    <3>1. Before(<<>>, m + 1) \in Nat
      BY <2>1, BeforeIsNumber
    <3> QED BY <1>1, <1>2, <2>2, <3>1
  <2> QED BY <2>1, <2>3, ValueStays
<1> QED BY <1>4, <1>5

-----------------------------------------------------------------------------
\* The calls under way are those of the activations one by one.
LEMMA CallsAre ==
    ASSUME NEW S, NEW s \in Seq(S)
    PROVE  /\ CallsOf(s) \in Seq(Range(CallsOf(s))) /\ Len(CallsOf(s)) = Len(s)
           /\ \A i \in 1..Len(s) : CallsOf(s)[i] = CallIn(s[i])
<1> DEFINE c == CallsOf(s)
<1>1. Len(s) \in Nat /\ c = [i \in 1..Len(s) |-> CallIn(s[i])]
  BY DEF CallsOf
<1>2. \A i \in 1..Len(s) : c[i] \in Range(c) /\ c[i] = CallIn(s[i])
  BY <1>1 DEF Range
<1>3. c = [i \in 1..Len(s) |-> c[i]]
  BY <1>1, <1>2
<1> HIDE DEF c
<1>4. c \in [1..Len(s) -> Range(c)]
  BY <1>2, <1>3
<1>5. c \in Seq(Range(c)) /\ Len(c) = Len(s)
  BY <1>1, <1>4
<1> QED BY <1>2, <1>5 DEF c

\* One more above the first k.
LEMMA CallsAppended ==
    ASSUME NEW S, NEW s \in Seq(S), NEW k \in 0..Len(s), NEW b,
           NEW t, t = Append(SubSeq(s, 1, k), b)
    PROVE  CallsOf(t) = Append(SubSeq(CallsOf(s), 1, k), CallIn(b))
<1> DEFINE c == CallsOf(s)
           u == SubSeq(c, 1, k)
<1>1. /\ Len(s) \in Nat /\ c \in Seq(Range(c)) /\ Len(c) = Len(s)
      /\ \A i \in 1..Len(s) : c[i] = CallIn(s[i])
  BY CallsAre
<1> HIDE DEF c
<1>2. u \in Seq(Range(c)) /\ Len(u) = k /\ \A i \in 1..k : u[i] = c[i]
  BY <1>1
<1>3. /\ SubSeq(s, 1, k) \in Seq(S) /\ Len(SubSeq(s, 1, k)) = k
      /\ \A i \in 1..k : SubSeq(s, 1, k)[i] = s[i]
  BY <1>1
<1>4. DOMAIN t = 1..k + 1 /\ t[k + 1] = b /\ \A i \in 1..k : t[i] = s[i]
  BY <1>3
<1> HIDE DEF u
<1>5. /\ Append(u, CallIn(b)) = [i \in 1..k + 1 |-> Append(u, CallIn(b))[i]]
      /\ Append(u, CallIn(b))[k + 1] = CallIn(b)
      /\ \A i \in 1..k : Append(u, CallIn(b))[i] = u[i]
  <2> DEFINE x == CallIn(b)
  <2> HIDE DEF x
  <2> DEFINE X == Range(c) \cup {x}
  <2>1. u \in Seq(X) /\ x \in X /\ k \in Nat
    <3>1. Range(c) \subseteq X
      OBVIOUS
    <3> QED BY <1>1, <1>2, <3>1
  <2> HIDE DEF X
  <2>2. Append(u, x) \in Seq(X) /\ Len(Append(u, x)) = k + 1
    BY <1>2, <2>1
  <2>3. Append(u, x) = [i \in 1..k + 1 |-> Append(u, x)[i]]
    <3> DEFINE w == Append(u, x)
    <3> HIDE DEF w
    <3>1. w \in Seq(X) /\ Len(w) = k + 1
      BY <2>2 DEF w
    <3>2. w = [i \in 1..k + 1 |-> w[i]]
      BY <3>1
    <3> QED BY <3>2 DEF w
  <2>4. Append(u, x)[k + 1] = x /\ \A i \in 1..k : Append(u, x)[i] = u[i]
    BY <1>2, <2>1
  <2> QED BY <2>3, <2>4 DEF x
<1>6. ASSUME NEW i \in 1..k + 1 PROVE CallIn(t[i]) = Append(u, CallIn(b))[i]
  <2>1. CASE i = k + 1
    BY <1>4, <1>5, <2>1
  <2>2. CASE i # k + 1
    <3>1. i \in 1..k /\ i \in 1..Len(s)
      BY <1>1, <2>2
    <3> QED BY <1>1, <1>2, <1>4, <1>5, <3>1
  <2> QED BY <2>1, <2>2
<1>7. CallsOf(t) = [i \in 1..k + 1 |-> CallIn(t[i])]
  BY <1>4 DEF CallsOf
<1>8. CallsOf(t) = Append(u, CallIn(b))
  BY <1>5, <1>6, <1>7
<1> QED BY <1>8 DEF u, c

\* A call is what the activation, the tree and the values make it.
LEMMA CallsUnchanged ==
    ASSUME UNCHANGED <<ast, path, vals>>, NEW s, stack' = s
    PROVE  CallsOf(stack)' = CallsOf(s) /\ TestDecls' = TestDecls /\ MainSteps' = MainSteps
           /\ \A n : TestNumber(n)' = TestNumber(n)
<1>1. StepsStay
  BY StepsUnchanged
<1>2. \A p, k : StepNumber(p, k)' = StepNumber(p, k)
  BY <1>1 DEF StepNumber, StepsStay
<1>3. \A p, n : ValueNodes(p, n)' = ValueNodes(p, n)
  BY DEF ValueNodes
<1>4. ASSUME NEW a PROVE CallIn(a)' = CallIn(a)
  <2>1. \A n : [m \in ValueNodes(Body(a.fn), n) |-> ValueIn(a, vals[m])]'
               = [m \in ValueNodes(Body(a.fn), n) |-> ValueIn(a, vals[m])]
    BY <1>3
  <2> QED BY <1>2, <2>1 DEF CallIn, CallAt
<1>5. CallsOf(stack)' = CallsOf(s)
  BY <1>4 DEF CallsOf
<1>6. TestDecls' = TestDecls /\ MainSteps' = MainSteps
  BY <1>1 DEF TestDecls, MainSteps, StepsStay
<1>7. \A n : TestNumber(n)' = TestNumber(n)
  BY <1>6 DEF TestNumber
<1> QED BY <1>5, <1>6, <1>7

-----------------------------------------------------------------------------
\* The tests have the numbers from 0, in their order.
LEMMA TestsInOrder ==
    ASSUME Len(ast) \in Nat, NEW m \in TestDecls
    PROVE  /\ TestNumber(m) \in Nat /\ Cardinality(TestDecls) \in Nat
           /\ TestNumber(m) < Cardinality(TestDecls)
           /\ \A n \in TestDecls : m < n => TestNumber(m) < TestNumber(n)
<1> DEFINE T(n) == {k \in TestDecls : k < n}
<1>1. IsFiniteSet(TestDecls) /\ TestDecls \subseteq Nat
  <2>1. IsFiniteSet(1..Len(ast))
    BY FS_Interval
  <2>2. TestDecls \subseteq 1..Len(ast)
    BY DEF TestDecls, Nodes
  <2>3. 1..Len(ast) \subseteq Nat
    OBVIOUS
  <2> QED BY <2>1, <2>2, <2>3, FS_Subset
<1>2. \A n : IsFiniteSet(T(n)) /\ Cardinality(T(n)) \in Nat /\ TestNumber(n) = Cardinality(T(n))
  <2>1. ASSUME NEW n PROVE IsFiniteSet(T(n)) /\ Cardinality(T(n)) \in Nat
    BY <1>1, FS_Subset, FS_CardinalityType
  <2> QED BY <2>1 DEF TestNumber
<1>3. Cardinality(TestDecls) \in Nat
  BY <1>1, FS_CardinalityType
<1>4. Cardinality(T(m)) < Cardinality(TestDecls)
  <2>1. T(m) \subseteq TestDecls /\ T(m) # TestDecls
    BY <1>1
  <2> HIDE DEF T
  <2>2. Cardinality(T(m)) <= Cardinality(TestDecls)
        /\ Cardinality(T(m)) # Cardinality(TestDecls)
    BY <1>1, <2>1, FS_Subset
  <2> QED BY <1>2, <1>3, <2>2
<1>5. ASSUME NEW n \in TestDecls, m < n PROVE Cardinality(T(m)) < Cardinality(T(n))
  <2>1. T(m) \subseteq T(n) /\ T(m) # T(n)
    <3>1. m \in Nat /\ n \in Nat /\ \A k \in TestDecls : k \in Nat
      BY <1>1
    <3>2. m \in T(n) /\ m \notin T(m) /\ \A k \in T(m) : k \in T(n)
      BY <1>5, <3>1
    <3> QED BY <3>2
  <2> HIDE DEF T
  <2>2. Cardinality(T(m)) <= Cardinality(T(n)) /\ Cardinality(T(m)) # Cardinality(T(n))
    BY <1>2, <2>1, FS_Subset
  <2> QED BY <1>2, <2>2
<1> QED BY <1>2, <1>3, <1>4, <1>5

\* After its steps, __main calls a test.
CallsATest(a, n, o) ==
    /\ a.fn = Main /\ n = Len(ast) + 1 /\ MainSteps <= Len(a.results)
    /\ Len(a.results) < MainSteps + TestCalls
    /\ o.attr = TestSym(Len(a.results) - MainSteps) /\ o.args = <<>>

\* What an operation about to run says of the node it renders.
LEMMA NextOperation ==
    ASSUME Compiled, NEW a \in AnyActivation, Len(a.results) < Len(funcs[a.fn].ops),
           NEW p, p = Body(a.fn), NEW n, n = StepNumber(p, Len(a.results)),
           NEW o, o = NextOp(a)
    PROVE  /\ o.op = "constant" =>
                n \in Steps(p) /\ ast[n].k = "int" /\ o.attr = <<ast[n].value>> /\ o.type = ty[n]
           /\ o.op \in ArithOps \cup CmpOps =>
                /\ n \in Steps(p) /\ ast[n].k = "bin" /\ o.op = ast[n].op
                /\ o.args = Operands(n, vals) /\ o.type = ty[n]
           /\ o.op = "assert" =>
                n \in Steps(p) /\ ast[n].k = "intrinsic" /\ o.args = <<vals[Kid(n, 1)]>>
           /\ o.op = "call" =>
                \/ /\ n \in Steps(p) /\ ast[n].k = "call"
                   /\ o.attr = Sym(ast[n].name) /\ o.args = Operands(n, vals)
                \/ CallsATest(a, n, o)
           /\ o.op = "return" =>
                \/ /\ n \in Steps(p) /\ ast[n].k \in {"return", "end"}
                   /\ o.args = IF ast[n].k = "return" /\ ast[n].expr THEN <<vals[n - 1]>> ELSE <<>>
                \/ /\ a.fn = Main /\ n = Len(ast) + 1
                   /\ Len(a.results) = MainSteps + TestCalls
<1> DEFINE r == Len(a.results)
<1>1. r \in Nat /\ Len(ast) \in Nat /\ MainSteps \in Nat /\ TestCalls \in Nat
  <2>1. IsFiniteSet(TestDecls)
    <3>1. IsFiniteSet(1..Len(ast)) /\ TestDecls \subseteq 1..Len(ast)
      BY FS_Interval, CompiledFacts DEF TestDecls
    <3> QED BY <3>1, FS_Subset
  <2>2. Cardinality(TestDecls) \in Nat
    BY <2>1, FS_CardinalityType
  <2>3. Len(ast) + 1 \in Nat
    BY CompiledFacts
  <2> QED BY <2>2, <2>3, CompiledFacts, BeforeIsNumber DEF TestCalls, MainSteps, AnyActivation
<1>2. CASE n \in Steps(p)
  <2>1. Renders(o, n) /\ n \in Nodes /\ IsStep(n)
    <3>1. n # Len(ast) + 1
      BY <1>2, CompiledFacts DEF Steps
    <3> QED BY <3>1, Pending
  <2>2. ast[n].k = "bin" => ast[n].op \in ArithOps \cup CmpOps
    BY <2>1, CompiledFacts DEF Node, ExprNode
  <2>3. CASE ast[n].k = "int"
    BY <1>2, <2>1, <2>3 DEF Renders, ArithOps, CmpOps
  <2>4. CASE ast[n].k = "bin"
    BY <1>2, <2>1, <2>2, <2>4 DEF Renders, ArithOps, CmpOps
  <2>5. CASE ast[n].k = "call"
    BY <1>2, <2>1, <2>5 DEF Renders, ArithOps, CmpOps
  <2>6. CASE ast[n].k = "intrinsic"
    BY <1>2, <2>1, <2>6 DEF Renders, ArithOps, CmpOps
  <2>7. CASE ast[n].k = "return"
    BY <1>2, <2>1, <2>7 DEF Renders, ArithOps, CmpOps
  <2>8. CASE ast[n].k = "end"
    BY <1>2, <2>1, <2>8 DEF Renders, ArithOps, CmpOps
  <2> QED BY <2>1, <2>3, <2>4, <2>5, <2>6, <2>7, <2>8 DEF IsStep
<1>3. CASE n \notin Steps(p)
  <2> DEFINE main == funcs[Main].ops
             i == r + 1 - MainSteps
  <2>1. a.fn = Main /\ n = Len(ast) + 1 /\ MainSteps <= r
    BY <1>3, Pending
  <2>2. /\ Len(main) = MainSteps + TestCalls + 1 /\ r < Len(main) /\ o = main[r + 1]
        /\ main[Len(main)].op = "return"
        /\ \A j \in 1..TestCalls : /\ main[MainSteps + j].op = "call"
                                   /\ main[MainSteps + j].attr = TestSym(j - 1)
                                   /\ main[MainSteps + j].args = <<>>
    BY <2>1, CompiledFacts DEF TestsCalled, NextOp
  <2> HIDE DEF main, r
  <2>3. i \in Nat /\ i >= 1 /\ r + 1 = MainSteps + i /\ i - 1 = r - MainSteps
    BY <1>1, <2>1 DEF r
  <2>4. CASE r < MainSteps + TestCalls
    <3>1. i \in 1..TestCalls
      BY <1>1, <2>3, <2>4
    <3> HIDE DEF i
    <3>2. o.op = "call" /\ o.attr = TestSym(r - MainSteps) /\ o.args = <<>>
      BY <2>2, <2>3, <3>1
    <3> QED BY <2>1, <2>4, <3>2 DEF r, ArithOps, CmpOps, CallsATest
  <2>5. CASE ~(r < MainSteps + TestCalls)
    <3>1. r = MainSteps + TestCalls
      BY <1>1, <2>2, <2>5
    <3>2. r + 1 = Len(main)
      BY <2>2, <3>1
    <3>3. o.op = "return"
      BY <2>2, <3>2
    <3> QED BY <2>1, <3>1, <3>3 DEF r, ArithOps, CmpOps
  <2> QED BY <2>4, <2>5
<1> QED BY <1>2, <1>3

\* The activations of a running program, and the call of each to the next.
LEMMA StackFacts ==
    ASSUME UnderWay
    PROVE  /\ stack \in Seq(AnyActivation) /\ Len(stack) \in Nat \ {0} /\ DOMAIN stack = 1..Len(stack)
           /\ SymbolsUnique
           /\ Len(stack) \in DOMAIN stack /\ Top = stack[Len(stack)] /\ Current = NextOp(Top)
           /\ \A i \in DOMAIN stack :
                 stack[i] \in AnyActivation /\ Len(stack[i].results) < Len(funcs[stack[i].fn].ops)
           /\ \A i \in 1..Len(stack) - 1 : Calls(stack[i], stack[i + 1])
<1>1. /\ stack \in Seq(AnyActivation) /\ stack # <<>> /\ SymbolsUnique
      /\ \A i \in DOMAIN stack : ActivationOK(stack[i])
      /\ \A i \in 1..Len(stack) - 1 : Calls(stack[i], stack[i + 1])
  BY DEF UnderWay, RunInv, AnyActivation, IRValid
<1>2. /\ Len(stack) \in Nat \ {0} /\ DOMAIN stack = 1..Len(stack)
      /\ \A i \in DOMAIN stack : stack[i] \in AnyActivation
  BY <1>1
<1>3. Len(stack) \in DOMAIN stack
  BY <1>2
<1>4. Top = stack[Len(stack)] /\ Current = NextOp(Top)
  BY DEF Top, Last, Current, NextOp
<1> QED BY <1>1, <1>2, <1>3, <1>4 DEF ActivationOK

\* An activation calls the function that its source names, or, being that of __main
\* after its last step, the test whose turn it is.
LEMMA CalleeIs ==
    ASSUME Compiled, SymbolsUnique, NEW a \in AnyActivation,
           Len(a.results) < Len(funcs[a.fn].ops),
           NEW p, p = Body(a.fn), NEW n, n = StepNumber(p, Len(a.results)),
           NEW o, o = NextOp(a), o.op = "call",
           NEW g \in DOMAIN funcs, funcs[g].sym = o.attr
    PROVE  /\ g # Main
           /\ \/ /\ n \in Steps(p) /\ ast[n].k = "call" /\ o.args = Operands(n, vals)
                 /\ g \in TopLevelFns /\ ast[g].name = ast[n].name
              \/ /\ a.fn = Main /\ n = Len(ast) + 1 /\ MainSteps <= Len(a.results)
                 /\ g \in TestDecls /\ TestNumber(g) = Len(a.results) - MainSteps
                 /\ o.args = <<>> /\ run_tests
<1>1. CASE /\ n \in Steps(p) /\ ast[n].k = "call"
           /\ o.attr = Sym(ast[n].name) /\ o.args = Operands(n, vals)
  <2>1. PICK h \in TopLevelFns : ast[h].name = ast[n].name
    <3>1. n \in Nodes
      BY <1>1 DEF Steps
    <3>2. CheckedNode(n)
      BY <3>1, CompiledFacts
    <3> QED BY <1>1, <3>2 DEF CheckedNode
  <2>2. h \in DOMAIN funcs /\ funcs[h].sym = o.attr
    BY <1>1, <2>1, CompiledFacts DEF Prototypes
  <2>3. g = h
    BY <2>2 DEF SymbolsUnique
  <2>4. g # Main
    BY <2>3, FunctionsApart
  <2> QED BY <1>1, <2>1, <2>3, <2>4
<1>2. CASE CallsATest(a, n, o)
  <2>1. g # Main /\ g \notin TopLevelFns
    BY <1>2, CompiledFacts, FunctionsApart DEF Prototypes, CallsATest
  <2>2. g \in TestDecls /\ funcs[g].sym = TestSym(TestNumber(g))
    BY <2>1, CompiledFacts
  <2>3. TestNumber(g) = Len(a.results) - MainSteps
    BY <1>2, <2>2 DEF TestSym, CallsATest
  <2>4. run_tests
    <3>1. Len(a.results) \in Nat /\ MainSteps \in Nat
      <4>1. Len(ast) + 1 \in Nat
        BY CompiledFacts
      <4> QED BY <4>1, BeforeIsNumber DEF MainSteps, AnyActivation
    <3>2. TestCalls # 0
      BY <1>2, <3>1 DEF CallsATest
    <3> QED BY <3>2 DEF TestCalls
  <2> QED BY <1>2, <2>1, <2>2, <2>3, <2>4 DEF CallsATest
<1>3. \/ /\ n \in Steps(p) /\ ast[n].k = "call"
         /\ o.attr = Sym(ast[n].name) /\ o.args = Operands(n, vals)
      \/ CallsATest(a, n, o)
  BY NextOperation
<1> QED BY <1>1, <1>2, <1>3

\* __main is not called.
LEMMA OnlyMainAtBottom ==
    ASSUME UnderWay, NEW i \in DOMAIN stack, stack[i].fn = Main
    PROVE  i = 1
<1>1. SUFFICES ASSUME i # 1 PROVE FALSE
  OBVIOUS
<1> DEFINE j == i - 1
<1>2. j \in 1..Len(stack) - 1 /\ j \in DOMAIN stack /\ j + 1 = i
  BY <1>1, StackFacts
<1> HIDE DEF j
<1>3. Calls(stack[j], stack[i])
  BY <1>2, StackFacts
<1>4. stack[j] \in AnyActivation /\ Len(stack[j].results) < Len(funcs[stack[j].fn].ops)
  BY <1>2, StackFacts
<1>5. stack[i].fn \in DOMAIN funcs
  BY StackFacts DEF AnyActivation
<1>6. Compiled /\ SymbolsUnique
  BY StackFacts DEF UnderWay
<1> QED BY <1>3, <1>4, <1>5, <1>6, CalleeIs DEF Calls

\* Operand i of a step has the value that the call has for the node.
LEMMA OperandIs ==
    ASSUME Compiled, NEW a \in AnyActivation,
           NEW p, p = Body(a.fn), NEW n, n = StepNumber(p, Len(a.results)), n \in Steps(p)
    PROVE  /\ "kids" \in DOMAIN ast[n] =>
                \A i \in DOMAIN ast[n].kids :
                   Source!Arg(CallIn(a), i) = ValueIn(a, vals[Kid(n, i)])
           /\ ast[n].k = "return" /\ ast[n].expr =>
                CallIn(a).values[n - 1] = ValueIn(a, vals[n - 1])
<1>1. n \in Nodes /\ path[n] = p /\ n \in Int /\ n <= n
  BY CompiledFacts DEF Steps
<1>2. /\ CallIn(a).at = n
      /\ CallIn(a).values = [m \in ValueNodes(p, n) |-> ValueIn(a, vals[m])]
  BY CallInIs
<1>3. /\ "kids" \in DOMAIN ast[n] => \A i \in DOMAIN ast[n].kids : Kid(n, i) \in ValueNodes(p, n)
      /\ ast[n].k = "return" /\ ast[n].expr => n - 1 \in ValueNodes(p, n)
  BY <1>1, OperandNodes
<1> QED BY <1>2, <1>3, SameSteps DEF Source!Arg

-----------------------------------------------------------------------------
\* A source keeps its Gap, and a run that goes on is specified as before.
LEMMA SameGap ==
    ASSUME UNCHANGED <<ast, path, ty>>
    PROVE  Gap' <=> Gap
<1>1. Nodes' = Nodes
  BY DEF Nodes
<1>2. TopLevelFns' = TopLevelFns
  BY <1>1 DEF TopLevelFns
<1>3. AssertUsedAsValue' <=> AssertUsedAsValue
  BY <1>1 DEF AssertUsedAsValue, Kid
<1>4. MixedArithmetic' <=> MixedArithmetic
  BY DEF MixedArithmetic, Kid
<1>5. SharedName' <=> SharedName
  BY <1>1 DEF SharedName, ParamNames
<1>6. DuplicateFunction' <=> DuplicateFunction
  BY <1>2 DEF DuplicateFunction, NamesOf
<1>7. EarlyReturn' <=> EarlyReturn
  BY <1>1 DEF EarlyReturn
<1> QED BY <1>3, <1>4, <1>5, <1>6, <1>7 DEF Gap

\* The tests that have run are those that __main has called.
LEMMA TestsRunStay ==
    ASSUME Compiled, UNCHANGED <<ast, path, vals>>, NEW s, stack' = s,
           \/ Len(s[1].results) = Len(stack[1].results)
           \/ /\ Len(s[1].results) \in Nat /\ Len(s[1].results) <= MainSteps
              /\ Len(stack[1].results) \in Nat /\ Len(stack[1].results) <= MainSteps
    PROVE  TestsRun' = TestsRun
<1>1. TestDecls' = TestDecls /\ MainSteps' = MainSteps /\ \A n : TestNumber(n)' = TestNumber(n)
  BY CallsUnchanged
<1>2. TestsRun' = {n \in TestDecls : TestNumber(n) < Len(s[1].results) - MainSteps}
  BY <1>1 DEF TestsRun
<1>3. CASE Len(s[1].results) = Len(stack[1].results)
  BY <1>2, <1>3 DEF TestsRun
<1>4. CASE /\ Len(s[1].results) \in Nat /\ Len(s[1].results) <= MainSteps
           /\ Len(stack[1].results) \in Nat /\ Len(stack[1].results) <= MainSteps
  <2>1. MainSteps \in Nat /\ \A n \in TestDecls : TestNumber(n) \in Nat
    <3>1. Len(ast) \in Nat /\ Len(ast) + 1 \in Nat
      BY CompiledFacts
    <3> QED BY <3>1, BeforeIsNumber, TestsInOrder DEF MainSteps
  <2>2. ASSUME NEW n \in TestDecls
        PROVE  /\ ~(TestNumber(n) < Len(s[1].results) - MainSteps)
               /\ ~(TestNumber(n) < Len(stack[1].results) - MainSteps)
    BY <1>4, <2>1
  <2> QED BY <1>2, <2>2 DEF TestsRun
<1> QED BY <1>3, <1>4

\* Activation k of a running program has v as the result of its step: its call
\* goes on, and those above it are done.
LEMMA StepGoesOn ==
    ASSUME UnderWay, UNCHANGED <<ast, path, ty, genVars>>, NEW v \in Int,
           NEW k \in DOMAIN stack, NEW n, n = StepNumber(Body(stack[k].fn), Len(stack[k].results)),
           n \in Steps(Body(stack[k].fn)),
           NEW s, stack' = s,
           s = Append(SubSeq(stack, 1, k - 1), [stack[k] EXCEPT !.results = Append(@, v)])
    PROVE  /\ CallsOf(stack)' = Append(SubSeq(CallsOf(stack), 1, k - 1), Last(CallsOf(stack)'))
           /\ Source!Advances(CallIn(stack[k]), Last(CallsOf(stack)'), v)
           /\ TestsRun' = TestsRun
<1> DEFINE a == stack[k]
           b == [a EXCEPT !.results = Append(@, v)]
           c == CallsOf(stack)
           d == CallIn(b)
           u == SubSeq(c, 1, k - 1)
<1>1. /\ stack \in Seq(AnyActivation) /\ a \in AnyActivation /\ Compiled
      /\ Len(a.results) < Len(funcs[a.fn].ops)
      /\ k \in 1..Len(stack) /\ Len(stack) \in Nat
  BY StackFacts DEF UnderWay
<1>2. Source!Advances(CallIn(a), d, v)
  BY <1>1, CallAdvances
<1>3. CallsOf(s) = Append(u, d)
  <2> DEFINE j == k - 1
  <2>1. j \in 0..Len(stack)
    BY <1>1
  <2>2. s = Append(SubSeq(stack, 1, j), b)
    OBVIOUS
  <2> HIDE DEF b, j
  <2>3. CallsOf(s) = Append(SubSeq(CallsOf(stack), 1, j), CallIn(b))
    <3>1. SUFFICES ASSUME NEW t, t = s, NEW x, x = stack, NEW y, y = b, NEW z, z = j
                   PROVE  CallsOf(t) = Append(SubSeq(CallsOf(x), 1, z), CallIn(y))
      OBVIOUS
    <3>2. x \in Seq(AnyActivation) /\ z \in 0..Len(x) /\ t = Append(SubSeq(x, 1, z), y)
      BY <1>1, <2>1, <2>2, <3>1
    <3> QED BY <3>2, CallsAppended
  <2> QED BY <2>3 DEF j
<1>4. CallsOf(stack)' = Append(u, d) /\ UNCHANGED <<ast, path, vals>>
  BY <1>3, CallsUnchanged DEF genVars
<1>5. Last(Append(u, d)) = d
  <2>1. c \in Seq(Range(c)) /\ Len(c) = Len(stack)
    BY <1>1, CallsAre
  <2> HIDE DEF c, d
  <2>2. u \in Seq(Range(c))
    BY <1>1, <2>1
  <2> HIDE DEF u
  <2>3. u \in Seq(Range(c) \cup {d}) /\ d \in Range(c) \cup {d}
    <3>1. Range(c) \subseteq Range(c) \cup {d}
      OBVIOUS
    <3> QED BY <2>2, <3>1
  <2>4. Append(u, d)[Len(Append(u, d))] = d
    BY <2>3
  <2> QED BY <2>4 DEF Last
<1>6. TestsRun' = TestsRun
  <2>1. s[k] = b /\ Len(s) = k /\ \A i \in 1..k - 1 : s[i] = stack[i]
    BY <1>1, CutAt
  <2>2. CASE k # 1
    <3>1. s[1] = stack[1]
      BY <1>1, <2>1, <2>2
    <3> QED BY <1>1, <1>4, <3>1, TestsRunStay
  <2>3. CASE k = 1
    <3>1. a.fn = Main /\ Len(a.results) \in Nat /\ Len(b.results) = Len(a.results) + 1
      BY <1>1, <2>3, Resumed DEF UnderWay
    <3>2. Len(a.results) + 1 <= MainSteps
      <4>1. n \in 1..Len(ast) /\ Len(ast) \in Nat /\ n # Len(ast) + 1
        BY <1>1, CompiledFacts DEF Steps
      <4>2. Before(Body(a.fn), n) = Len(a.results) /\ path[n] = Body(a.fn) /\ IsStep(n)
        BY <1>1, <4>1, Pending
      <4>3. /\ Before(Body(a.fn), n) < Before(Body(a.fn), Len(ast) + 1)
            /\ Before(Body(a.fn), Len(ast) + 1) \in Nat
        BY <4>1, <4>2, BeforeGrows
      <4>4. MainSteps = Before(Body(a.fn), Len(ast) + 1)
        BY <3>1 DEF MainSteps, Body, Main, ModuleScope
      <4> QED BY <3>1, <4>2, <4>3, <4>4
    <3>3. /\ Len(s[1].results) \in Nat /\ Len(s[1].results) <= MainSteps
          /\ Len(stack[1].results) \in Nat /\ Len(stack[1].results) <= MainSteps
      <4>1. MainSteps \in Nat
        <5>1. Len(ast) + 1 \in Nat
          BY <1>1, CompiledFacts
        <5> QED BY <5>1, BeforeIsNumber DEF MainSteps
      <4>2. s[1] = b /\ stack[1] = a
        BY <2>1, <2>3
      <4> HIDE DEF a, b
      <4>3. Len(a.results) <= MainSteps /\ Len(b.results) <= MainSteps
            /\ Len(a.results) \in Nat /\ Len(b.results) \in Nat
        BY <3>1, <3>2, <4>1
      <4> QED BY <4>2, <4>3
    <3> QED BY <1>1, <1>4, <3>3, TestsRunStay
  <2> QED BY <2>2, <2>3
<1> HIDE DEF u, d
<1> QED BY <1>2, <1>4, <1>5, <1>6 DEF u

\* While the program runs on, the machine runs.
LEMMA MachineGoesOn ==
    ASSUME UNCHANGED <<ast, path, ty>>, UNCHANGED runVars
    PROVE  Machine' = Machine
<1>1. Gap' <=> Gap
  BY SameGap
<1>2. phase' = phase /\ why' = why
  BY DEF runVars
<1>3. Specified' <=> Specified
  BY <1>1, <1>2 DEF Specified
<1> QED BY <1>2, <1>3 DEF Machine

\* The operation about to run in the last activation has the value v: its call
\* goes on with it.
LEMMA ResultGoesOn ==
    ASSUME UnderWay, UNCHANGED <<ast, path, ty, genVars>>, NEW v \in Int, Result(v),
           NEW c, c = CallIn(Top), c.at \in Steps(Body(Top.fn))
    PROVE  Source!Value(c, v)
<1> DEFINE k == Len(stack)
           s == Append(SubSeq(stack, 1, k - 1), [stack[k] EXCEPT !.results = Append(@, v)])
           calls == CallsOf(stack)
<1>1. /\ stack \in Seq(AnyActivation) /\ k \in DOMAIN stack /\ Top = stack[k] /\ k \in Nat
      /\ stack[k] \in AnyActivation /\ Compiled
  BY StackFacts DEF UnderWay
<1>2. stack' = s /\ UNCHANGED runVars
  BY <1>1 DEF Result, Front
<1>3. c.at = StepNumber(Body(stack[k].fn), Len(stack[k].results))
  BY <1>1, CallInIs
<1>4. /\ CallsOf(stack)' = Append(SubSeq(calls, 1, k - 1), Last(CallsOf(stack)'))
      /\ Source!Advances(CallIn(stack[k]), Last(CallsOf(stack)'), v)
      /\ TestsRun' = TestsRun
  <2> DEFINE n == StepNumber(Body(stack[k].fn), Len(stack[k].results))
  <2>1. n \in Steps(Body(stack[k].fn))
    BY <1>1, <1>3
  <2>2. SUFFICES ASSUME NEW j, j = k, NEW m, m = n, NEW t, t = s
                 PROVE  /\ CallsOf(stack)' = Append(SubSeq(calls, 1, j - 1), Last(CallsOf(stack)'))
                        /\ Source!Advances(CallIn(stack[j]), Last(CallsOf(stack)'), v)
                        /\ TestsRun' = TestsRun
    OBVIOUS
  <2> HIDE DEF n, calls
  <2>3. /\ j \in DOMAIN stack /\ m = StepNumber(Body(stack[j].fn), Len(stack[j].results))
        /\ m \in Steps(Body(stack[j].fn)) /\ stack' = t
        /\ t = Append(SubSeq(stack, 1, j - 1), [stack[j] EXCEPT !.results = Append(@, v)])
    BY <1>1, <1>2, <2>1, <2>2 DEF n
  <2> HIDE DEF s, k
  <2> QED BY <2>3, StepGoesOn DEF calls
<1>5. Front(calls) = SubSeq(calls, 1, k - 1)
  BY <1>1, CallsAre DEF Front
<1>6. Machine' = Machine
  BY <1>2, MachineGoesOn
<1> HIDE DEF k, calls
<1> QED BY <1>1, <1>4, <1>5, <1>6, SameSteps DEF Source!Value, calls

\* The last call, and where it stands.
LEMMA TopCall ==
    ASSUME UnderWay, NEW c, c = CallIn(Top),
           NEW n, n = StepNumber(Body(Top.fn), Len(Top.results))
    PROVE  /\ Source!Last(CallsOf(stack)) = c /\ Len(CallsOf(stack)) = Len(stack)
           /\ c.at = n /\ c.fn = Top.fn
           /\ n \in Steps(Body(Top.fn)) => n \in Nodes
           /\ \A k : Source!StandsAt(c, k) <=> n \in Nodes /\ ast[n].k = k
           /\ Compiled /\ Top \in AnyActivation /\ Len(Top.results) < Len(funcs[Top.fn].ops)
           /\ Current = NextOp(Top)
<1>1. /\ stack \in Seq(AnyActivation) /\ Len(stack) \in 1..Len(stack) /\ Top = stack[Len(stack)]
      /\ Compiled /\ Top \in AnyActivation /\ Len(Top.results) < Len(funcs[Top.fn].ops)
      /\ Current = NextOp(Top)
  BY StackFacts DEF UnderWay
<1>2. Len(CallsOf(stack)) = Len(stack) /\ CallsOf(stack)[Len(stack)] = CallIn(stack[Len(stack)])
  BY <1>1, CallsAre
<1>3. Source!Last(CallsOf(stack)) = c
  BY <1>1, <1>2, SameSteps DEF Last
<1>4. c.at = n /\ c.fn = Top.fn
  BY <1>1, CallInIs
<1>5. \A k : Source!StandsAt(c, k) <=> n \in Nodes /\ ast[n].k = k
  BY <1>4, SameSteps DEF Source!StandsAt
<1> QED BY <1>1, <1>2, <1>3, <1>4, <1>5 DEF Steps

\* The operation about to run and the node it renders.
LEMMA TopOperation ==
    ASSUME UnderWay, NEW n, n = StepNumber(Body(Top.fn), Len(Top.results))
    PROVE  /\ Current.op = "constant" =>
                /\ n \in Steps(Body(Top.fn)) /\ ast[n].k = "int"
                /\ Current.attr = <<ast[n].value>> /\ Current.type = ty[n]
           /\ Current.op \in ArithOps \cup CmpOps =>
                /\ n \in Steps(Body(Top.fn)) /\ ast[n].k = "bin" /\ Current.op = ast[n].op
                /\ Current.args = Operands(n, vals) /\ Current.type = ty[n]
           /\ Current.op = "assert" =>
                /\ n \in Steps(Body(Top.fn)) /\ ast[n].k = "intrinsic"
                /\ Current.args = <<vals[Kid(n, 1)]>>
           /\ Current.op = "return" =>
                \/ /\ n \in Steps(Body(Top.fn)) /\ ast[n].k \in {"return", "end"}
                   /\ Current.args =
                        IF ast[n].k = "return" /\ ast[n].expr THEN <<vals[n - 1]>> ELSE <<>>
                \/ /\ Top.fn = Main /\ n = Len(ast) + 1
                   /\ Len(Top.results) = MainSteps + TestCalls
<1>1. /\ Compiled /\ Top \in AnyActivation /\ Len(Top.results) < Len(funcs[Top.fn].ops)
      /\ Current = NextOp(Top)
  BY TopCall
<1> SUFFICES ASSUME NEW a, a = Top, NEW o, o = Current, NEW p, p = Body(Top.fn)
    PROVE  /\ o.op = "constant" =>
                n \in Steps(p) /\ ast[n].k = "int" /\ o.attr = <<ast[n].value>> /\ o.type = ty[n]
           /\ o.op \in ArithOps \cup CmpOps =>
                /\ n \in Steps(p) /\ ast[n].k = "bin" /\ o.op = ast[n].op
                /\ o.args = Operands(n, vals) /\ o.type = ty[n]
           /\ o.op = "assert" =>
                n \in Steps(p) /\ ast[n].k = "intrinsic" /\ o.args = <<vals[Kid(n, 1)]>>
           /\ o.op = "return" =>
                \/ /\ n \in Steps(p) /\ ast[n].k \in {"return", "end"}
                   /\ o.args = IF ast[n].k = "return" /\ ast[n].expr THEN <<vals[n - 1]>> ELSE <<>>
                \/ /\ a.fn = Main /\ n = Len(ast) + 1
                   /\ Len(a.results) = MainSteps + TestCalls
  OBVIOUS
<1>2. /\ Compiled /\ a \in AnyActivation /\ Len(a.results) < Len(funcs[a.fn].ops)
      /\ p = Body(a.fn) /\ n = StepNumber(p, Len(a.results)) /\ o = NextOp(a)
  BY <1>1
<1> QED BY <1>2, NextOperation

\* Operators, calls and intrinsics have operands.
LEMMA OperatorHasKids ==
    ASSUME NEW r \in Node, r.k \in {"bin", "call", "intrinsic"}
    PROVE  "kids" \in DOMAIN r /\ r.kids \in Seq(Nat \ {0}) /\ DOMAIN r.kids = 1..Len(r.kids)
<1>1. "kids" \in DOMAIN r
  BY DEF Node, ExprNode
<1>2. r.kids \in Seq(Nat \ {0})
  BY <1>1, KidsOfNode
<1> QED BY <1>1, <1>2

\* The operands that the operation reads are those of the node.
LEMMA SameOperands ==
    ASSUME UnderWay, NEW c, c = CallIn(Top),
           NEW n, n = StepNumber(Body(Top.fn), Len(Top.results)), n \in Steps(Body(Top.fn)),
           "kids" \in DOMAIN ast[n], Current.args = Operands(n, vals)
    PROVE  /\ DOMAIN Current.args = DOMAIN ast[n].kids /\ DOMAIN ast[n].kids = 1..Len(ast[n].kids)
           /\ \A i \in DOMAIN ast[n].kids : Operand(i) = Source!Arg(c, i)
<1>1. Compiled /\ Top \in AnyActivation /\ n \in Nodes
  BY TopCall
<1>2. ast[n].kids \in Seq(Nat \ {0})
  BY <1>1, CompiledFacts, KidsOfNode DEF Kids
<1>3. /\ DOMAIN ast[n].kids = 1..Len(ast[n].kids) /\ DOMAIN Current.args = 1..Len(ast[n].kids)
      /\ \A i \in DOMAIN ast[n].kids : Current.args[i] = vals[Kid(n, i)]
  BY <1>2 DEF Operands
<1>4. \A i : Operand(i) = ValueIn(Top, Current.args[i])
  BY DEF Operand, ValueOf, ValueIn
<1>5. \A i \in DOMAIN ast[n].kids : Source!Arg(c, i) = ValueIn(Top, vals[Kid(n, i)])
  BY <1>1, OperandIs
<1> QED BY <1>3, <1>4, <1>5

\* The program ends: so does the machine, in the same way.
LEMMA MachineEnds ==
    ASSUME UnderWay, UNCHANGED <<ast, path, ty, genVars, stack>>,
           NEW how \in {"division", "abort", "stack", "returned"},
           NEW code, Stop(code, how)
    PROVE  Source!Ends(how)
<1>1. phase' = "done" /\ why' = how /\ ~Gap' /\ ~Gap
  BY SameGap DEF Stop, UnderWay, Compiled
<1>2. Machine' = how
  <2>1. Specified' /\ phase' # "run"
    BY <1>1 DEF Specified
  <2> QED BY <1>1, <2>1 DEF Machine
<1>3. CallsOf(stack)' = CallsOf(stack) /\ TestsRun' = TestsRun
  <2>1. SUFFICES ASSUME NEW s, stack = s PROVE CallsOf(stack)' = CallsOf(s) /\ TestsRun' = TestsRun
    OBVIOUS
  <2>2. stack' = s /\ UNCHANGED <<ast, path, vals>> /\ Compiled
    BY <2>1 DEF genVars, UnderWay
  <2>3. CallsOf(stack)' = CallsOf(s)
    BY <2>2, CallsUnchanged
  <2>4. TestsRun' = TestsRun
    BY <2>1, <2>2, TestsRunStay
  <2> QED BY <2>3, <2>4
<1> QED BY <1>2, <1>3 DEF Source!Ends

-----------------------------------------------------------------------------
\* Each operation that runs is a step of the source.
LEMMA ConstantIsLiteral ==
    ASSUME UnderWay, UNCHANGED <<ast, path, ty, genVars>>, RunConstant, NEW c, c = CallIn(Top)
    PROVE  Source!EvalLiteral(c)
<1> DEFINE n == StepNumber(Body(Top.fn), Len(Top.results))
           v == Wrap(Current.attr[1], Current.type)
<1>1. Current.op = "constant" /\ Result(v)
  BY DEF RunConstant, Running
<1>2. n \in Steps(Body(Top.fn)) /\ ast[n].k = "int" /\ Current.attr = <<ast[n].value>> /\ Current.type = ty[n]
  BY <1>1, TopOperation
<1>3. c.at = n /\ Source!StandsAt(c, "int")
  BY <1>2, TopCall
<1>4. v = Wrap(ast[n].value, ty[n]) /\ v \in Int
  <2>1. ModuleTyped /\ RunInv /\ phase = "run"
    BY CompiledFacts DEF UnderWay
  <2>2. WellTyped(Top.fn, Current) /\ Current.attr[1] \in Int
    BY <1>1, <2>1, CurrentOperation
  <2>3. Current.type \in IntegerTypes
    BY <1>1, <2>2 DEF WellTyped
  <2>4. v \in Int
    BY <2>2, <2>3, WrapTyped, TypedIsInt
  <2> QED BY <1>2, <2>4
<1> HIDE DEF v, n
<1>5. Source!Value(c, v)
  BY <1>1, <1>2, <1>3, <1>4, ResultGoesOn
<1> QED BY <1>3, <1>4, <1>5, SameArithmetic DEF Source!EvalLiteral

\* What the operation of a binary operator reads, computes and is.
LEMMA BinaryRuns ==
    ASSUME UnderWay, Current.op \in ArithOps \cup CmpOps, NEW c, c = CallIn(Top)
    PROVE  /\ c.at \in Steps(Body(Top.fn)) /\ Source!StandsAt(c, "bin")
           /\ Current.op = ast[c.at].op /\ Current.type = ty[c.at]
           /\ Operand(1) = Source!Arg(c, 1) /\ Operand(2) = Source!Arg(c, 2)
           /\ Operand(1) \in Int /\ Operand(2) \in Int
           /\ Current.op \in ArithOps => Current.type \in IntegerTypes
           /\ Current.op \in CmpOps => Current.type = "i1"
<1> DEFINE n == StepNumber(Body(Top.fn), Len(Top.results))
<1>1. /\ n \in Steps(Body(Top.fn)) /\ ast[n].k = "bin" /\ Current.op = ast[n].op
      /\ Current.args = Operands(n, vals) /\ Current.type = ty[n]
  <2> SUFFICES ASSUME NEW a, a = Top, NEW o, o = Current, NEW p, p = Body(Top.fn), NEW m, m = n
               PROVE  /\ m \in Steps(p) /\ ast[m].k = "bin" /\ o.op = ast[m].op
                      /\ o.args = Operands(m, vals) /\ o.type = ty[m]
    OBVIOUS
  <2>1. /\ Compiled /\ a \in AnyActivation /\ Len(a.results) < Len(funcs[a.fn].ops)
        /\ o = NextOp(a) /\ p = Body(a.fn) /\ m = StepNumber(p, Len(a.results))
        /\ o.op \in ArithOps \cup CmpOps
    BY TopCall
  <2> QED BY <2>1, NextOperation
<1>2. c.at = n /\ Source!StandsAt(c, "bin") /\ n \in Nodes
  BY <1>1, TopCall
<1>3. "kids" \in DOMAIN ast[n] /\ Len(ast[n].kids) = 2
  <2>1. ast[n] \in Node /\ OperandsPrecede(n)
    BY <1>2, TopCall, CompiledFacts
  <2> QED BY <1>1, <2>1, OperatorHasKids DEF OperandsPrecede
<1>4. Operand(1) = Source!Arg(c, 1) /\ Operand(2) = Source!Arg(c, 2)
  BY <1>1, <1>3, SameOperands
<1>5. /\ Operand(1) \in Int /\ Operand(2) \in Int
      /\ Current.op \in ArithOps => Current.type \in IntegerTypes
      /\ Current.op \in CmpOps => Current.type = "i1"
  <2>1. ModuleTyped /\ RunInv /\ phase = "run"
    BY CompiledFacts DEF UnderWay
  <2> QED BY <2>1, TwoOperands
<1> QED BY <1>1, <1>2, <1>4, <1>5

\* arith.addi, subi, muli and a division that has a result.
LEMMA ArithIsOperator ==
    ASSUME UnderWay, UNCHANGED <<ast, path, ty, genVars>>, RunArith, NEW c, c = CallIn(Top)
    PROVE  Source!EvalOperator(c)
<1> DEFINE v == Wrap(Arith(Current.op, Operand(1), Operand(2)), Current.type)
<1>1. /\ Current.op \in ArithOps /\ Result(v)
      /\ Current.op = "/" => ~Undefined(Operand(1), Operand(2), Current.type)
  BY DEF RunArith, Running
<1>2. /\ c.at \in Steps(Body(Top.fn)) /\ Source!StandsAt(c, "bin")
      /\ Current.op = ast[c.at].op /\ Current.type = ty[c.at]
      /\ Operand(1) = Source!Arg(c, 1) /\ Operand(2) = Source!Arg(c, 2)
      /\ Operand(1) \in Int /\ Operand(2) \in Int /\ Current.type \in IntegerTypes
  BY <1>1, BinaryRuns
<1>3. Arith(Current.op, Operand(1), Operand(2)) \in Int
  <2>1. Current.op = "/" => Operand(2) # 0
    BY <1>1 DEF Undefined
  <2> QED BY <1>1, <1>2, <2>1, ArithIsInt
<1>4. v \in Int
  BY <1>2, <1>3, WrapTyped, TypedIsInt
<1>5. v = Source!Wrap(Source!Arith(ast[c.at].op, Source!Arg(c, 1), Source!Arg(c, 2)), ty[c.at])
  BY <1>2, SameArithmetic
<1> HIDE DEF v
<1>6. Source!Value(c, v)
  BY <1>1, <1>2, <1>4, ResultGoesOn
<1>7. ~Source!Divides(c)
  BY <1>1, <1>2, SameArithmetic DEF Source!Divides
<1>8. ast[c.at].op \notin Source!CmpOps
  BY <1>1, <1>2, SameArithmetic DEF ArithOps, CmpOps
<1> QED BY <1>2, <1>5, <1>6, <1>7, <1>8 DEF Source!EvalOperator

\* arith.cmpi.
LEMMA CompareIsOperator ==
    ASSUME UnderWay, UNCHANGED <<ast, path, ty, genVars>>, RunCompare, NEW c, c = CallIn(Top)
    PROVE  Source!EvalOperator(c)
<1> DEFINE v == IF Holds(Current.op, Operand(1), Operand(2)) THEN True ELSE False
<1>1. Current.op \in CmpOps /\ Result(v)
  BY DEF RunCompare, Running
<1>2. /\ c.at \in Steps(Body(Top.fn)) /\ Source!StandsAt(c, "bin")
      /\ Current.op = ast[c.at].op
      /\ Operand(1) = Source!Arg(c, 1) /\ Operand(2) = Source!Arg(c, 2)
  BY <1>1, BinaryRuns
<1>3. v \in Int
  BY DEF True, False
<1>4. v = IF Source!Holds(ast[c.at].op, Source!Arg(c, 1), Source!Arg(c, 2))
            THEN Source!True ELSE Source!False
  BY <1>2, SameArithmetic
<1> HIDE DEF v
<1>5. Source!Value(c, v)
  BY <1>1, <1>2, <1>3, ResultGoesOn
<1>6. ast[c.at].op \in Source!CmpOps
  BY <1>1, <1>2, SameArithmetic
<1> QED BY <1>2, <1>4, <1>5, <1>6 DEF Source!EvalOperator

\* A division that has no result.
LEMMA UndefinedIsUndefined ==
    ASSUME UnderWay, UNCHANGED <<ast, path, ty, genVars>>, RunUndefined, NEW c, c = CallIn(Top)
    PROVE  Source!EvalUndefined(c)
<1>1. /\ Current.op = "/" /\ Undefined(Operand(1), Operand(2), Current.type)
      /\ \/ \E v \in Signed(Current.type) : Result(v)
         \/ Stop("crash", "division") /\ UNCHANGED stack
  BY DEF RunUndefined, Running
<1>2. /\ c.at \in Steps(Body(Top.fn)) /\ Source!StandsAt(c, "bin")
      /\ Current.op = ast[c.at].op /\ Current.type = ty[c.at]
      /\ Operand(1) = Source!Arg(c, 1) /\ Operand(2) = Source!Arg(c, 2)
      /\ Current.type \in IntegerTypes
  BY <1>1, BinaryRuns DEF ArithOps
<1>3. Source!Divides(c)
  BY <1>1, <1>2, SameArithmetic DEF Source!Divides
<1>4. CASE Stop("crash", "division") /\ UNCHANGED stack
  <2>1. Source!Ends("division")
    BY <1>4, MachineEnds
  <2> QED BY <1>2, <1>3, <2>1 DEF Source!EvalUndefined
<1>5. CASE \E v \in Signed(Current.type) : Result(v)
  <2>1. PICK v \in Signed(Current.type) : Result(v)
    BY <1>5
  <2>2. v \in Int
    BY <1>2, HalfAssumption DEF Signed
  <2>3. Source!Value(c, v) /\ v \in Source!Signed(ty[c.at])
    BY <1>2, <2>1, <2>2, ResultGoesOn, SameArithmetic
  <2> QED BY <1>2, <1>3, <2>3 DEF Source!EvalUndefined
<1> QED BY <1>1, <1>4, <1>5

\* cf.assert.
LEMMA AssertIsAssert ==
    ASSUME UnderWay, UNCHANGED <<ast, path, ty, genVars>>, RunAssert, NEW c, c = CallIn(Top)
    PROVE  Source!EvalAssert(c)
<1> DEFINE n == StepNumber(Body(Top.fn), Len(Top.results))
<1>1. /\ Current.op = "assert"
      /\ IF Operand(1) = True THEN Result(NoResult)
                              ELSE Stop("crash", "abort") /\ UNCHANGED stack
  BY DEF RunAssert, Running
<1>2. n \in Steps(Body(Top.fn)) /\ ast[n].k = "intrinsic" /\ Current.args = <<vals[Kid(n, 1)]>>
  BY <1>1, TopOperation
<1>3. c.at = n /\ Source!StandsAt(c, "intrinsic") /\ n \in Nodes /\ Compiled /\ Top \in AnyActivation
  BY <1>2, TopCall
<1>4. "kids" \in DOMAIN ast[n] /\ 1 \in DOMAIN ast[n].kids
  <2>1. ast[n] \in Node /\ CheckedNode(n)
    BY <1>3, CompiledFacts
  <2>2. "kids" \in DOMAIN ast[n] /\ ast[n].kids \in Seq(Nat \ {0})
    BY <1>2, <2>1, OperatorHasKids
  <2>3. KidTypes(n) = <<"i1">> /\ DOMAIN KidTypes(n) = DOMAIN ast[n].kids
    BY <1>2, <2>1 DEF CheckedNode, KidTypes
  <2> QED BY <2>2, <2>3
<1>5. Operand(1) = Source!Arg(c, 1)
  <2>1. Operand(1) = ValueIn(Top, vals[Kid(n, 1)])
    BY <1>2 DEF Operand, ValueOf, ValueIn
  <2> QED BY <1>2, <1>3, <1>4, <2>1, OperandIs
<1> HIDE DEF n
<1>6. CASE Operand(1) = True
  <2>1. NoResult \in Int
    BY DEF NoResult
  <2>2. Source!Value(c, NoResult)
    BY <1>1, <1>2, <1>3, <1>6, <2>1, ResultGoesOn
  <2> QED BY <1>3, <1>5, <1>6, <2>2, SameArithmetic DEF Source!EvalAssert
<1>7. CASE Operand(1) # True
  <2>1. Source!Ends("abort")
    BY <1>1, <1>7, MachineEnds
  <2> QED BY <1>3, <1>5, <1>7, <2>1, SameArithmetic DEF Source!EvalAssert
<1> QED BY <1>6, <1>7

-----------------------------------------------------------------------------
\* And one more of one more.
LEMMA CallPushed ==
    ASSUME NEW S, NEW s \in Seq(S), NEW b, NEW t, t = Append(s, b)
    PROVE  CallsOf(t) = Append(CallsOf(s), CallIn(b))
<1>1. CallsOf(s) \in Seq(Range(CallsOf(s))) /\ Len(CallsOf(s)) = Len(s) /\ Len(s) \in Nat
  BY CallsAre
<1>2. SubSeq(CallsOf(s), 1, Len(s)) = CallsOf(s)
  BY <1>1
<1> SUFFICES ASSUME NEW k, k = Len(s)
             PROVE  CallsOf(t) = Append(SubSeq(CallsOf(s), 1, k), CallIn(b))
  BY <1>2
<1>3. k \in 0..Len(s) /\ t = Append(SubSeq(s, 1, k), b)
  <2>1. SubSeq(s, 1, Len(s)) = s
    OBVIOUS
  <2> QED BY <1>1, <2>1
<1> QED BY <1>3, CallsAppended

\* A function is called: so is its declaration, unless the stack is full.
LEMMA CallIsMade ==
    ASSUME UnderWay, UNCHANGED <<ast, path, ty, genVars>>,
           NEW g \in DOMAIN funcs, NEW args \in Seq(Int),
           IF Len(stack) < StackLimit
             THEN stack' = Append(stack, Activation(g, args)) /\ UNCHANGED runVars
             ELSE Stop("crash", "stack") /\ UNCHANGED stack
    PROVE  Source!CallOf(g, args)
<1> DEFINE calls == CallsOf(stack)
           b == Activation(g, args)
           d == CallIn(b)
<1>1. /\ stack \in Seq(AnyActivation) /\ Len(stack) \in Nat \ {0} /\ Compiled
      /\ calls \in Seq(Range(calls)) /\ Len(calls) = Len(stack)
  BY StackFacts, CallsAre DEF UnderWay
<1>2. CASE Len(stack) < StackLimit
  <2>1. stack' = Append(stack, b) /\ UNCHANGED runVars
    BY <1>2
  <2>2. Source!Begins(d, g, args)
    BY <1>1, CallBegins
  <2>3. CallsOf(stack)' = Append(calls, d)
    <3> HIDE DEF b, calls, d
    <3> SUFFICES ASSUME NEW s, s = stack, NEW t, t = stack', NEW y, y = b
                 PROVE  CallsOf(stack)' = Append(CallsOf(s), CallIn(y))
      BY DEF calls, d
    <3>1. s \in Seq(AnyActivation) /\ t = Append(s, y)
      BY <1>1, <2>1
    <3>2. CallsOf(t) = Append(CallsOf(s), CallIn(y))
      BY <3>1, CallPushed
    <3>3. CallsOf(stack)' = CallsOf(t)
      BY CallsUnchanged DEF genVars
    <3> QED BY <3>2, <3>3
  <2>4. TestsRun' = TestsRun
    <3> HIDE DEF b
    <3> SUFFICES ASSUME NEW t, t = stack' PROVE TestsRun' = TestsRun
      OBVIOUS
    <3>1. t[1] = stack[1] /\ UNCHANGED <<ast, path, vals>>
      BY <1>1, <2>1 DEF genVars
    <3> QED BY <1>1, <3>1, TestsRunStay
  <2>5. Machine' = Machine
    BY <2>1, MachineGoesOn
  <2> HIDE DEF d, calls
  <2>6. Last(Append(calls, d)) = d
    <3>1. calls \in Seq(Range(calls) \cup {d}) /\ d \in Range(calls) \cup {d}
      BY <1>1
    <3>2. Append(calls, d)[Len(Append(calls, d))] = d
      BY <3>1
    <3> QED BY <3>2 DEF Last
  <2> QED BY <1>1, <1>2, <2>2, <2>3, <2>4, <2>5, <2>6, SameSteps DEF Source!CallOf, calls
<1>3. CASE ~(Len(stack) < StackLimit)
  <2>1. Source!Ends("stack")
    BY <1>3, MachineEnds
  <2> QED BY <1>1, <1>3, <2>1 DEF Source!CallOf
<1> QED BY <1>2, <1>3

\* The function that the operation about to run calls.
LEMMA Callee ==
    ASSUME UnderWay, Current.op = "call",
           NEW n, n = StepNumber(Body(Top.fn), Len(Top.results))
    PROVE  LET g == LookupSymbol(Current.attr)
           IN  /\ g \in DOMAIN funcs
               /\ \/ /\ n \in Steps(Body(Top.fn)) /\ ast[n].k = "call"
                     /\ Current.args = Operands(n, vals)
                     /\ g \in TopLevelFns /\ ast[g].name = ast[n].name
                  \/ /\ Top.fn = Main /\ n = Len(ast) + 1 /\ MainSteps <= Len(Top.results)
                     /\ g \in TestDecls /\ TestNumber(g) = Len(Top.results) - MainSteps
                     /\ Current.args = <<>> /\ run_tests
<1>1. /\ Compiled /\ Top \in AnyActivation /\ Len(Top.results) < Len(funcs[Top.fn].ops)
      /\ Current = NextOp(Top) /\ SymbolsUnique /\ ModuleTyped /\ RunInv /\ phase = "run"
  BY TopCall, StackFacts, CompiledFacts DEF UnderWay
<1>2. PICK g \in DOMAIN funcs : funcs[g].sym = Current.attr
  <2>1. WellTyped(Top.fn, Current)
    BY <1>1, CurrentOperation
  <2> QED BY <2>1 DEF WellTyped
<1>3. LookupSymbol(Current.attr) = g
  BY <1>1, <1>2, LookupFinds
<1> SUFFICES
       \/ /\ n \in Steps(Body(Top.fn)) /\ ast[n].k = "call"
          /\ Current.args = Operands(n, vals)
          /\ g \in TopLevelFns /\ ast[g].name = ast[n].name
       \/ /\ Top.fn = Main /\ n = Len(ast) + 1 /\ MainSteps <= Len(Top.results)
          /\ g \in TestDecls /\ TestNumber(g) = Len(Top.results) - MainSteps
          /\ Current.args = <<>> /\ run_tests
  BY <1>2, <1>3, Zenon
<1> SUFFICES ASSUME NEW a, a = Top, NEW o, o = Current, NEW p, p = Body(Top.fn)
    PROVE  \/ /\ n \in Steps(p) /\ ast[n].k = "call" /\ o.args = Operands(n, vals)
              /\ g \in TopLevelFns /\ ast[g].name = ast[n].name
           \/ /\ a.fn = Main /\ n = Len(ast) + 1 /\ MainSteps <= Len(a.results)
              /\ g \in TestDecls /\ TestNumber(g) = Len(a.results) - MainSteps
              /\ o.args = <<>> /\ run_tests
  OBVIOUS
<1>4. /\ a \in AnyActivation /\ Len(a.results) < Len(funcs[a.fn].ops) /\ p = Body(a.fn)
      /\ n = StepNumber(p, Len(a.results)) /\ o = NextOp(a) /\ o.op = "call"
      /\ funcs[g].sym = o.attr
  BY <1>1, <1>2
<1> QED BY <1>1, <1>4, CalleeIs

\* The test whose number is that of those which have run is the first of the others.
LEMMA TestInTurn ==
    ASSUME UnderWay, Top.fn = Main, NEW g \in TestDecls,
           TestNumber(g) = Len(Top.results) - MainSteps
    PROVE  Min(TestDecls \ TestsRun) = g /\ g \in TestDecls \ TestsRun
<1>1. Top = stack[1] /\ Len(ast) \in Nat
  <2>1. Len(stack) \in DOMAIN stack /\ Top = stack[Len(stack)]
    BY StackFacts
  <2>2. Len(stack) = 1
    BY <2>1, OnlyMainAtBottom
  <2> QED BY <2>1, <2>2, CompiledFacts DEF UnderWay
<1>2. TestsRun = {m \in TestDecls : TestNumber(m) < TestNumber(g)}
  BY <1>1 DEF TestsRun
<1>3. \A m \in TestDecls : m \in Int /\ TestNumber(m) \in Nat
  <2>1. \A m \in TestDecls : TestNumber(m) \in Nat
    BY <1>1, TestsInOrder
  <2> QED BY <1>1, <2>1 DEF TestDecls, Nodes
<1>4. ASSUME NEW m \in TestDecls, m < g PROVE TestNumber(m) < TestNumber(g)
  BY <1>1, <1>4, TestsInOrder
<1>5. g \in TestDecls \ TestsRun
  BY <1>2, <1>3
<1>6. \A m \in TestDecls \ TestsRun : g <= m
  BY <1>2, <1>3, <1>4
<1>7. TestDecls \ TestsRun \subseteq Int
  BY <1>3
<1> QED BY <1>5, <1>6, <1>7, LeastIsMin

\* func.call: in a body the call of its node, after __main's the next test.
LEMMA CallIsCall ==
    ASSUME UnderWay, UNCHANGED <<ast, path, ty, genVars>>, RunCall, NEW c, c = CallIn(Top)
    PROVE  Source!EvalCall(c) \/ Source!RunTest(c)
<1> DEFINE n == StepNumber(Body(Top.fn), Len(Top.results))
           g == LookupSymbol(Current.attr)
           args == [i \in DOMAIN Current.args |-> Operand(i)]
<1>1. /\ Current.op = "call"
      /\ IF Len(stack) < StackLimit
           THEN stack' = Append(stack, Activation(g, args)) /\ UNCHANGED runVars
           ELSE Stop("crash", "stack") /\ UNCHANGED stack
  BY DEF RunCall, Running
<1>2. c.at = n /\ c.fn = Top.fn /\ \A k : Source!StandsAt(c, k) <=> n \in Nodes /\ ast[n].k = k
  BY TopCall
<1>3. /\ g \in DOMAIN funcs
      /\ \/ /\ n \in Steps(Body(Top.fn)) /\ ast[n].k = "call"
            /\ Current.args = Operands(n, vals)
            /\ g \in TopLevelFns /\ ast[g].name = ast[n].name
         \/ /\ Top.fn = Main /\ n = Len(ast) + 1 /\ MainSteps <= Len(Top.results)
            /\ g \in TestDecls /\ TestNumber(g) = Len(Top.results) - MainSteps
            /\ Current.args = <<>> /\ run_tests
  BY <1>1, Callee
<1>4. args \in Seq(Int)
  <2>1. ModuleTyped /\ RunInv /\ phase = "run"
    BY CompiledFacts DEF UnderWay
  <2>2. Current.args \in Seq(Value)
    BY <2>1, CurrentOperation
  <2>3. \A i \in DOMAIN Current.args : Operand(i) \in Int
    BY <2>1, OperandTyped, TypedIsInt
  <2> QED BY <2>2, <2>3
<1> HIDE DEF n, g
<1>5. Source!CallOf(g, args)
  <2> HIDE DEF args
  <2> QED BY <1>1, <1>3, <1>4, CallIsMade
<1>6. CASE /\ n \in Steps(Body(Top.fn)) /\ ast[n].k = "call"
           /\ Current.args = Operands(n, vals)
           /\ g \in TopLevelFns /\ ast[g].name = ast[n].name
  <2>1. n \in Nodes /\ ast[n] \in Node
    BY <1>6, CompiledFacts DEF Steps, UnderWay
  <2>2. "kids" \in DOMAIN ast[n]
    BY <1>6, <2>1, OperatorHasKids
  <2>3. /\ DOMAIN Current.args = DOMAIN ast[n].kids
        /\ \A i \in DOMAIN ast[n].kids : Operand(i) = Source!Arg(c, i)
    <3>1. n = StepNumber(Body(Top.fn), Len(Top.results))
      BY DEF n
    <3> QED BY <1>6, <2>2, <3>1, SameOperands
  <2>4. args = [i \in DOMAIN ast[c.at].kids |-> Source!Arg(c, i)]
    BY <1>2, <2>3
  <2> HIDE DEF args
  <2>5. Source!StandsAt(c, "call")
    BY <1>2, <1>6, <2>1
  <2>6. g \in Source!TopLevelFns /\ ast[g].name = ast[c.at].name
    BY <1>2, <1>6, SameSteps
  <2> QED BY <1>5, <2>4, <2>5, <2>6 DEF Source!EvalCall
<1>7. CASE /\ Top.fn = Main /\ n = Len(ast) + 1 /\ MainSteps <= Len(Top.results)
           /\ g \in TestDecls /\ TestNumber(g) = Len(Top.results) - MainSteps
           /\ Current.args = <<>> /\ run_tests
  <2>1. Source!AtEnd(c)
    BY <1>2, <1>7 DEF Source!AtEnd, Main, Source!ModuleScope
  <2>2. Min(TestDecls \ TestsRun) = g /\ g \in TestDecls \ TestsRun
    BY <1>7, TestInTurn
  <2>3. Source!ToRun = TestDecls \ TestsRun
    BY <1>7, SameSteps DEF Source!ToRun
  <2>4. args = <<>>
    BY <1>7
  <2> HIDE DEF args
  <2>5. Source!Min(Source!ToRun) = g /\ Source!ToRun # {}
    BY <2>2, <2>3, SameSteps
  <2> QED BY <1>5, <2>1, <2>4, <2>5 DEF Source!RunTest
<1> QED BY <1>3, <1>6, <1>7

-----------------------------------------------------------------------------
\* What is appended to nothing stands first.
LEMMA PushedOnNone ==
    ASSUME NEW S, NEW s \in Seq(S), NEW b, NEW k, k = 0, NEW t, t = Append(SubSeq(s, 1, k), b)
    PROVE  t[1] = b
  BY SubSeq(s, 1, 0) = <<>>

\* When the last of two calls is over, the first is there as it was.
LEMMA CallOver ==
    ASSUME NEW S, NEW s \in Seq(S), Len(s) = 2, NEW b, CallIn(b) = CallIn(s[1]),
           NEW k, k = 0, NEW t, t = Append(SubSeq(s, 1, k), b)
    PROVE  CallsOf(t) = Front(CallsOf(s))
<1>1. k \in 0..Len(s) /\ 1 \in 1..Len(s)
  OBVIOUS
<1>2. CallsOf(t) = Append(SubSeq(CallsOf(s), 1, k), CallIn(b))
  BY <1>1, CallsAppended
<1> DEFINE c == CallsOf(s)
<1>3. c \in Seq(Range(c)) /\ Len(c) = 2 /\ c[1] = CallIn(b)
  BY <1>1, CallsAre
<1> HIDE DEF c
<1>4. SubSeq(c, 1, 0) = <<>>
  BY <1>3
<1>5. Front(c) = <<c[1]>>
  <2> SUFFICES ASSUME NEW q, q = c PROVE Front(q) = <<q[1]>>
    OBVIOUS
  <2>1. q \in Seq(Range(q)) /\ Len(q) = 2
    BY <1>3
  <2> DEFINE w == SubSeq(q, 1, 1)
  <2>2. w \in Seq(Range(q)) /\ Len(w) = 1 /\ w[1] = q[1]
    BY <2>1
  <2> HIDE DEF w
  <2>3. w = <<q[1]>>
    BY <2>2
  <2> QED BY <2>1, <2>3 DEF Front, w
<1>6. Append(<<>>, CallIn(b)) = <<CallIn(b)>>
  OBVIOUS
<1> QED BY <1>2, <1>3, <1>4, <1>5, <1>6, Zenon DEF c

\* A test returns to __main: its call is over, and it has run.
LEMMA TestHasRun ==
    ASSUME UnderWay, UNCHANGED <<ast, path, vals>>, NEW v \in Int,
           NEW a \in AnyActivation, a = stack[1], NEW b, b = [a EXCEPT !.results = Append(@, v)],
           NEW s, stack' = s, s[1] = b, NEW g \in TestDecls,
           MainSteps <= Len(a.results), TestNumber(g) = Len(a.results) - MainSteps
    PROVE  CallIn(b) = CallIn(a) /\ TestsRun' = TestsRun \cup {g}
<1>1. a.fn = Main /\ Compiled /\ Len(ast) \in Nat
  BY CompiledFacts DEF UnderWay
<1>2. CallIn(b) = CallIn(a)
  BY <1>1, MainStands
<1>3. Len(b.results) = Len(a.results) + 1 /\ Len(a.results) \in Nat
  BY Resumed
<1>4. TestDecls' = TestDecls /\ MainSteps' = MainSteps /\ \A n : TestNumber(n)' = TestNumber(n)
  BY CallsUnchanged
<1>5. TestsRun' = {n \in TestDecls : TestNumber(n) < Len(b.results) - MainSteps}
  BY <1>4 DEF TestsRun
<1>6. MainSteps \in Nat /\ \A n \in TestDecls : TestNumber(n) \in Nat /\ n \in Int
  <2>1. Len(ast) + 1 \in Nat
    BY <1>1
  <2>2. \A n \in TestDecls : TestNumber(n) \in Nat
    BY <1>1, TestsInOrder
  <2>3. MainSteps \in Nat
    BY <2>1, BeforeIsNumber DEF MainSteps
  <2> QED BY <1>1, <2>2, <2>3 DEF TestDecls, Nodes
<1>7. ASSUME NEW n \in TestDecls, n # g PROVE TestNumber(n) # TestNumber(g)
  <2>1. n < g \/ g < n
    BY <1>6, <1>7
  <2>2. CASE n < g
    BY <1>1, <1>6, <2>2, TestsInOrder
  <2>3. CASE g < n
    BY <1>1, <1>6, <2>3, TestsInOrder
  <2> QED BY <2>1, <2>2, <2>3
<1>8. ASSUME NEW n \in TestDecls
      PROVE  TestNumber(n) < Len(b.results) - MainSteps
             <=> TestNumber(n) < Len(a.results) - MainSteps \/ n = g
  BY <1>3, <1>6, <1>7
<1> QED BY <1>2, <1>5, <1>8 DEF TestsRun

\* Activation a with one result more.
WithResult(a, v) == [a EXCEPT !.results = Append(@, v)]

\* With that result in __main's activation, the test's call is over.
LEMMA TestIsOver ==
    ASSUME UnderWay, UNCHANGED <<ast, path, vals>>, Len(stack) = 2, NEW v \in Int,
           NEW a, a = stack[1], NEW x, x = stack, NEW k, k = 0,
           NEW s, stack' = s, s = Append(SubSeq(x, 1, k), WithResult(a, v)),
           NEW g \in TestDecls,
           MainSteps <= Len(a.results), TestNumber(g) = Len(a.results) - MainSteps
    PROVE  CallsOf(stack)' = Front(CallsOf(stack)) /\ TestsRun' = TestsRun \cup {g}
<1>1. x \in Seq(AnyActivation)
  BY StackFacts
<1>2. Len(x) = 2 /\ a = x[1]
  OBVIOUS
<1>3. a \in AnyActivation
  BY <1>1, <1>2
<1> SUFFICES ASSUME NEW d, d = WithResult(a, v)
             PROVE  CallsOf(stack)' = Front(CallsOf(x)) /\ TestsRun' = TestsRun \cup {g}
  OBVIOUS
<1>4. s = Append(SubSeq(x, 1, k), d)
  OBVIOUS
<1>5. s[1] = d
  BY <1>1, <1>4, PushedOnNone
<1>6. CallIn(d) = CallIn(a) /\ TestsRun' = TestsRun \cup {g}
  BY <1>3, <1>5, TestHasRun DEF WithResult
<1>7. CallsOf(s) = Front(CallsOf(x))
  <2>1. CallIn(d) = CallIn(x[1])
    BY <1>2, <1>6
  <2> QED BY <1>1, <1>2, <1>4, <2>1, CallOver
<1>8. CallsOf(stack)' = CallsOf(s)
  BY CallsUnchanged
<1> QED BY <1>6, <1>7, <1>8

\* What is returned is what the source returns.
LEMMA ReturnedIs ==
    ASSUME UnderWay, Current.op = "return", NEW c, c = CallIn(Top), Top.fn # Main
    PROVE  /\ Source!StandsAt(c, "return") \/ Source!StandsAt(c, "end")
           /\ Returned = IF ast[c.at].k = "return" /\ ast[c.at].expr
                           THEN c.values[c.at - 1] ELSE NoResult
           /\ Returned \in Int
<1> DEFINE n == StepNumber(Body(Top.fn), Len(Top.results))
<1>1. /\ n \in Steps(Body(Top.fn)) /\ ast[n].k \in {"return", "end"}
      /\ Current.args = IF ast[n].k = "return" /\ ast[n].expr THEN <<vals[n - 1]>> ELSE <<>>
  BY TopOperation
<1>2. /\ c.at = n /\ Compiled /\ Top \in AnyActivation /\ n \in Nodes
      /\ \A k : Source!StandsAt(c, k) <=> n \in Nodes /\ ast[n].k = k
  BY <1>1, TopCall
<1>3. ast[n].k = "return" /\ ast[n].expr => c.values[n - 1] = ValueIn(Top, vals[n - 1])
  BY <1>1, <1>2, OperandIs
<1> HIDE DEF n
<1>4. CASE ast[n].k = "return" /\ ast[n].expr
  <2>1. Current.args = <<vals[n - 1]>>
    BY <1>1, <1>4
  <2>2. Returned = Operand(1) /\ 1 \in DOMAIN Current.args
    BY <2>1 DEF Returned
  <2>3. Operand(1) = ValueIn(Top, vals[n - 1])
    BY <2>1 DEF Operand, ValueOf, ValueIn
  <2>4. Operand(1) \in Int
    <3>1. ModuleTyped /\ RunInv /\ phase = "run"
      BY CompiledFacts DEF UnderWay
    <3> QED BY <2>2, <3>1, OperandTyped, TypedIsInt
  <2> QED BY <1>1, <1>2, <1>3, <1>4, <2>2, <2>3, <2>4
<1>5. CASE ~(ast[n].k = "return" /\ ast[n].expr)
  BY <1>1, <1>2, <1>5 DEF Returned, NoResult
<1> QED BY <1>4, <1>5

\* All but the last two of a sequence.
LEMMA FrontOfFront ==
    ASSUME NEW S, NEW q \in Seq(S), NEW j \in Nat \ {0}, Len(q) = j + 1
    PROVE  /\ Front(q) \in Seq(S) /\ Len(Front(q)) = j
           /\ Last(Front(q)) = q[j] /\ Front(Front(q)) = SubSeq(q, 1, j - 1)
<1> DEFINE w == SubSeq(q, 1, j)
<1>1. Front(q) = w
  BY DEF Front
<1>2. w \in Seq(S) /\ Len(w) = j /\ \A i \in 1..j : w[i] = q[i]
  OBVIOUS
<1> HIDE DEF w
<1>3. Last(w) = q[j]
  BY <1>2 DEF Last
<1>4. Front(w) = SubSeq(q, 1, j - 1)
  <2> DEFINE u == SubSeq(w, 1, j - 1)
             x == SubSeq(q, 1, j - 1)
  <2>1. u \in Seq(S) /\ Len(u) = j - 1 /\ \A i \in 1..j - 1 : u[i] = w[i]
    BY <1>2
  <2>2. x \in Seq(S) /\ Len(x) = j - 1 /\ \A i \in 1..j - 1 : x[i] = q[i]
    OBVIOUS
  <2>3. Front(w) = u
    BY <1>2 DEF Front
  <2> HIDE DEF u, x
  <2>4. u = x
    BY <1>2, <2>1, <2>2
  <2> QED BY <2>3, <2>4 DEF x
<1> QED BY <1>1, <1>2, <1>3, <1>4

\* An activation that returns is another's than __main's, and was called by the one
\* below it.
LEMMA Caller ==
    ASSUME UnderWay, RunReturn, NEW k, k = Len(stack) - 1, NEW a, a = stack[k],
           NEW n, n = StepNumber(Body(a.fn), Len(a.results))
    PROVE  /\ k \in DOMAIN stack /\ k + 1 = Len(stack) /\ a \in AnyActivation
           /\ Top.fn # Main /\ Current.op = "return"
           /\ \/ Top.fn \in TopLevelFns /\ n \in Steps(Body(a.fn))
              \/ /\ Top.fn \in TestDecls /\ k = 1 /\ MainSteps <= Len(a.results)
                 /\ TestNumber(Top.fn) = Len(a.results) - MainSteps
<1>1. RunInv /\ ModuleTyped /\ phase = "run" /\ Compiled /\ SymbolsUnique
  BY CompiledFacts, StackFacts DEF UnderWay
<1>2. /\ k \in DOMAIN stack /\ k + 1 = Len(stack) /\ Current.op = "return" /\ Calls(a, Top)
      /\ k \in 1..Len(stack) - 1
  BY <1>1, ReturnResumes
<1>3. /\ a \in AnyActivation /\ Len(a.results) < Len(funcs[a.fn].ops)
      /\ Len(stack) \in DOMAIN stack /\ Top = stack[Len(stack)] /\ Top.fn \in DOMAIN funcs
  <2>1. Top \in AnyActivation
    BY TopCall
  <2> QED BY <1>2, <2>1, StackFacts DEF AnyActivation
<1>4. Top.fn # Main
  <2>1. SUFFICES ASSUME Top.fn = Main PROVE FALSE
    OBVIOUS
  <2>2. Len(stack) = 1
    <3> SUFFICES ASSUME NEW i, i = Len(stack) PROVE i = 1
      OBVIOUS
    <3>1. i \in DOMAIN stack /\ stack[i].fn = Main
      BY <1>3, <2>1
    <3> QED BY <3>1, OnlyMainAtBottom
  <2> QED BY <1>2, <2>2
<1>5. \/ Top.fn \in TopLevelFns /\ n \in Steps(Body(a.fn))
      \/ /\ Top.fn \in TestDecls /\ a.fn = Main /\ MainSteps <= Len(a.results)
         /\ TestNumber(Top.fn) = Len(a.results) - MainSteps
  <2> SUFFICES ASSUME NEW g, g = Top.fn, NEW p, p = Body(a.fn), NEW o, o = NextOp(a)
               PROVE  \/ g \in TopLevelFns /\ n \in Steps(p)
                      \/ /\ g \in TestDecls /\ a.fn = Main /\ MainSteps <= Len(a.results)
                         /\ TestNumber(g) = Len(a.results) - MainSteps
    OBVIOUS
  <2>1. o.op = "call" /\ g \in DOMAIN funcs /\ funcs[g].sym = o.attr
    BY <1>2, <1>3 DEF Calls
  <2> QED BY <1>1, <1>3, <2>1, CalleeIs
<1>6. a.fn = Main => k = 1
  BY <1>2, OnlyMainAtBottom
<1> QED BY <1>2, <1>3, <1>4, <1>5, <1>6

\* func.return, but for __main's.
LEMMA ReturnIsReturn ==
    ASSUME UnderWay, UNCHANGED <<ast, path, ty, genVars>>, RunReturn, NEW c, c = CallIn(Top)
    PROVE  Source!EvalReturn(c)
<1> DEFINE k == Len(stack) - 1
           a == stack[k]
           n == StepNumber(Body(a.fn), Len(a.results))
           calls == CallsOf(stack)
<1>1. /\ k \in DOMAIN stack /\ k + 1 = Len(stack) /\ a \in AnyActivation
      /\ Top.fn # Main /\ Current.op = "return"
      /\ \/ Top.fn \in TopLevelFns /\ n \in Steps(Body(a.fn))
         \/ /\ Top.fn \in TestDecls /\ k = 1 /\ MainSteps <= Len(a.results)
            /\ TestNumber(Top.fn) = Len(a.results) - MainSteps
  <2> SUFFICES ASSUME NEW j, j = k, NEW b, b = a, NEW m, m = n
      PROVE  /\ j \in DOMAIN stack /\ j + 1 = Len(stack) /\ b \in AnyActivation
             /\ Top.fn # Main /\ Current.op = "return"
             /\ \/ Top.fn \in TopLevelFns /\ m \in Steps(Body(b.fn))
                \/ /\ Top.fn \in TestDecls /\ j = 1 /\ MainSteps <= Len(b.results)
                   /\ TestNumber(Top.fn) = Len(b.results) - MainSteps
    OBVIOUS
  <2>1. j = Len(stack) - 1 /\ b = stack[j] /\ m = StepNumber(Body(b.fn), Len(b.results))
    OBVIOUS
  <2> HIDE DEF k, a, n
  <2> QED BY <2>1, Caller
<1>2. /\ Source!StandsAt(c, "return") \/ Source!StandsAt(c, "end")
      /\ Returned = IF ast[c.at].k = "return" /\ ast[c.at].expr
                      THEN c.values[c.at - 1] ELSE NoResult
      /\ Returned \in Int
  BY <1>1, ReturnedIs
<1>3. /\ stack' = Append(SubSeq(stack, 1, k - 1), [a EXCEPT !.results = Append(@, Returned)])
      /\ UNCHANGED runVars
  <2>1. RunInv /\ ModuleTyped /\ phase = "run"
    BY CompiledFacts DEF UnderWay
  <2> QED BY <2>1, ReturnResumes DEF RunReturn
<1>4. Machine' = Machine
  BY <1>3, MachineGoesOn
<1>5. /\ stack \in Seq(AnyActivation) /\ Len(stack) \in Nat /\ k \in 1..Len(stack)
      /\ Len(calls) = Len(stack) /\ calls \in Seq(Range(calls)) /\ c.fn = Top.fn
      /\ calls[k] = CallIn(a)
  <2>1. stack \in Seq(AnyActivation) /\ Len(stack) \in Nat /\ DOMAIN stack = 1..Len(stack)
    BY StackFacts
  <2>2. Len(calls) = Len(stack) /\ calls \in Seq(Range(calls)) /\ c.fn = Top.fn
    BY <2>1, CallsAre, TopCall
  <2>3. calls[k] = CallIn(a)
    <3> SUFFICES ASSUME NEW j, j = k PROVE CallsOf(stack)[j] = CallIn(stack[j])
      OBVIOUS
    <3> QED BY <1>1, <2>1, CallsAre
  <2> QED BY <1>1, <2>1, <2>2, <2>3
<1>6. Front(calls) \in Seq(Range(calls)) /\ Len(Front(calls)) = k
      /\ Last(Front(calls)) = CallIn(a) /\ Front(Front(calls)) = SubSeq(calls, 1, k - 1)
  <2> HIDE DEF calls, a, k
  <2> SUFFICES ASSUME NEW q, q = calls, NEW j, j = k
               PROVE  /\ Front(q) \in Seq(Range(q)) /\ Len(Front(q)) = j
                      /\ Last(Front(q)) = q[j] /\ Front(Front(q)) = SubSeq(q, 1, j - 1)
    BY <1>5
  <2>1. q \in Seq(Range(q)) /\ Len(q) = j + 1 /\ j \in Nat \ {0}
    BY <1>1, <1>5
  <2> QED BY <2>1, FrontOfFront
<1>7. CASE Top.fn \in TopLevelFns /\ n \in Steps(Body(a.fn))
  <2>1. /\ CallsOf(stack)' = Append(SubSeq(calls, 1, k - 1), Last(CallsOf(stack)'))
        /\ Source!Advances(CallIn(a), Last(CallsOf(stack)'), Returned)
        /\ TestsRun' = TestsRun
    <3> SUFFICES ASSUME NEW j, j = k, NEW m, m = n, NEW v, v = Returned, NEW s, s = stack'
                 PROVE  /\ CallsOf(stack)' = Append(SubSeq(calls, 1, j - 1), Last(CallsOf(stack)'))
                        /\ Source!Advances(CallIn(stack[j]), Last(CallsOf(stack)'), v)
                        /\ TestsRun' = TestsRun
      OBVIOUS
    <3>1. /\ j \in DOMAIN stack /\ m = StepNumber(Body(stack[j].fn), Len(stack[j].results))
          /\ m \in Steps(Body(stack[j].fn)) /\ stack' = s /\ v \in Int
          /\ s = Append(SubSeq(stack, 1, j - 1), [stack[j] EXCEPT !.results = Append(@, v)])
      BY <1>1, <1>2, <1>3, <1>7
    <3> HIDE DEF k, n, a
    <3> QED BY <3>1, StepGoesOn
  <2>2. c.fn \notin Source!TestDecls
    <3>1. Top.fn \notin TestDecls
      BY <1>7 DEF TopLevelFns, TestDecls
    <3> QED BY <1>5, <3>1, SameSteps
  <2> HIDE DEF k, n, a, calls
  <2>3. /\ Source!Front(Source!Front(calls)) = SubSeq(calls, 1, k - 1)
        /\ Source!Last(Source!Front(calls)) = CallIn(a)
        /\ Source!Last(CallsOf(stack)') = Last(CallsOf(stack)')
        /\ Source!NoResult = NoResult
    BY <1>6, SameSteps, SameArithmetic
  <2>4. Len(calls) > 1
    BY <1>1, <1>5
  <2> QED BY <1>2, <1>4, <2>1, <2>2, <2>3, <2>4, Zenon DEF Source!EvalReturn, calls
<1>8. CASE /\ Top.fn \in TestDecls /\ k = 1 /\ MainSteps <= Len(a.results)
           /\ TestNumber(Top.fn) = Len(a.results) - MainSteps
  <2>1. Len(stack) = 2 /\ k - 1 = 0 /\ a = stack[1]
    <3>1. k + 1 = Len(stack) /\ k = 1
      BY <1>1, <1>8
    <3> HIDE DEF k
    <3> QED BY <3>1
  <2>2. stack' = Append(SubSeq(stack, 1, k - 1), WithResult(a, Returned))
    BY <1>3 DEF WithResult
  <2>3. CallsOf(stack)' = Front(calls) /\ TestsRun' = TestsRun \cup {c.fn}
    <3> HIDE DEF k, n, a
    <3> SUFFICES ASSUME NEW b, b = a, NEW v, v = Returned, NEW x, x = stack, NEW s, s = stack',
                        NEW j, j = k - 1, NEW g, g = Top.fn
                 PROVE  CallsOf(stack)' = Front(CallsOf(stack)) /\ TestsRun' = TestsRun \cup {g}
      BY <1>5
    <3>1. /\ b = stack[1] /\ v \in Int /\ j = 0 /\ g \in TestDecls
          /\ s = Append(SubSeq(x, 1, j), WithResult(b, v))
          /\ MainSteps <= Len(b.results) /\ TestNumber(g) = Len(b.results) - MainSteps
      BY <1>2, <1>8, <2>1, <2>2
    <3>2. UNCHANGED <<ast, path, vals>>
      BY DEF genVars
    <3> QED BY <2>1, <3>1, <3>2, TestIsOver
  <2>4. c.fn \in Source!TestDecls
    BY <1>5, <1>8, SameSteps
  <2>5. Len(calls) > 1
    BY <1>1, <1>5
  <2> HIDE DEF k, n, a, calls
  <2>6. Source!Front(calls) = Front(calls)
    BY SameSteps
  <2> QED BY <1>2, <1>4, <2>3, <2>4, <2>5, <2>6, Zenon DEF Source!EvalReturn, calls
<1> QED BY <1>1, <1>7, <1>8

\* __main's.
LEMMA EndIsFinish ==
    ASSUME UnderWay, UNCHANGED <<ast, path, ty, genVars>>, RunEnd, NEW c, c = CallIn(Top)
    PROVE  Source!Finish(c)
<1> DEFINE n == StepNumber(Body(Top.fn), Len(Top.results))
           r == Len(Top.results)
<1>1. Current.op = "return" /\ Len(stack) = 1 /\ Stop("success", "returned") /\ UNCHANGED stack
  BY DEF RunEnd, Running
<1>2. /\ Compiled /\ Top \in AnyActivation /\ Top.fn = Main /\ Top = stack[1]
      /\ c.at = n /\ c.fn = Top.fn /\ r < Len(funcs[Top.fn].ops)
  <2>1. Top = stack[1]
    BY <1>1, StackFacts
  <2> QED BY <2>1, TopCall DEF UnderWay
<1>3. Len(ast) \in Nat /\ Body(Top.fn) = <<>> /\ MainSteps = Before(<<>>, Len(ast) + 1)
      /\ MainSteps \in Nat /\ r \in Nat
  BY <1>2, CompiledFacts, BeforeIsNumber DEF Body, Main, ModuleScope, MainSteps, AnyActivation
<1>4. TestCalls = (IF run_tests THEN Cardinality(TestDecls) ELSE 0) /\ TestCalls \in Nat
      /\ \A m \in TestDecls : TestNumber(m) \in Nat /\ TestNumber(m) < Cardinality(TestDecls)
  <2>1. TestDecls = {} => Cardinality(TestDecls) = 0
    BY FS_EmptySet
  <2>2. TestDecls # {} => Cardinality(TestDecls) \in Nat
    BY <1>3, TestsInOrder
  <2> QED BY <1>3, <2>1, <2>2, TestsInOrder DEF TestCalls
<1>5. r = MainSteps + TestCalls
  <2>1. ModuleTyped /\ RunInv /\ phase = "run"
    BY CompiledFacts DEF UnderWay
  <2>2. r + 1 = Len(funcs[Top.fn].ops)
    BY <1>1, <2>1, CurrentOperation
  <2>3. Len(funcs[Main].ops) = MainSteps + TestCalls + 1
    BY <1>2, CompiledFacts DEF TestsCalled
  <2> HIDE DEF r
  <2> QED BY <1>2, <1>3, <1>4, <2>2, <2>3
<1>6. n = Len(ast) + 1
  <2>1. SUFFICES ASSUME n # Len(ast) + 1 PROVE FALSE
    OBVIOUS
  <2>2. n \in Nodes /\ path[n] = <<>> /\ IsStep(n) /\ Before(<<>>, n) = r
    <3> SUFFICES ASSUME NEW a, a = Top, NEW p, p = Body(Top.fn), NEW m, m = n, m # Len(ast) + 1
                 PROVE  m \in Nodes /\ path[m] = p /\ IsStep(m) /\ Before(p, m) = Len(a.results)
      BY <1>3, <2>1
    <3>1. /\ a \in AnyActivation /\ Len(a.results) < Len(funcs[a.fn].ops) /\ p = Body(a.fn)
          /\ m = StepNumber(p, Len(a.results))
      BY <1>2
    <3> QED BY <1>2, <3>1, Pending
  <2>3. Before(<<>>, n) < Before(<<>>, Len(ast) + 1)
    <3> SUFFICES ASSUME NEW m, m = n PROVE Before(<<>>, m) < Before(<<>>, Len(ast) + 1)
      OBVIOUS
    <3>1. /\ m \in Nat \ {0} /\ m < Len(ast) + 1 /\ path[m] = <<>> /\ IsStep(m)
          /\ Len(ast) + 1 \in Nat \ {0}
      BY <1>3, <2>2 DEF Nodes
    <3> QED BY <3>1, BeforeGrows
  <2> HIDE DEF n, r
  <2> QED BY <1>3, <1>4, <1>5, <2>2, <2>3
<1>7. Source!AtEnd(c)
  BY <1>2, <1>6 DEF Source!AtEnd, Main, Source!ModuleScope
<1>8. Source!ToRun = {}
  <2>1. run_tests => TestsRun = TestDecls
    <3>1. TestsRun = {m \in TestDecls : TestNumber(m) < r - MainSteps}
      BY <1>2 DEF TestsRun
    <3> HIDE DEF r
    <3>2. run_tests => r - MainSteps = Cardinality(TestDecls)
      BY <1>3, <1>4, <1>5
    <3> QED BY <1>4, <3>1, <3>2
  <2> QED BY <2>1, SameSteps DEF Source!ToRun
<1>9. Source!Ends("returned")
  BY <1>1, MachineEnds
<1> QED BY <1>7, <1>8, <1>9 DEF Source!Finish

-----------------------------------------------------------------------------
\* How a running program ends; the compiler itself never ends so.
Endings == {"division", "abort", "stack", "returned"}

\* Its passes do not start it, nor end as it does.
LEMMA PassesEndOtherwise ==
    ASSUME Driver \/ ParserNext \/ ResolverNext \/ CheckerNext \/ GenNext(run_tests)
    PROVE  phase \notin {"run", "done"} /\ (why' = why \/ why' \notin Endings)
<1>1. \A code, reason : Stop(code, reason) => why' = reason
  BY DEF Stop
<1>2. \A next : Enter(next) => why' = why
  BY DEF Enter
<1>3. \A pass, next :
         pass \notin Endings /\ Verdict(pass, next) => why' = why \/ why' \notin Endings
  BY <1>1, <1>2 DEF Verdict
<1>4. Step => why' = why
  BY DEF Step
<1>5. UNCHANGED runVars => why' = why
  BY DEF runVars
<1>6. CASE Driver
  BY <1>1, <1>2, <1>6 DEF Driver, Usage, Start, EmitMLIR, Lower, EmitLLVM, Endings
<1>7. CASE ParserNext
  BY <1>1, <1>2, <1>5, <1>7 DEF ParserNext, ParseLet, ParseReturn, ParseExpressionStmt, ParseFn,
     ParseTest, ParseTailExpression, ParseClose, ParseEof, ParseUnreadable, ParseSyntaxError,
     ParseHugeInteger, Reading, Endings
<1>8. CASE ResolverNext
  BY <1>1, <1>2, <1>3, <1>4, <1>8 DEF ResolverNext, ResolverBegin, ResolveChildren,
     ResolveIdentifier, ResolveCall, ResolveLet, ResolveBody, ResolveEnd, ResolverReturn,
     Resolving, Endings
<1>9. CASE CheckerNext
  BY <1>1, <1>2, <1>3, <1>4, <1>9 DEF CheckerNext, CheckerBegin, CheckIntLiteral,
     CheckIdentifier, CheckBinaryOperator, CheckCall, CheckIntrinsicCall, CheckLet, CheckReturn,
     CheckModuleReturn, CheckFn, CheckNestedFn, CheckTest, CheckEnd, CheckerReturn, Checking,
     Infer, Endings
<1>10. CASE GenNext(run_tests)
  BY <1>1, <1>2, <1>4, <1>10 DEF GenNext, GenBegin, GenIntLiteral, GenIdentifier,
     GenBinaryOperator, GenCall, GenIntrinsicCall, GenLet, GenReturn, GenFn, GenTest, GenEnd,
     GenFinish, Generating, Create, EnterBody, Endings
<1> QED BY <1>6, <1>7, <1>8, <1>9, <1>10

\* A program that does not run, or whose source has a Gap, is none of the source.
LEMMA StaysIdle ==
    ASSUME ~Specified, ~Specified'
    PROVE  Machine = "idle" /\ Source!Compile
<1>1. Machine = "idle" /\ Machine' = "idle"
  BY DEF Machine
<1> QED BY <1>1 DEF Source!Compile

\* Running, the compiled program is at the step its source is at.
LEMMA RunIsRun ==
    ASSUME UnderWay, UNCHANGED <<ast, path, ty, argv, genVars>>, ExecNext
    PROVE  Source!Run /\ UNCHANGED Source!sourceVars
<1>1. PICK c : c = CallIn(Top)
  OBVIOUS
<1>2. Machine = "running" /\ Source!Last(CallsOf(stack)) = c /\ phase = "run"
  <2>1. Source!Last(CallsOf(stack)) = c
    <3> DEFINE n == StepNumber(Body(Top.fn), Len(Top.results))
    <3>1. n = StepNumber(Body(Top.fn), Len(Top.results))
      OBVIOUS
    <3> HIDE DEF n
    <3> QED BY <1>1, <3>1, TopCall
  <2> QED BY <2>1 DEF UnderWay, Compiled, Machine, Specified
<1>3. \/ Source!EvalLiteral(c) \/ Source!EvalOperator(c) \/ Source!EvalUndefined(c)
      \/ Source!EvalAssert(c) \/ Source!EvalCall(c) \/ Source!EvalReturn(c)
      \/ Source!RunTest(c) \/ Source!Finish(c)
  <2>1. \/ RunConstant \/ RunArith \/ RunUndefined \/ RunCompare \/ RunAssert \/ RunCall
        \/ RunReturn \/ RunEnd
    <3>1. Executable
      BY <1>1, NextExecutable DEF UnderWay, Compiled, TypeInv, GenerateTypes
    <3> QED BY <1>2, <3>1 DEF ExecNext, JITFails, RunInvalid, Invoke, RunIllFormed
  <2> QED BY <1>1, <2>1, ConstantIsLiteral, ArithIsOperator, CompareIsOperator,
        UndefinedIsUndefined, AssertIsAssert, CallIsCall, ReturnIsReturn, EndIsFinish
<1>4. Source!Run
  BY <1>2, <1>3 DEF Source!Run
<1>5. UNCHANGED Source!sourceVars
  BY DEF Source!sourceVars, run_tests, positionals
<1> QED BY <1>4, <1>5

\* invoke("__main") starts the source's program.
LEMMA InvokeIsStart ==
    ASSUME Compiled, UNCHANGED <<ast, path, ty, argv, genVars>>, Invoke, ~Specified
    PROVE  Source!Start /\ UNCHANGED Source!sourceVars
<1> DEFINE b == Activation(Main, <<>>)
           d == CallIn(b)
<1>1. phase' = "run" /\ stack' = <<b>>
  BY DEF Invoke, Enter
<1>2. Machine = "idle" /\ Machine' = "running"
  <2>1. ~Gap'
    BY SameGap DEF Compiled
  <2> QED BY <1>1, <2>1 DEF Machine, Specified
<1>3. Source!Begins(d, Main, <<>>)
  <2>1. Main \in DOMAIN funcs /\ <<>> \in Seq(Int)
    BY CompiledFacts
  <2> QED BY <2>1, CallBegins
<1>4. CallsOf(stack)' = <<d>>
  <2> SUFFICES ASSUME NEW s, s = stack', NEW y, y = b PROVE CallsOf(stack)' = <<CallIn(y)>>
    OBVIOUS
  <2>1. s = <<y>>
    BY <1>1
  <2>2. CallsOf(stack)' = CallsOf(s)
    BY CallsUnchanged DEF genVars
  <2>3. CallsOf(s) = <<CallIn(y)>>
    BY <2>1 DEF CallsOf
  <2> QED BY <2>2, <2>3
<1>5. TestsRun' = {}
  <2>1. TestDecls' = TestDecls /\ MainSteps' = MainSteps /\ \A n : TestNumber(n)' = TestNumber(n)
    <3> SUFFICES ASSUME NEW s, s = stack'
                 PROVE  TestDecls' = TestDecls /\ MainSteps' = MainSteps
                        /\ \A n : TestNumber(n)' = TestNumber(n)
      OBVIOUS
    <3> QED BY CallsUnchanged DEF genVars
  <2>2. Len(stack'[1].results) = 0
    BY <1>1 DEF Activation
  <2>3. TestsRun' = {n \in TestDecls : TestNumber(n) < 0 - MainSteps}
    BY <2>1, <2>2 DEF TestsRun
  <2>4. Len(ast) \in Nat /\ Len(ast) + 1 \in Nat
    BY CompiledFacts
  <2>5. MainSteps \in Nat
    BY <2>4, BeforeIsNumber DEF MainSteps
  <2>6. \A n \in TestDecls : TestNumber(n) \in Nat
    BY <2>4, TestsInOrder
  <2>7. \A n \in TestDecls : ~(TestNumber(n) < 0 - MainSteps)
    BY <2>5, <2>6
  <2> QED BY <2>3, <2>7
<1>6. UNCHANGED Source!sourceVars
  BY DEF Source!sourceVars, run_tests, positionals
<1> HIDE DEF d
<1>7. CallsOf(stack)' = <<CallsOf(stack)'[1]>> /\ CallsOf(stack)'[1] = d
  BY <1>4
<1>8. Source!ModuleScope = Main
  BY DEF Source!ModuleScope, Main
<1> QED BY <1>2, <1>3, <1>5, <1>6, <1>7, <1>8, Zenon DEF Source!Start

\* Nothing that the source's machine tells of changes while the compiler rests.
LEMMA SameMachine ==
    ASSUME UNCHANGED <<ast, path, ty, argv, genVars, phase, why, stack>>
    PROVE  UNCHANGED <<Source!sourceVars, Source!machineVars>>
<1>1. Machine' = Machine
  <2>1. Gap' <=> Gap
    BY SameGap
  <2>2. Specified' <=> Specified
    BY <2>1 DEF Specified
  <2> QED BY <2>2 DEF Machine
<1>2. CallsOf(stack)' = CallsOf(stack) /\ TestsRun' = TestsRun
  <2> SUFFICES ASSUME NEW s, s = stack PROVE CallsOf(stack)' = CallsOf(s) /\ TestsRun' = TestsRun
    OBVIOUS
  <2>1. /\ CallsOf(stack)' = CallsOf(s) /\ TestDecls' = TestDecls /\ MainSteps' = MainSteps
        /\ \A n : TestNumber(n)' = TestNumber(n)
    BY CallsUnchanged DEF genVars
  <2> QED BY <2>1 DEF TestsRun
<1>3. UNCHANGED Source!sourceVars
  BY DEF Source!sourceVars, run_tests, positionals
<1> QED BY <1>1, <1>2, <1>3 DEF Source!machineVars

\* Every step of the compiler and of its program is a step of the source's machine,
\* or one that changes nothing there.
LEMMA StepImplements ==
    /\ IInv /\ TypeInv /\ GeneratorInv /\ SoundnessInv /\ ExecutionInv /\ CompilationInv
    /\ [Next]_vars
    => [Source!Next]_<<Source!sourceVars, Source!machineVars>>
<1> SUFFICES ASSUME IInv, TypeInv, GeneratorInv, SoundnessInv, ExecutionInv, CompilationInv,
                    [Next]_vars
             PROVE  Source!Next \/ UNCHANGED <<Source!sourceVars, Source!machineVars>>
  OBVIOUS
<1>1. phase # "done" => why = "none"
  BY DEF SoundnessInv
<1>2. phase \notin {"run", "done"} => ~Specified
  BY <1>1 DEF Specified
<1>3. CASE UNCHANGED vars \/ (Ended /\ UNCHANGED <<parserVars, resolverVars, checkerVars, argv, stack>>)
  <2>1. UNCHANGED <<ast, path, ty, argv, genVars, phase, why, stack>>
    BY <1>3 DEF vars, Ended, runVars, parserVars, checkerVars
  <2> QED BY <2>1, SameMachine
<1>4. CASE Driver \/ ParserNext \/ ResolverNext \/ CheckerNext \/ GenNext(run_tests)
  <2>1. ~Specified
    BY <1>2, <1>4, PassesEndOtherwise
  <2>2. ~Specified'
    <3>1. phase' # "run"
      BY <1>4, PassesDoNotRun
    <3>2. why = "none" /\ (why' = why \/ why' \notin Endings)
      BY <1>1, <1>4, PassesEndOtherwise
    <3> QED BY <3>1, <3>2 DEF Specified, Endings
  <2> QED BY <2>1, <2>2, StaysIdle DEF Source!Next
<1>5. CASE ExecNext /\ UNCHANGED <<parserVars, resolverVars, checkerVars, genVars, argv>>
  <2>1. UNCHANGED <<ast, path, ty, argv, genVars>>
    BY <1>5 DEF parserVars, checkerVars
  <2>2. CASE Gap
    <3>1. ~Specified /\ ~Specified'
      BY <2>1, <2>2, SameGap DEF Specified
    <3> QED BY <3>1, StaysIdle DEF Source!Next
  <2>3. CASE phase = "run" /\ ~Gap
    <3>1. UnderWay
      BY <2>3 DEF UnderWay, Compiled, ExecutionInv, CompilationInv
    <3> QED BY <1>5, <2>1, <3>1, RunIsRun DEF Source!Next
  <2>4. CASE phase # "run" /\ ~Gap
    <3>1. phase = "execute" /\ (JITFails \/ RunInvalid \/ Invoke)
      BY <1>5, <2>4 DEF ExecNext, JITFails, RunInvalid, Invoke, RunIllFormed, RunConstant,
         RunArith, RunUndefined, RunCompare, RunAssert, RunCall, RunReturn, RunEnd, Running
    <3>2. ~Specified
      BY <1>2, <3>1
    <3>3. CASE JITFails \/ RunInvalid
      <4>1. ~Specified'
        BY <3>3 DEF JITFails, RunInvalid, Stop, Specified
      <4> QED BY <3>2, <4>1, StaysIdle DEF Source!Next
    <3>4. CASE Invoke
      <4>1. Compiled
        BY <2>4, <3>1 DEF Compiled, CompilationInv
      <4> QED BY <2>1, <3>2, <3>4, <4>1, InvokeIsStart DEF Source!Next
    <3> QED BY <3>1, <3>3, <3>4
  <2> QED BY <2>2, <2>3, <2>4
<1> QED BY <1>3, <1>4, <1>5, Zenon DEF Next, Execute

\* For every source without a Gap, whatever its size: the compiled program does what
\* the source says, step by step, until it ends, and ends as it would.
THEOREM CompilerIsCorrect == Spec => ImplementsSource
<1>1. Init => /\ IInv /\ TypeInv /\ GeneratorInv /\ SoundnessInv /\ ExecutionInv /\ CompilationInv
              /\ Source!Init
  <2>1. Init => ExecutionInv /\ CompilationInv
    BY DEF Init, ExecutionInv, RunInv, CompilationInv
  <2>2. Init => Source!Init
    BY DEF Init, Source!Init, Machine, Specified
  <2> QED BY <2>1, <2>2, InitIInv, InitTypeInv, InitSoundnessInv
<1>2. /\ IInv /\ TypeInv /\ GeneratorInv /\ SoundnessInv /\ ExecutionInv /\ CompilationInv
      /\ [Next]_vars
      => /\ (IInv /\ TypeInv /\ GeneratorInv /\ SoundnessInv /\ ExecutionInv /\ CompilationInv)'
         /\ [Source!Next]_<<Source!sourceVars, Source!machineVars>>
  BY StepIInv, StepTypeInv, StepGeneratorInv, StepSoundnessInv, StepExecutionInv,
     StepCompilationInv, StepImplements
<1> QED BY <1>1, <1>2, PTL DEF Spec, ImplementsSource, Source!Spec
=============================================================================
