-------------------------- MODULE ExecutionProofs --------------------------
(***************************************************************************)
(* The program of a source without a Gap reads only values that exist, each *)
(* of its type, for every width of the integers and every depth of the      *)
(* stack.  SoundnessProofs provides that the module obeys the verifier's    *)
(* rules when it is invoked, which nothing has verified; these rules are    *)
(* enough for the program that is made of it.                               *)
(***************************************************************************)
EXTENDS ExecutionInvariant, SoundnessProofs

\* Wrapping around gives a value of the type.
LEMMA WrapTyped ==
    ASSUME NEW type \in IntegerTypes, NEW v \in Int
    PROVE  HasType(Wrap(v, type), type)
<1>1. Half[type] \in Nat \ {0}
  BY HalfAssumption
<1>2. PICK h \in Nat \ {0} : h = Half[type]
  BY <1>1
<1>3. (v + h) % (2 * h) \in 0..2 * h - 1
  OBVIOUS
<1> QED BY <1>2, <1>3 DEF HasType, Wrap, Signed

\* A value of a type is a number.
LEMMA TypedIsInt ==
    ASSUME NEW v, NEW type, HasType(v, type)
    PROVE  v \in Int
<1>1. type \in IntegerTypes => Half[type] \in Nat
  BY HalfAssumption
<1> QED BY <1>1 DEF HasType, Signed, NoResult

\* A bool is one of the two values of i1, and NoResult has no type.
LEMMA BoolTyped ==
    HasType(True, "i1") /\ HasType(False, "i1") /\ HasType(NoResult, NoType)
<1>1. Half["i1"] = 1 /\ "i1" \in IntegerTypes /\ NoType \notin IntegerTypes
  BY HalfAssumption DEF IntegerTypes, NoType
<1> QED BY <1>1 DEF HasType, Signed, True, False, NoResult

\* Arithmetic on two numbers is one, unless it divides by zero.
LEMMA ArithIsInt ==
    ASSUME NEW o \in ArithOps, NEW a \in Int, NEW b \in Int, o = "/" => b # 0
    PROVE  Arith(o, a, b) \in Int
<1>1. b # 0 => Quotient(a, b) \in Int
  <2>1. Magnitude(a) \in Nat /\ (b # 0 => Magnitude(b) \in Nat \ {0})
    BY DEF Magnitude
  <2>2. \A m \in Nat : \A n \in Nat \ {0} : m \div n \in Int /\ -(m \div n) \in Int
    OBVIOUS
  <2> QED BY <2>1, <2>2 DEF Quotient
<1>2. a + b \in Int /\ a - b \in Int /\ a * b \in Int
  OBVIOUS
<1>3. o \in {"+", "-", "*", "/"}
  BY DEF ArithOps
<1>4. CASE o = "+"
  BY <1>2, <1>4 DEF Arith
<1>5. CASE o = "-"
  BY <1>2, <1>5 DEF Arith
<1>6. CASE o = "*"
  BY <1>2, <1>6 DEF Arith
<1>7. CASE o = "/"
  BY <1>1, <1>7 DEF Arith
<1> QED BY <1>3, <1>4, <1>5, <1>6, <1>7

-----------------------------------------------------------------------------
\* The operation at hand, and what the verifier knows of it.
LEMMA CurrentOperation ==
    ASSUME RunInv, ModuleTyped, phase = "run"
    PROVE  /\ Len(stack) \in Nat \ {0} /\ Top = stack[Len(stack)] /\ ActivationOK(Top)
           /\ Top \in [fn : DOMAIN funcs, args : Seq(Int), results : Seq(Int)]
           /\ FunctionTyped(funcs[Top.fn]) /\ funcs[Top.fn].ops \in Seq(Range(funcs[Top.fn].ops))
           /\ Len(Top.results) + 1 \in 1..Len(funcs[Top.fn].ops)
           /\ Current = NextOp(Top) /\ WellTyped(Top.fn, Current)
           /\ Current.args \in Seq(Value) /\ (Current.op = "constant" => Current.attr[1] \in Int)
           /\ \A v \in Range(Current.args) : Dominates(v, Top.fn, Len(Top.results) + 1)
           /\ Current.op = "return" <=> Len(Top.results) + 1 = Len(funcs[Top.fn].ops)
<1>1. /\ stack \in Seq([fn : DOMAIN funcs, args : Seq(Int), results : Seq(Int)]) /\ stack # <<>>
      /\ \A i \in DOMAIN stack : ActivationOK(stack[i])
      /\ IRValid
  BY DEF RunInv
<1>2. /\ Len(stack) \in Nat \ {0} /\ Top = stack[Len(stack)] /\ Len(stack) \in DOMAIN stack
  BY <1>1 DEF Top, Last
<1>3. /\ ActivationOK(Top)
      /\ Top \in [fn : DOMAIN funcs, args : Seq(Int), results : Seq(Int)]
  <2>1. PICK R : R = [fn : DOMAIN funcs, args : Seq(Int), results : Seq(Int)]
    OBVIOUS
  <2>2. stack \in Seq(R)
    BY <1>1, <2>1
  <2>3. Top \in R
    BY <1>2, <2>2
  <2>4. ActivationOK(Top)
    BY ONLY <1>1, <1>2
  <2> QED BY <2>1, <2>3, <2>4
<1>4. PICK f \in DOMAIN funcs : f = Top.fn
  BY <1>3
<1>5. FunctionTyped(funcs[f]) /\ funcs[f].ops \in Seq(Range(funcs[f].ops))
  BY DEF ModuleTyped, FunctionTyped
<1>6. PICK i : i = Len(Top.results) + 1 /\ i \in 1..Len(funcs[f].ops) /\ i \in DOMAIN funcs[f].ops
  <2>1. Len(Top.results) \in Nat
    BY <1>3
  <2>2. Len(Top.results) < Len(funcs[f].ops)
    BY <1>3, <1>4 DEF ActivationOK
  <2>3. Len(funcs[f].ops) \in Nat /\ DOMAIN funcs[f].ops = 1..Len(funcs[f].ops)
    BY <1>5
  <2> QED BY <2>1, <2>2, <2>3
<1>7. Current = funcs[f].ops[i] /\ Current = NextOp(Top)
  BY <1>4, <1>6 DEF Current, NextOp
<1>8. OperationTyped(Current)
  BY <1>5, <1>6, <1>7 DEF FunctionTyped
<1>9. WellTyped(f, Current) /\ \A v \in Range(Current.args) : Dominates(v, f, i)
  BY <1>1, <1>6, <1>7 DEF IRValid
<1>10. Current.op = "return" <=> i = Len(funcs[f].ops)
  BY <1>1, <1>6, <1>7 DEF IRValid, ReturnsLast
<1> QED BY <1>2, <1>3, <1>4, <1>5, <1>6, <1>7, <1>8, <1>9, <1>10 DEF OperationTyped

\* Its operands have been computed, and have the types it was made for.
LEMMA OperandTyped ==
    ASSUME RunInv, ModuleTyped, phase = "run", NEW j \in DOMAIN Current.args
    PROVE  LET v == Current.args[j]
           IN  /\ IF v.at < 0 THEN -v.at \in DOMAIN Top.args ELSE v.at \in DOMAIN Top.results
               /\ HasType(Operand(j), v.type)
<1>1. PICK v : v = Current.args[j] /\ v \in Value /\ Dominates(v, Top.fn, Len(Top.results) + 1)
  BY CurrentOperation DEF Range
<1>2. v.at \in Int
  BY <1>1 DEF Value
<1>3. /\ Top.args \in Seq(Int) /\ Top.results \in Seq(Int) /\ ActivationOK(Top)
      /\ Len(Top.results) \in Nat /\ Len(Top.args) \in Nat
      /\ DOMAIN Top.args = 1..Len(Top.args) /\ DOMAIN Top.results = 1..Len(Top.results)
  BY CurrentOperation
<1>4. CASE v.at < 0
  <2>1. -v.at \in DOMAIN funcs[Top.fn].params /\ funcs[Top.fn].params[-v.at] = v.type
    BY <1>1, <1>4 DEF Dominates
  <2>2. funcs[Top.fn].params \in Seq(TypeNames)
    BY CurrentOperation DEF FunctionTyped
  <2>3. DOMAIN funcs[Top.fn].params = 1..Len(funcs[Top.fn].params)
    BY <2>2
  <2>4. -v.at \in DOMAIN Top.args
    BY <1>3, <2>1, <2>3 DEF ActivationOK
  <2>5. HasType(Top.args[-v.at], v.type)
    BY <1>3, <2>1, <2>4 DEF ActivationOK
  <2> QED BY <1>1, <1>4, <2>4, <2>5 DEF Operand, ValueOf
<1>5. CASE ~(v.at < 0)
  <2>1. v.at < Len(Top.results) + 1 /\ v.at > 0 /\ funcs[Top.fn].ops[v.at].type = v.type
    BY <1>1, <1>5 DEF Dominates
  <2>2. v.at \in DOMAIN Top.results
    BY <1>2, <1>3, <2>1
  <2>3. HasType(Top.results[v.at], v.type)
    BY <1>3, <2>1, <2>2 DEF ActivationOK
  <2> QED BY <1>1, <1>5, <2>2, <2>3 DEF Operand, ValueOf
<1> QED BY <1>4, <1>5

\* The program can go on.
LEMMA NextExecutable ==
    ASSUME RunInv, ModuleTyped, phase = "run"
    PROVE  Executable
<1>1. Len(Top.results) < Len(funcs[Top.fn].ops)
  BY CurrentOperation DEF ActivationOK
<1>2. ASSUME NEW v \in Range(Current.args) PROVE Present(v)
  <2>1. PICK j \in DOMAIN Current.args : v = Current.args[j]
    BY DEF Range
  <2>2. v.fn = Top.fn
    BY CurrentOperation DEF Dominates
  <2> QED BY <2>1, <2>2, OperandTyped DEF Present
<1> QED BY <1>1, <1>2, CurrentOperation DEF Executable


-----------------------------------------------------------------------------
\* The module does not change any more, so a stack of well formed activations
\* is all that a step has to leave.
LEMMA StackKept ==
    ASSUME funcs' = funcs, IRValid, NEW s, stack' = s,
           s \in Seq([fn : DOMAIN funcs, args : Seq(Int), results : Seq(Int)]),
           Len(s) \in 1..StackLimit,
           \A i \in DOMAIN s : ActivationOK(s[i]),
           \A i \in 1..Len(s) - 1 : Calls(s[i], s[i + 1])
    PROVE  RunInv'
<1>1. IRValid'
  <2>1. SymbolsUnique' /\ \A f : OneBlock(f) => OneBlock(f)'
    BY DEF IRValid, SymbolsUnique, OneBlock
  <2>2. \A f : ReturnsLast(f) => ReturnsLast(f)'
    BY Zenon DEF ReturnsLast
  <2>3. \A f, o : WellTyped(f, o) => WellTyped(f, o)'
    BY Zenon DEF WellTyped, ResultType
  <2>4. \A v, f, i : Dominates(v, f, i) => Dominates(v, f, i)'
    BY Zenon DEF Dominates
  <2> QED BY <2>1, <2>2, <2>3, <2>4 DEF IRValid
<1>2. \A i \in DOMAIN s : ActivationOK(s[i])'
  BY DEF ActivationOK
<1>3. \A i \in 1..Len(s) - 1 : Calls(s[i], s[i + 1])'
  BY DEF Calls, NextOp
<1>4. s # <<>>
  <2>1. Len(<<>>) = 0
    OBVIOUS
  <2> QED BY <2>1
<1>5. Len(s) <= StackLimit
  BY StackAssumption
<1> QED BY <1>1, <1>2, <1>3, <1>4, <1>5 DEF RunInv

\* An activation whose next operation yields v, and is not its last, may go on.
LEMMA ResultKept ==
    ASSUME RunInv, ModuleTyped, phase = "run", funcs' = funcs,
           NEW k \in DOMAIN stack, NEW v \in Int, HasType(v, NextOp(stack[k]).type),
           NextOp(stack[k]).op # "return",
           stack' = Append(SubSeq(stack, 1, k - 1), [stack[k] EXCEPT !.results = Append(@, v)])
    PROVE  RunInv'
<1>1. PICK R : R = [fn : DOMAIN funcs, args : Seq(Int), results : Seq(Int)]
  OBVIOUS
<1>2. /\ stack \in Seq(R) /\ k \in 1..Len(stack) /\ Len(stack) <= StackLimit /\ IRValid
      /\ \A i \in DOMAIN stack : ActivationOK(stack[i])
      /\ \A i \in 1..Len(stack) - 1 : Calls(stack[i], stack[i + 1])
  <2>1. stack \in Seq(R)
    BY <1>1 DEF RunInv
  <2>2. k \in 1..Len(stack)
    BY <2>1
  <2> QED BY <2>1, <2>2, Zenon DEF RunInv
<1>3. PICK a : a = stack[k] /\ a \in R /\ ActivationOK(a)
  BY <1>2
<1>4. PICK b : b = [a EXCEPT !.results = Append(@, v)]
  OBVIOUS
<1>5. b \in R /\ b.fn = a.fn /\ b.args = a.args /\ b.results = Append(a.results, v)
  <2>1. /\ a.fn \in DOMAIN funcs /\ a.args \in Seq(Int) /\ a.results \in Seq(Int)
        /\ DOMAIN a = {"fn", "args", "results"}
        /\ a = [fn |-> a.fn, args |-> a.args, results |-> a.results]
    BY <1>1, <1>3
  <2>2. Append(a.results, v) \in Seq(Int)
    BY <2>1
  <2>3. b = [fn |-> a.fn, args |-> a.args, results |-> Append(a.results, v)]
    BY <1>4, <2>1
  <2> QED BY <1>1, <2>1, <2>2, <2>3
<1>6. ActivationOK(b)
  <2>1. PICK F : F = funcs[a.fn] /\ FunctionTyped(F) /\ ReturnsLast(a.fn) /\ F.ops \in Seq(Range(F.ops))
    BY <1>1, <1>2, <1>3 DEF ModuleTyped, IRValid, FunctionTyped
  <2>2. Len(a.results) \in Nat /\ Len(F.ops) \in Nat /\ DOMAIN F.ops = 1..Len(F.ops)
        /\ Len(b.results) = Len(a.results) + 1 /\ DOMAIN b.results = 1..Len(a.results) + 1
        /\ DOMAIN a.results = 1..Len(a.results)
        /\ b.results[Len(a.results) + 1] = v
        /\ \A i \in 1..Len(a.results) : b.results[i] = a.results[i]
    BY <1>1, <1>3, <1>5, <2>1
  <2>3. Len(a.results) < Len(F.ops)
    BY <1>3, <2>1 DEF ActivationOK
  <2>4. Len(a.results) + 1 # Len(F.ops)
    <3>1. Len(a.results) + 1 \in DOMAIN F.ops
      BY <2>2, <2>3
    <3>2. F.ops[Len(a.results) + 1].op # "return"
      BY <1>3, <2>1 DEF NextOp
    <3>3. \A i \in DOMAIN F.ops : F.ops[i].op = "return" <=> i = Len(F.ops)
      BY <2>1 DEF ReturnsLast
    <3> QED BY <3>1, <3>2, <3>3
  <2>5. HasType(v, F.ops[Len(a.results) + 1].type)
    BY <1>3, <2>1 DEF NextOp
  <2>6. \A i \in DOMAIN b.results : HasType(b.results[i], F.ops[i].type)
    <3>1. \A i \in DOMAIN a.results : HasType(a.results[i], F.ops[i].type)
      BY <1>3, <2>1 DEF ActivationOK
    <3> SUFFICES ASSUME NEW i \in DOMAIN b.results PROVE HasType(b.results[i], F.ops[i].type)
      OBVIOUS
    <3>2. CASE i = Len(a.results) + 1
      BY <2>2, <2>5, <3>2
    <3>3. CASE i \in 1..Len(a.results)
      BY <2>2, <3>1, <3>3
    <3> QED BY <2>2, <3>2, <3>3
  <2>7. Len(b.results) < Len(F.ops)
    BY <2>2, <2>3, <2>4
  <2> QED BY <1>3, <1>5, <2>1, <2>6, <2>7 DEF ActivationOK
<1>7. PICK s : s = stack'
  OBVIOUS
<1>8. /\ s \in Seq(R) /\ Len(s) = k /\ s[k] = b /\ DOMAIN s = 1..k
      /\ \A i \in 1..k - 1 : s[i] = stack[i]
  BY <1>2, <1>3, <1>4, <1>5, <1>7
<1>9. \A i \in DOMAIN s : ActivationOK(s[i])
  <2> SUFFICES ASSUME NEW i \in 1..k PROVE ActivationOK(s[i])
    BY <1>8
  <2>1. CASE i = k
    BY <1>6, <1>8, <2>1
  <2>2. CASE i \in 1..k - 1
    <3>1. i \in DOMAIN stack
      BY <1>2, <2>2
    <3> QED BY ONLY <1>2, <1>8, <2>2, <3>1
  <2> QED BY <1>2, <2>1, <2>2
<1>10. \A i \in 1..k - 1 : Calls(s[i], s[i + 1])
  <2> SUFFICES ASSUME NEW i \in 1..k - 1 PROVE Calls(s[i], s[i + 1])
    OBVIOUS
  <2>1. Calls(stack[i], stack[i + 1])
    BY <1>2
  <2>2. s[i] = stack[i] /\ s[i + 1].fn = stack[i + 1].fn
    <3>1. CASE i + 1 = k
      BY <1>3, <1>5, <1>8, <3>1
    <3>2. CASE i + 1 \in 1..k - 1
      BY <1>8, <3>2
    <3> QED BY <1>2, <1>8, <3>1, <3>2
  <2> QED BY <2>1, <2>2 DEF Calls
<1>11. k \in 1..StackLimit
  BY <1>2, StackAssumption
<1> QED BY <1>1, <1>2, <1>7, <1>8, <1>9, <1>10, <1>11, StackKept


\* An operation with a result of its type lets its function go on.
LEMMA ResultKeeps ==
    ASSUME RunInv, ModuleTyped, phase = "run", UNCHANGED genVars,
           NEW v \in Int, HasType(v, Current.type), Current.op # "return", Result(v)
    PROVE  RunInv'
<1>1. /\ Len(stack) \in Nat \ {0} /\ Top = stack[Len(stack)] /\ Current = NextOp(Top)
      /\ Len(stack) \in DOMAIN stack
  <2>1. stack \in Seq([fn : DOMAIN funcs, args : Seq(Int), results : Seq(Int)])
    BY DEF RunInv
  <2> QED BY <2>1, CurrentOperation
<1>2. stack' = Append(SubSeq(stack, 1, Len(stack) - 1), [Top EXCEPT !.results = Append(@, v)])
  BY DEF Result, Front
<1>3. funcs' = funcs
  BY DEF genVars
<1> QED BY <1>1, <1>2, <1>3, ResultKept

\* A call starts an activation of the one function of its symbol, on arguments
\* of the types that function takes.
LEMMA CallKeeps ==
    ASSUME RunInv, ModuleTyped, phase = "run", UNCHANGED genVars, RunCall, phase' = "run"
    PROVE  RunInv'
<1>1. /\ Current.op = "call" /\ Len(stack) < StackLimit
      /\ stack' = Append(stack, Activation(LookupSymbol(Current.attr),
                                           [i \in DOMAIN Current.args |-> Operand(i)]))
  BY DEF RunCall, Running, Stop
<1>2. PICK g \in DOMAIN funcs :
         /\ funcs[g].sym = Current.attr
         /\ funcs[g].params = TypesOf(Current.args)
  BY <1>1, CurrentOperation DEF WellTyped
<1>3. LookupSymbol(Current.attr) = g
  <2>1. \A f \in DOMAIN funcs : funcs[f].sym = Current.attr => f = g
    BY <1>2 DEF RunInv, IRValid, SymbolsUnique
  <2>2. LookupSymbol(Current.attr) \in {f \in DOMAIN funcs : funcs[f].sym = Current.attr}
    BY <1>2, MinIsLeast DEF LookupSymbol, ModuleTyped
  <2> QED BY <2>1, <2>2
<1>4. PICK args : args = [i \in DOMAIN Current.args |-> Operand(i)]
  OBVIOUS
<1>5. /\ args \in Seq(Int) /\ Len(args) = Len(funcs[g].params)
      /\ \A i \in DOMAIN args : HasType(args[i], funcs[g].params[i])
  <2>1. /\ Current.args \in Seq(Value) /\ DOMAIN Current.args = 1..Len(Current.args)
        /\ Len(Current.args) \in Nat
    BY CurrentOperation
  <2>2. \A i \in DOMAIN Current.args :
           HasType(Operand(i), Current.args[i].type) /\ Operand(i) \in Int
    BY OperandTyped, TypedIsInt
  <2>3. args \in Seq(Int) /\ Len(args) = Len(Current.args) /\ DOMAIN args = DOMAIN Current.args
    BY <1>4, <2>1, <2>2
  <2>4. /\ DOMAIN funcs[g].params = DOMAIN Current.args
        /\ \A i \in DOMAIN Current.args : funcs[g].params[i] = Current.args[i].type
    BY <1>2 DEF TypesOf
  <2>5. funcs[g].params \in Seq(TypeNames)
    BY DEF ModuleTyped, FunctionTyped
  <2>6. Len(funcs[g].params) = Len(Current.args)
    BY <2>1, <2>4, <2>5
  <2> QED BY <1>4, <2>2, <2>3, <2>4, <2>6
<1>6. PICK R : R = [fn : DOMAIN funcs, args : Seq(Int), results : Seq(Int)]
  OBVIOUS
<1>7. PICK b : b = Activation(g, args)
  OBVIOUS
<1>8. b \in R /\ b.fn = g /\ b.args = args /\ b.results = <<>>
  BY <1>5, <1>6, <1>7 DEF Activation
<1>9. ActivationOK(b)
  <2>1. ReturnsLast(g) /\ FunctionTyped(funcs[g])
    BY DEF RunInv, IRValid, ModuleTyped
  <2>2. Len(b.results) = 0 /\ DOMAIN b.results = {}
    BY <1>8
  <2>3. Len(b.results) < Len(funcs[g].ops)
    BY <2>1, <2>2 DEF ReturnsLast, FunctionTyped
  <2> QED BY <1>5, <1>8, <2>2, <2>3, Zenon DEF ActivationOK
<1>10. /\ stack \in Seq(R) /\ Len(stack) \in Nat \ {0} /\ Top = stack[Len(stack)]
       /\ Current = NextOp(Top)
       /\ \A i \in DOMAIN stack : ActivationOK(stack[i])
       /\ \A i \in 1..Len(stack) - 1 : Calls(stack[i], stack[i + 1])
  <2>1. stack \in Seq(R)
    BY <1>6 DEF RunInv
  <2> QED BY <2>1, CurrentOperation, Zenon DEF RunInv
<1>11. PICK s : s = stack'
  OBVIOUS
<1>12. PICK n : n = Len(stack)
  OBVIOUS
<1>13. /\ s \in Seq(R) /\ Len(s) = n + 1 /\ s[n + 1] = b /\ DOMAIN s = 1..n + 1 /\ n \in Nat \ {0}
       /\ DOMAIN stack = 1..n
       /\ \A i \in 1..n : s[i] = stack[i]
  BY <1>1, <1>3, <1>4, <1>7, <1>8, <1>10, <1>11, <1>12
<1>14. \A i \in DOMAIN s : ActivationOK(s[i])
  <2> SUFFICES ASSUME NEW i \in 1..n + 1 PROVE ActivationOK(s[i])
    BY <1>13
  <2>1. CASE i = n + 1
    BY <1>9, <1>13, <2>1
  <2>2. CASE i \in 1..n
    BY ONLY <1>10, <1>13, <2>2
  <2> QED BY <1>13, <2>1, <2>2
<1>15. \A i \in 1..n : Calls(s[i], s[i + 1])
  <2> SUFFICES ASSUME NEW i \in 1..n PROVE Calls(s[i], s[i + 1])
    OBVIOUS
  <2>1. CASE i = n
    <3>1. s[i] = Top /\ s[i + 1].fn = g
      BY <1>8, <1>10, <1>12, <1>13, <2>1
    <3> QED BY <1>1, <1>2, <1>10, <3>1 DEF Calls
  <2>2. CASE i \in 1..n - 1
    <3>1. s[i] = stack[i] /\ s[i + 1] = stack[i + 1]
      BY <1>13, <2>2
    <3> QED BY ONLY <1>10, <1>12, <2>2, <3>1
  <2> QED BY <1>13, <2>1, <2>2
<1>16. Len(s) \in 1..StackLimit
  BY <1>1, <1>12, <1>13, StackAssumption
<1>17. funcs' = funcs /\ IRValid
  BY DEF genVars, RunInv
<1>18. /\ stack' = s /\ s \in Seq([fn : DOMAIN funcs, args : Seq(Int), results : Seq(Int)])
       /\ Len(s) - 1 = n
  BY <1>6, <1>11, <1>13
<1> QED BY <1>14, <1>15, <1>16, <1>17, <1>18, StackKept, Zenon


\* What a function returns is the result that its caller's call has.
LEMMA ReturnedTyped ==
    ASSUME RunInv, ModuleTyped, phase = "run", Current.op = "return",
           NEW a, a.fn \in DOMAIN funcs, WellTyped(a.fn, NextOp(a)), Calls(a, Top)
    PROVE  HasType(Returned, NextOp(a).type)
<1>1. PICK g \in DOMAIN funcs : /\ funcs[g].sym = NextOp(a).attr
                                /\ NextOp(a).type = ResultType(g)
  BY DEF WellTyped, Calls
<1>2. g = Top.fn
  BY <1>1, CurrentOperation DEF Calls, RunInv, IRValid, SymbolsUnique
<1>3. TypesOf(Current.args) = funcs[g].rets
  BY <1>2, CurrentOperation DEF WellTyped
<1>4. PICK args : args = Current.args /\ args \in Seq(Value) /\ DOMAIN args = 1..Len(args)
                  /\ Len(args) \in Nat
  BY CurrentOperation
<1>5. CASE args = <<>>
  <2>1. funcs[g].rets = <<>>
    BY <1>3, <1>4, <1>5 DEF TypesOf
  <2> QED BY <1>1, <1>4, <1>5, <2>1, BoolTyped DEF ResultType, Returned
<1>6. CASE args # <<>>
  <2>1. 1 \in DOMAIN args
    BY <1>4, <1>6
  <2>2. funcs[g].rets # <<>> /\ funcs[g].rets[1] = args[1].type
    BY <1>3, <1>4, <2>1 DEF TypesOf
  <2>3. HasType(Operand(1), args[1].type)
    BY <1>4, <2>1, OperandTyped
  <2> QED BY <1>1, <1>4, <1>6, <2>2, <2>3 DEF ResultType, Returned
<1> QED BY <1>5, <1>6

\* A return ends an activation, and the one below it goes on.
LEMMA ReturnResumes ==
    ASSUME RunInv, ModuleTyped, phase = "run", RunReturn, NEW k, k = Len(stack) - 1
    PROVE  /\ k \in 1..Len(stack) - 1 /\ k \in DOMAIN stack /\ k + 1 = Len(stack)
           /\ Current.op = "return" /\ Calls(stack[k], Top)
           /\ stack' = Append(SubSeq(stack, 1, k - 1),
                              [stack[k] EXCEPT !.results = Append(@, Returned)])
<1>1. PICK R : R = [fn : DOMAIN funcs, args : Seq(Int), results : Seq(Int)]
  OBVIOUS
<1>2. /\ stack \in Seq(R) /\ Top = stack[Len(stack)]
      /\ \A i \in 1..Len(stack) - 1 : Calls(stack[i], stack[i + 1])
  <2>1. stack \in Seq(R)
    BY <1>1 DEF RunInv
  <2> QED BY <2>1, CurrentOperation, Zenon DEF RunInv
<1>3. PICK v : v = Returned
  OBVIOUS
<1>4. /\ k \in 1..Len(stack) - 1 /\ k \in DOMAIN stack /\ Current.op = "return"
      /\ k + 1 = Len(stack) /\ Len(stack) \in Nat
      /\ stack' = [SubSeq(stack, 1, k) EXCEPT ![k].results = Append(@, v)]
  BY <1>2, <1>3 DEF RunReturn, Running, Front
<1>5. PICK a : a = stack[k] /\ a \in R
  BY <1>2, <1>4
<1>6. Calls(stack[k], Top)
  BY ONLY <1>2, <1>4
<1>7. PICK b : b = [a EXCEPT !.results = Append(@, v)]
  OBVIOUS
<1>8. PICK s : s = SubSeq(stack, 1, k) /\ s \in Seq(R) /\ Len(s) = k /\ DOMAIN s = 1..k
               /\ \A i \in 1..k : s[i] = stack[i]
  <2>1. SubSeq(stack, 1, k) = [i \in 1..k |-> stack[i]]
    BY <1>2, <1>4
  <2>2. SubSeq(stack, 1, k) \in Seq(R) /\ Len(SubSeq(stack, 1, k)) = k
    BY <1>2, <1>4
  <2> QED BY <2>1, <2>2
<1>9. stack' = [s EXCEPT ![k] = b]
  BY <1>4, <1>5, <1>7, <1>8
<1>10. PICK t : t = SubSeq(stack, 1, k - 1) /\ t \in Seq(R) /\ Len(t) = k - 1
                /\ \A i \in 1..k - 1 : t[i] = stack[i]
  <2>1. SubSeq(stack, 1, k - 1) = [i \in 1..k - 1 |-> stack[i]]
    BY <1>2, <1>4
  <2>2. SubSeq(stack, 1, k - 1) \in Seq(R) /\ Len(SubSeq(stack, 1, k - 1)) = k - 1
    BY <1>2, <1>4
  <2> QED BY <2>1, <2>2
<1>11. stack' = Append(t, b)
  <2>1. [s EXCEPT ![k] = b] = [i \in 1..k |-> IF i = k THEN b ELSE stack[i]]
    BY <1>8
  <2>2. Append(t, b) = [i \in 1..k |-> IF i = k THEN b ELSE stack[i]]
    BY <1>4, <1>10
  <2> QED BY <1>9, <2>1, <2>2
<1> QED BY <1>3, <1>4, <1>5, <1>6, <1>7, <1>10, <1>11

LEMMA ReturnKeeps ==
    ASSUME RunInv, ModuleTyped, phase = "run", UNCHANGED genVars, RunReturn
    PROVE  RunInv'
<1>1. PICK R : R = [fn : DOMAIN funcs, args : Seq(Int), results : Seq(Int)]
  OBVIOUS
<1>2. PICK k, v : k = Len(stack) - 1 /\ v = Returned
  OBVIOUS
<1>3. /\ k \in DOMAIN stack /\ Current.op = "return" /\ Calls(stack[k], Top)
      /\ stack' = Append(SubSeq(stack, 1, k - 1), [stack[k] EXCEPT !.results = Append(@, v)])
  BY <1>2, ReturnResumes
<1>4. PICK a : a = stack[k] /\ a \in R /\ ActivationOK(a) /\ Calls(a, Top)
  <2>1. stack \in Seq(R) /\ \A i \in DOMAIN stack : ActivationOK(stack[i])
    BY <1>1 DEF RunInv
  <2>2. stack[k] \in R
    BY <1>3, <2>1
  <2> QED BY <1>3, <2>1, <2>2
<1>5. WellTyped(a.fn, NextOp(a)) /\ a.fn \in DOMAIN funcs
  <2>1. FunctionTyped(funcs[a.fn]) /\ a.fn \in DOMAIN funcs
    BY <1>1, <1>4 DEF ModuleTyped
  <2>2. Len(a.results) \in Nat /\ Len(a.results) < Len(funcs[a.fn].ops)
    BY <1>1, <1>4 DEF ActivationOK
  <2>3. Len(a.results) + 1 \in DOMAIN funcs[a.fn].ops
    BY <2>1, <2>2 DEF FunctionTyped
  <2> QED BY <2>1, <2>3 DEF RunInv, IRValid, NextOp
<1>6. HasType(v, NextOp(a).type)
  BY <1>2, <1>3, <1>4, <1>5, ReturnedTyped
<1>7. NextOp(a).op # "return"
  BY <1>4 DEF Calls
<1>8. v \in Int
  BY <1>6, TypedIsInt
<1>9. funcs' = funcs
  BY DEF genVars
<1> QED BY <1>3, <1>4, <1>6, <1>7, <1>8, <1>9, ResultKept


-----------------------------------------------------------------------------
\* The operands of an arithmetic operation or a comparison are two numbers.
LEMMA TwoOperands ==
    ASSUME RunInv, ModuleTyped, phase = "run", Current.op \in ArithOps \cup CmpOps
    PROVE  /\ Operand(1) \in Int /\ Operand(2) \in Int
           /\ Current.op \in ArithOps => Current.type \in IntegerTypes
           /\ Current.op \in CmpOps => Current.type = "i1"
<1>1. PICK t : TypesOf(Current.args) = <<t, t>> /\ t \in IntegerTypes
               /\ (Current.op \in ArithOps => Current.type = t)
               /\ (Current.op \in CmpOps => Current.type = "i1")
  <2>1. CASE Current.op \in ArithOps
    <3>1. Current.op \notin CmpOps
      BY <2>1 DEF ArithOps, CmpOps
    <3>2. TypesOf(Current.args) = <<Current.type, Current.type>>
          /\ TypesOf(Current.args)[1] \in IntegerTypes
      BY <2>1, CurrentOperation DEF WellTyped
    <3> QED BY <3>1, <3>2
  <2>2. CASE Current.op \in CmpOps
    <3>1. Current.op \notin ArithOps
      BY <2>2 DEF ArithOps, CmpOps
    <3>2. PICK u : u = TypesOf(Current.args)[1]
      OBVIOUS
    <3>3. TypesOf(Current.args) = <<u, u>> /\ u \in IntegerTypes /\ Current.type = "i1"
      BY <2>2, <3>2, CurrentOperation DEF WellTyped
    <3> QED BY <3>1, <3>3
  <2> QED BY <2>1, <2>2
<1>2. DOMAIN Current.args = {1, 2}
  <2>1. DOMAIN TypesOf(Current.args) = DOMAIN Current.args
    BY DEF TypesOf
  <2>2. DOMAIN <<t, t>> = {1, 2}
    OBVIOUS
  <2> QED BY <1>1, <2>1, <2>2
<1>3. Operand(1) \in Int /\ Operand(2) \in Int
  BY <1>2, OperandTyped, TypedIsInt
<1> QED BY <1>1, <1>3

\* Every step of the running program leaves one that can go on, or ends it.
LEMMA ExecutionKeeps ==
    ASSUME RunInv, phase \in {"execute", "run"} => ModuleTyped, phase = "execute" => IRValid,
           UNCHANGED genVars, ExecNext
    PROVE  RunInv'
<1>1. SUFFICES ASSUME phase' = "run" PROVE RunInv'
  BY DEF RunInv
<1>2. \A code, reason : ~Stop(code, reason)
  BY <1>1 DEF Stop
<1>3. CASE Invoke
  <2>1. /\ ModuleTyped /\ IRValid /\ stack' = <<Activation(Main, <<>>)>> /\ funcs' = funcs
    BY <1>3 DEF Invoke, genVars
  <2>2. PICK b : b = Activation(Main, <<>>)
    OBVIOUS
  <2>3. b.fn = Main /\ b.args = <<>> /\ b.results = <<>> /\ Main \in DOMAIN funcs
        /\ b \in [fn : DOMAIN funcs, args : Seq(Int), results : Seq(Int)]
    BY <2>1, <2>2 DEF Activation, ModuleTyped
  <2>4. ActivationOK(b)
    <3>1. ReturnsLast(Main) /\ FunctionTyped(funcs[Main]) /\ funcs[Main].params = <<>>
      BY <2>1, <2>3 DEF IRValid, ModuleTyped
    <3>2. Len(b.args) = 0 /\ DOMAIN b.args = {} /\ Len(b.results) = 0 /\ DOMAIN b.results = {}
          /\ Len(funcs[Main].params) = 0
      BY <2>3, <3>1
    <3>3. 0 < Len(funcs[Main].ops)
      BY <3>1 DEF ReturnsLast, FunctionTyped
    <3> QED BY <2>3, <3>2, <3>3 DEF ActivationOK
  <2>5. Len(<<b>>) = 1 /\ DOMAIN <<b>> = {1} /\ <<b>>[1] = b
        /\ <<b>> \in Seq([fn : DOMAIN funcs, args : Seq(Int), results : Seq(Int)])
        /\ 1..Len(<<b>>) - 1 = {} /\ 1 \in 1..StackLimit
    BY <2>3, StackAssumption
  <2> QED BY <2>1, <2>2, <2>4, <2>5, StackKept
<1>4. CASE phase = "run"
  <2>1. ModuleTyped
    BY <1>4
  <2>2. ASSUME NEW v, HasType(v, Current.type), Current.op # "return", Result(v) PROVE RunInv'
    BY <1>4, <2>1, <2>2, ResultKeeps, TypedIsInt
  <2>3. CASE RunConstant
    <3>1. Current.op = "constant" /\ Current.op # "return"
      BY <2>3 DEF RunConstant, Running
    <3>2. Current.type \in IntegerTypes /\ Current.attr[1] \in Int
      BY <1>4, <2>1, <3>1, CurrentOperation DEF WellTyped
    <3> QED BY <2>2, <2>3, <3>1, <3>2, WrapTyped DEF RunConstant
  <2>4. CASE RunArith
    <3>1. Current.op \in ArithOps /\ Current.op # "return"
      BY <2>4 DEF RunArith, Running, ArithOps
    <3>2. Operand(1) \in Int /\ Operand(2) \in Int /\ Current.type \in IntegerTypes
      BY <1>4, <2>1, <3>1, TwoOperands
    <3>3. Arith(Current.op, Operand(1), Operand(2)) \in Int
      BY <2>4, <3>1, <3>2, ArithIsInt DEF RunArith, Undefined
    <3> QED BY <2>2, <2>4, <3>1, <3>2, <3>3, WrapTyped DEF RunArith
  <2>5. CASE RunUndefined
    <3>1. Current.op \in ArithOps /\ Current.op # "return"
      BY <2>5 DEF RunUndefined, Running, ArithOps
    <3>2. Current.type \in IntegerTypes
      BY <1>4, <2>1, <3>1, TwoOperands
    <3>3. PICK v \in Signed(Current.type) : Result(v)
      BY <1>2, <2>5 DEF RunUndefined
    <3> QED BY <2>2, <3>1, <3>2, <3>3 DEF HasType
  <2>6. CASE RunCompare
    <3>1. Current.op \in CmpOps /\ Current.op # "return"
      BY <2>6 DEF RunCompare, Running, CmpOps
    <3>2. Current.type = "i1"
      BY <1>4, <2>1, <3>1, TwoOperands
    <3>3. Result(True) \/ Result(False)
      BY <2>6, Zenon DEF RunCompare
    <3> QED BY <2>2, <3>1, <3>2, <3>3, BoolTyped
  <2>7. CASE RunAssert
    <3>1. Current.op = "assert" /\ Current.op # "return" /\ Result(NoResult)
      BY <1>2, <2>7 DEF RunAssert, Running
    <3>2. Current.type = NoType
      BY <1>4, <2>1, <3>1, CurrentOperation DEF WellTyped
    <3> QED BY <2>2, <3>1, <3>2, BoolTyped
  <2>8. CASE RunCall
    BY <1>1, <1>4, <2>1, <2>8, CallKeeps
  <2>9. CASE RunReturn
    BY <1>4, <2>1, <2>9, ReturnKeeps
  <2>10. ~JITFails /\ ~RunInvalid /\ ~Invoke /\ ~RunIllFormed /\ ~RunEnd
    BY <1>2, <1>4 DEF JITFails, RunInvalid, Invoke, RunIllFormed, RunEnd
  <2> QED BY <2>3, <2>4, <2>5, <2>6, <2>7, <2>8, <2>9, <2>10, Zenon DEF ExecNext
<1>5. phase = "run" \/ Invoke
  BY <1>2 DEF ExecNext, JITFails, RunInvalid, RunIllFormed, RunConstant, RunArith, RunUndefined,
              RunCompare, RunAssert, RunCall, RunReturn, RunEnd, Running
<1> QED BY <1>3, <1>4, <1>5


\* No pass before the last one starts or disturbs the program.
LEMMA PassesDoNotRun ==
    ASSUME Driver \/ ParserNext \/ ResolverNext \/ CheckerNext \/ GenNext(run_tests) \/ Ended
    PROVE  phase' # "run"
<1>1. \A code, reason : Stop(code, reason) => phase' = "done"
  BY DEF Stop
<1>2. \A next : Enter(next) => phase' = next
  BY DEF Enter
<1>3. \A pass, next : next # "run" /\ Verdict(pass, next) => phase' # "run"
  BY <1>1, <1>2 DEF Verdict
<1>4. Step => phase' = phase
  BY DEF Step
<1>5. UNCHANGED runVars => phase' = phase
  BY DEF runVars
<1>6. CASE Driver
  BY <1>1, <1>2, <1>6 DEF Driver, Usage, Start, EmitMLIR, Lower, EmitLLVM
<1>7. CASE ParserNext
  BY <1>1, <1>2, <1>5, <1>7 DEF ParserNext, ParseLet, ParseReturn, ParseExpressionStmt, ParseFn,
     ParseTest, ParseTailExpression, ParseClose, ParseEof, ParseUnreadable, ParseSyntaxError,
     ParseHugeInteger, Reading
<1>8. CASE ResolverNext
  BY <1>1, <1>2, <1>3, <1>4, <1>8 DEF ResolverNext, ResolverBegin, ResolveChildren,
     ResolveIdentifier, ResolveCall, ResolveLet, ResolveBody, ResolveEnd, ResolverReturn, Resolving
<1>9. CASE CheckerNext
  BY <1>1, <1>2, <1>3, <1>4, <1>9 DEF CheckerNext, CheckerBegin, CheckIntLiteral,
     CheckIdentifier, CheckBinaryOperator, CheckCall, CheckIntrinsicCall, CheckLet, CheckReturn,
     CheckModuleReturn, CheckFn, CheckNestedFn, CheckTest, CheckEnd, CheckerReturn, Checking, Infer
<1>10. CASE GenNext(run_tests)
  BY <1>1, <1>2, <1>4, <1>10 DEF GenNext, GenBegin, GenIntLiteral, GenIdentifier,
     GenBinaryOperator, GenCall, GenIntrinsicCall, GenLet, GenReturn, GenFn, GenTest, GenEnd,
     GenFinish, Generating, Create, EnterBody
<1>11. CASE Ended
  BY <1>5, <1>11 DEF Ended
<1> QED BY <1>6, <1>7, <1>8, <1>9, <1>10, <1>11

\* Every step of the compiler and of its program keeps ExecutionInv: a module of a
\* source without a Gap is valid when it is invoked.
LEMMA StepExecutionInv ==
    TypeInv /\ SoundnessInv /\ ExecutionInv /\ [Next]_vars => ExecutionInv'
<1> SUFFICES ASSUME TypeInv, SoundnessInv, ExecutionInv, [Next]_vars, ~Gap' PROVE RunInv'
  BY DEF ExecutionInv
<1>1. phase \in {"execute", "run"} => ModuleTyped
  BY DEF TypeInv, GenerateTypes
<1>2. UNCHANGED <<ast, path, ty>> => ~Gap /\ RunInv /\ (phase = "execute" => IRValid)
  <2> SUFFICES ASSUME UNCHANGED <<ast, path, ty>>
               PROVE  ~Gap /\ RunInv /\ (phase = "execute" => IRValid)
    OBVIOUS
  <2>1. ~Gap
    BY GapStays
  <2> QED BY <2>1 DEF ExecutionInv, SoundnessInv, AcceptedIsSound
<1>3. CASE UNCHANGED vars
  <2>1. phase' = phase /\ stack' = stack /\ funcs' = funcs /\ RunInv
    BY <1>2, <1>3 DEF vars, runVars, genVars, parserVars, checkerVars
  <2>2. ASSUME phase = "run" PROVE RunInv'
    <3>1. PICK s : s = stack
      OBVIOUS
    <3>2. /\ s \in Seq([fn : DOMAIN funcs, args : Seq(Int), results : Seq(Int)])
          /\ Len(s) <= StackLimit /\ IRValid
          /\ \A i \in DOMAIN s : ActivationOK(s[i])
          /\ \A i \in 1..Len(s) - 1 : Calls(s[i], s[i + 1])
      BY <2>1, <2>2, <3>1, Zenon DEF RunInv
    <3>3. Len(s) \in Nat \ {0}
      BY <1>1, <2>1, <2>2, <3>1, CurrentOperation
    <3>4. Len(s) \in 1..StackLimit
      BY <3>2, <3>3, StackAssumption
    <3> QED BY <2>1, <3>1, <3>2, <3>4, StackKept
  <2> QED BY <2>1, <2>2 DEF RunInv
<1>4. CASE Execute /\ UNCHANGED <<parserVars, resolverVars, checkerVars, genVars, argv>>
  <2>1. UNCHANGED <<ast, path, ty, genVars>>
    BY <1>4 DEF parserVars, checkerVars
  <2> QED BY <1>1, <1>2, <1>4, <2>1, ExecutionKeeps DEF Execute
<1>5. CASE Driver \/ ParserNext \/ ResolverNext \/ CheckerNext \/ GenNext(run_tests) \/ Ended
  BY <1>5, PassesDoNotRun DEF RunInv
<1> QED BY <1>3, <1>4, <1>5, Zenon DEF Next

\* For every source without a Gap, width of the integers and depth of the stack:
\* the module that runs is valid, though nothing verifies it, and the activations
\* are of its functions, each with arguments and results of the types the module
\* says, and each but the last at the call that made the next.
THEOREM Activations == Spec => []ExecutionInv
<1>1. Init => ExecutionInv
  BY DEF Init, ExecutionInv, RunInv
<1>2. TypeInv /\ SoundnessInv /\ ExecutionInv /\ [Next]_vars => ExecutionInv'
  BY StepExecutionInv
<1> QED BY <1>1, <1>2, Typing, Soundness, PTL DEF Spec

\* The program of a source without a Gap reads only values that exist, each one of
\* its type, though nothing at run time checks it and nothing has verified it.
THEOREM OperandTypes == Spec => []OperandsAreTyped
<1>1. TypeInv /\ ExecutionInv => OperandsAreTyped
  <2> SUFFICES ASSUME TypeInv, ExecutionInv, phase = "run", ~Gap
               PROVE  /\ Executable
                      /\ \A i \in DOMAIN Current.args : HasType(Operand(i), Current.args[i].type)
    BY DEF OperandsAreTyped
  <2>1. RunInv /\ ModuleTyped
    BY DEF ExecutionInv, TypeInv, GenerateTypes
  <2> QED BY <2>1, NextExecutable, OperandTyped
<1> QED BY <1>1, Activations, Typing, PTL
=============================================================================
