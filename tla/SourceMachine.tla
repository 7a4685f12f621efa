---------------------------- MODULE SourceMachine ----------------------------
(***************************************************************************)
(* What a program promises to do, as a machine that walks its tree: it      *)
(* knows the bodies, their steps, and the binder of each name, and nothing  *)
(* of operations, symbols, value_map or blocks.  The machine is idle until  *)
(* the program starts, if it ever does; meanwhile the source may change.    *)
(***************************************************************************)
EXTENDS SourceSteps, Arithmetic

CONSTANT StackLimit  \* bound: how many calls may be under way

VARIABLES
    ty,       \* the type of each node
    testing,  \* the tests are to be run
    machine,  \* "idle", "running", or how it ended
    calls,    \* the calls under way, that of the module's code first
    ran       \* the tests that have run

sourceVars  == <<ast, path, ty, testing>>
machineVars == <<machine, calls, ran>>

Init == machine = "idle"

\* A call [fn, args, at, values]: `at` is the step it stands at, `values` the
\* value of every node before that has one.  Its i-th operand there:
Arg(c, i) == c.values[Kid(c.at, i)]

\* The value of the variable at node n in call c: that of the last `let` of the
\* name in the body before it, or else of the last parameter of the name.
Variable(c, n) ==
    LET x == ast[n].name
        b == Binder(x, n)
    IN  IF ast[b].k = "let"
          THEN c.values[b - 1]
          ELSE c.args[Max({i \in DOMAIN ast[b].params : ast[b].params[i].name = x})]

\* Call c has a value for each node before the step it stands at, and each name
\* the value of its variable.
Evaluated(c) ==
    /\ DOMAIN c.values = ValueNodes(Body(c.fn), c.at)
    /\ \A n \in DOMAIN c.values : ast[n].k = "ident" => c.values[n] = Variable(c, n)

\* c is a call of d that begins.
Begins(c, d, args) ==
    /\ c = [fn |-> d, args |-> args, at |-> StepAfter(Body(d), 0), values |-> c.values]
    /\ Evaluated(c)

\* d is call c after its step, whose value, if it has one, is v.
Advances(c, d, v) ==
    /\ d = [c EXCEPT !.at = StepAfter(Body(c.fn), c.at), !.values = d.values]
    /\ Evaluated(d)
    /\ \A n \in DOMAIN c.values : d.values[n] = c.values[n]
    /\ c.at \in DOMAIN d.values => d.values[c.at] = v

-----------------------------------------------------------------------------
\* The compiler is at work; no call is under way that `calls` could tell of.
Compile == machine = "idle" /\ UNCHANGED machine

Start ==
    /\ machine = "idle"
    /\ machine' = "running"
    /\ calls' = <<calls'[1]>> /\ Begins(calls'[1], ModuleScope, <<>>)
    /\ ran' = {}

\* Call c stands at a node of kind k.
StandsAt(c, k) == c.at \in Nodes /\ ast[c.at].k = k

\* The call c under way goes on, its step having had the value v.
Value(c, v) ==
    /\ LET next == calls'
       IN  next = Append(Front(calls), Last(next)) /\ Advances(c, Last(next), v)
    /\ UNCHANGED <<machine, ran>>

Ends(how) == machine' = how /\ UNCHANGED <<calls, ran>>

EvalLiteral(c) == StandsAt(c, "int") /\ Value(c, Wrap(ast[c.at].value, ty[c.at]))

Divides(c) == ast[c.at].op = "/" /\ Undefined(Arg(c, 1), Arg(c, 2), ty[c.at])

EvalOperator(c) ==
    /\ StandsAt(c, "bin")
    /\ LET o == ast[c.at].op
       IN  IF o \in CmpOps
             THEN Value(c, IF Holds(o, Arg(c, 1), Arg(c, 2)) THEN True ELSE False)
             ELSE ~Divides(c) /\ Value(c, Wrap(Arith(o, Arg(c, 1), Arg(c, 2)), ty[c.at]))

\* A division without a result has any, or ends the program.
EvalUndefined(c) ==
    /\ StandsAt(c, "bin")
    /\ Divides(c)
    /\ Ends("division") \/ \E v \in Signed(ty[c.at]) : Value(c, v)

EvalAssert(c) ==
    /\ StandsAt(c, "intrinsic")
    /\ IF Arg(c, 1) = True THEN Value(c, NoResult) ELSE Ends("abort")

\* Declaration d is called.
CallOf(d, args) ==
    IF Len(calls) < StackLimit
      THEN /\ LET next == calls'
              IN  next = Append(calls, Last(next)) /\ Begins(Last(next), d, args)
           /\ UNCHANGED <<machine, ran>>
      ELSE Ends("stack")

EvalCall(c) ==
    /\ StandsAt(c, "call")
    /\ \E d \in TopLevelFns :
          /\ ast[d].name = ast[c.at].name
          /\ CallOf(d, [i \in DOMAIN ast[c.at].kids |-> Arg(c, i)])

\* A function gives its caller a value; a test has run.
EvalReturn(c) ==
    /\ StandsAt(c, "return") \/ StandsAt(c, "end")
    /\ Len(calls) > 1
    /\ IF c.fn \in TestDecls
         THEN calls' = Front(calls) /\ ran' = ran \cup {c.fn}
         ELSE /\ LET next  == calls'
                     value == IF ast[c.at].k = "return" /\ ast[c.at].expr
                                THEN c.values[c.at - 1] ELSE NoResult
                 IN  /\ next = Append(Front(Front(calls)), Last(next))
                     /\ Advances(Last(Front(calls)), Last(next), value)
              /\ UNCHANGED ran
    /\ UNCHANGED machine

\* The module's code is done: the tests run one after the other, as they stand.
AtEnd(c) == c.fn = ModuleScope /\ c.at = Len(ast) + 1

ToRun == IF testing THEN TestDecls \ ran ELSE {}

RunTest(c) == AtEnd(c) /\ ToRun # {} /\ CallOf(Min(ToRun), <<>>)

Finish(c) == AtEnd(c) /\ ToRun = {} /\ Ends("returned")

Run ==
    /\ machine = "running"
    /\ LET c == Last(calls)
       IN  \/ EvalLiteral(c)
           \/ EvalOperator(c)
           \/ EvalUndefined(c)
           \/ EvalAssert(c)
           \/ EvalCall(c)
           \/ EvalReturn(c)
           \/ RunTest(c)
           \/ Finish(c)

Next == Compile \/ ((Start \/ Run) /\ UNCHANGED sourceVars)

Spec == Init /\ [][Next]_<<sourceVars, machineVars>>
=============================================================================
