----------------------------- MODULE IRVerifier -----------------------------
(***************************************************************************)
(* What MLIR's verifier demands of the module MLIRGenerator builds.  MLIR   *)
(* is outside the repository: the rules are those of the builtin, func,     *)
(* arith and cf operations the generator creates.                           *)
(***************************************************************************)
EXTENDS MLIRGenerator

TypesOf(values) == [i \in DOMAIN values |-> values[i].type]

\* The symbols of a module are unique, and a public function has a body; the
\* bodies the generator builds do not branch, so a second block is dead.
SymbolsUnique ==
    \A f, g \in DOMAIN funcs : funcs[f].sym = funcs[g].sym => f = g

OneBlock(f) == funcs[f].blocks = 1

\* A block ends with a terminator, and has no other.
ReturnsLast(f) ==
    LET ops == funcs[f].ops
    IN  ops # <<>> /\ \A i \in DOMAIN ops : ops[i].op = "return" <=> i = Len(ops)

\* v is a value of function f that is defined before operation i.
Dominates(v, f, i) ==
    /\ v.fn = f
    /\ v.at < i
    /\ IF v.at < 0 THEN -v.at \in DOMAIN funcs[f].params /\ funcs[f].params[-v.at] = v.type
                   ELSE v.at > 0 /\ funcs[f].ops[v.at].type = v.type

\* The type of a call's result; a function has at most one.
ResultType(g) == IF funcs[g].rets = <<>> THEN NoType ELSE funcs[g].rets[1]

WellTyped(f, o) ==
    LET types == TypesOf(o.args)
    IN  /\ o.op \in ArithOps =>
               types[1] \in IntegerTypes /\ types = <<o.type, o.type>>
        /\ o.op \in CmpOps =>
               types[1] \in IntegerTypes /\ types = <<types[1], types[1]>> /\ o.type = "i1"
        /\ o.op = "constant" => o.type \in IntegerTypes
        /\ o.op = "assert" => types = <<"i1">> /\ o.type = NoType
        /\ o.op = "call"   => \E g \in DOMAIN funcs :
                                  /\ funcs[g].sym = o.attr
                                  /\ funcs[g].params = types
                                  /\ o.type = ResultType(g)
        /\ o.op = "return" => types = funcs[f].rets

IRValid ==
    /\ SymbolsUnique
    /\ \A f \in DOMAIN funcs :
        /\ OneBlock(f)
        /\ ReturnsLast(f)
        /\ \A i \in DOMAIN funcs[f].ops :
            /\ WellTyped(f, funcs[f].ops[i])
            /\ \A v \in Range(funcs[f].ops[i].args) : Dominates(v, f, i)
=============================================================================
