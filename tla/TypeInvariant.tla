--------------------------- MODULE TypeInvariant ---------------------------
(***************************************************************************)
(* What every pass may assume of the tables that the passes before it left: *)
(* the inductive invariant behind TypeOK, and the shape of a module that    *)
(* the running program rests on.                                           *)
(***************************************************************************)
EXTENDS ScopingInvariant

\* The operands of node n precede it, and so does the value it binds or returns.
OperandsPrecede(n) ==
    /\ "kids" \in DOMAIN ast[n] => \A i \in DOMAIN ast[n].kids : Kid(n, i) \in 1..n - 1
    /\ ast[n].k = "bin" => Len(ast[n].kids) = 2
    /\ ast[n].k = "let" \/ (ast[n].k = "return" /\ ast[n].expr) => n > 1

\* infer() has a type for each node before the cursor.
CheckTypes ==
    /\ phase \in {"start", "parse", "resolve"} => return_type = <<>> /\ ty = <<>>
    /\ \A f \in DOMAIN function_signatures : function_signatures[f].ret \in TypeNames
    /\ phase = "check" =>
        /\ Len(ty) = IF pos = 0 THEN 0 ELSE pos - 1
        /\ pos = 0 => return_type = <<>>
        /\ ReturnTypesMirrorNesting

\* Operations on values, in functions on types.
OperationTyped(o) == o.args \in Seq(Value) /\ (o.op = "constant" => o.attr[1] \in Int)

FunctionTyped(F) ==
    /\ DOMAIN F = {"sym", "params", "rets", "blocks", "ops"}
    /\ F.params \in Seq(TypeNames) /\ F.rets \in Seq(TypeNames)
    /\ F.ops \in Seq(Range(F.ops))
    /\ \A i \in DOMAIN F.ops : OperationTyped(F.ops[i])

ModuleTyped ==
    /\ DOMAIN funcs \subseteq Nat
    /\ Main \in DOMAIN funcs /\ funcs[Main].params = <<>>
    /\ \A f \in DOMAIN funcs : FunctionTyped(funcs[f])

\* generate() has a value for each node before the cursor; the insertion point
\* is in a function of the module, and so are those that will be restored.
GenerateTypes ==
    /\ phase \in {"start", "parse", "resolve", "check"} => vals = <<>> /\ test_symbols = <<>>
    /\ phase = "generate" /\ pos = 0 => vals = <<>> /\ test_symbols = <<>>
    /\ phase = "generate" /\ pos > 0 =>
        /\ Len(vals) = pos - 1 /\ test_symbols \in Seq(Range(test_symbols))
        /\ ip.fn \in DOMAIN funcs
        /\ \A i \in DOMAIN frames :
              frames[i].ip.fn \in DOMAIN funcs /\ Range(frames[i].value_map) \subseteq Value
        /\ ModuleTyped
    /\ phase \in {"lower", "execute", "run"} => ModuleTyped

TypeInv ==
    /\ TypeOK
    /\ \A n \in Nodes : OperandsPrecede(n)
    /\ CheckTypes
    /\ GenerateTypes
=============================================================================
