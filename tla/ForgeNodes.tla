----------------------------- MODULE ForgeNodes -----------------------------
(***************************************************************************)
(* The nodes of Forge's abstract syntax tree (include/forge/Frontend/AST.h). *)
(*                                                                         *)
(* All three passes over the tree visit the children of a node from left    *)
(* to right and then act on the node, so a tree is kept flattened in that   *)
(* order: an expression is a sequence of nodes that ends with its root, and *)
(* `kids` holds how far back each child's root is.  FunctionDecl and        *)
(* TestDecl, whose handlers act both before and after their body, are a     *)
(* "fn" or "test" node, the body and an "end" node.                         *)
(***************************************************************************)
EXTENDS Integers, SequencesExt

NoAnnotation == "-"
Indirect     == "()"   \* a callee that is not an identifier

ArithOps == {"+", "-", "*", "/"}
CmpOps   == {"==", "!=", "<", "<=", ">", ">="}

IntLiteral(v)               == [k |-> "int", value |-> v]
Identifier(x)               == [k |-> "ident", name |-> x]
BinaryOperator(o, lhs, rhs) == [k |-> "bin", op |-> o, kids |-> <<lhs, rhs>>]
Call(f, args)               == [k |-> "call", name |-> f, kids |-> args]
IntrinsicCall(f, args)      == [k |-> "intrinsic", name |-> f, kids |-> args]
LetBinding(b)               == [k |-> "let", name |-> b.name, type |-> b.type]
ReturnStmt(hasExpr)         == [k |-> "return", expr |-> hasExpr]
FunctionDecl(s) == [k |-> "fn", name |-> s.name, params |-> s.params, ret |-> s.ret]
TestDecl                    == [k |-> "test"]
End                         == [k |-> "end"]

Kids == Seq(Nat \ {0})

ExprNode ==
         [k : {"int"}, value : Nat]
    \cup [k : {"ident"}, name : STRING]
    \cup [k : {"bin"}, op : ArithOps \cup CmpOps, kids : Kids]
    \cup [k : {"call", "intrinsic"}, name : STRING, kids : Kids]

Params == Seq([name : STRING, type : STRING])

Node ==
    ExprNode
    \cup [k : {"let"}, name : STRING, type : STRING]
    \cup [k : {"return"}, expr : BOOLEAN]
    \cup [k : {"fn"}, name : STRING, params : Params, ret : STRING]
    \cup [k : {"test", "end"}]

\* The expressions convert() may return: not empty, a child precedes its parent
\* and an operator has two of them.
WellFormed(e) ==
    /\ e \in Seq(ExprNode) \ {<<>>}
    /\ \A i \in 1..Len(e) :
        /\ "kids" \in DOMAIN e[i] => \A d \in Range(e[i].kids) : d < i
        /\ e[i].k = "bin" => Len(e[i].kids) = 2
=============================================================================
