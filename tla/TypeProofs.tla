----------------------------- MODULE TypeProofs -----------------------------
(***************************************************************************)
(* TypeInv is an invariant, for every source and every bound: each pass     *)
(* finds the tables of the passes before it well formed.  It is inductive   *)
(* only together with IInv, whose proof is in ForgeProofs.                  *)
(***************************************************************************)
EXTENDS TypeInvariant, ForgeProofs, WellFoundedInduction

\* Of some numbers one is the least, so that LookupSymbol finds a function.
LEMMA MinIsLeast ==
    ASSUME NEW S, S \subseteq Nat, S # {}
    PROVE  Min(S) \in S /\ \A x \in S : Min(S) <= x
<1> DEFINE R == {ss \in Nat \X Nat : ss[1] < ss[2]}
<1>1. IsWellFoundedOn(R, Nat)
  <2>1. OpToRel(<, Nat) = R
    BY DEF OpToRel
  <2>2. IsWellFoundedOn(OpToRel(<, Nat), Nat)
    BY NatLessThanWellFounded
  <2> HIDE DEF R
  <2> QED BY <2>1, <2>2
<1>2. PICK x \in S : \A y \in S : ~(<<y, x>> \in R)
  <2> HIDE DEF R
  <2> QED BY <1>1, WFMin
<1>3. ASSUME NEW y \in S PROVE x =< y
  <2>1. ~(y < x)
    BY <1>2
  <2> QED BY <2>1
<1> QED BY <1>3 DEF Min

\* Of some indices of a list one is the last, so that EntryArguments finds a
\* parameter of each name.
LEMMA MaxIsMember ==
    ASSUME NEW n \in Nat, NEW S, S \subseteq 1..n, S # {}
    PROVE  Max(S) \in S
<1> DEFINE R == {ss \in Nat \X Nat : ss[1] < ss[2]}
           T == {i \in Nat : n - i \in S}
<1>1. IsWellFoundedOn(R, Nat)
  <2>1. OpToRel(<, Nat) = R
    BY DEF OpToRel
  <2>2. IsWellFoundedOn(OpToRel(<, Nat), Nat)
    BY NatLessThanWellFounded
  <2> HIDE DEF R
  <2> QED BY <2>1, <2>2
<1>2. T \subseteq Nat /\ T # {}
  <2>1. PICK i \in S : TRUE
    OBVIOUS
  <2>2. n - i \in T
    BY <2>1
  <2> QED BY <2>2
<1>3. PICK t \in T : \A u \in T : ~(<<u, t>> \in R)
  <2> HIDE DEF R, T
  <2> QED BY <1>1, <1>2, WFMin
<1>4. ASSUME NEW j \in S PROVE n - t >= j
  <2>1. n - j \in T
    BY <1>4
  <2>2. ~(n - j < t)
    BY <1>3, <2>1
  <2> QED BY <2>2
<1>5. n - t \in S /\ \A j \in S : n - t >= j
  BY <1>3, <1>4
<1> QED BY <1>5 DEF Max

\* Every name of a type, known or not, is resolved to a type or to none.
LEMMA ResolveTyped == \A name : Resolve(name) \in TypeNames
  BY DEF Resolve, type_registry, TypeNames, Types, IntegerTypes, Floats
-----------------------------------------------------------------------------
\* Nodes that may join a tree: their operands are among themselves.
Closed(nodes) ==
    /\ nodes \in Seq(Node)
    /\ \A i \in 1..Len(nodes) :
        /\ "kids" \in DOMAIN nodes[i] => \A d \in Range(nodes[i].kids) : d < i
        /\ nodes[i].k = "bin" => Len(nodes[i].kids) = 2
        /\ nodes[i].k = "let" \/ (nodes[i].k = "return" /\ nodes[i].expr) => i > 1

\* The children of a node are how far back a number of nodes stand.
LEMMA KidsOfNode ==
    ASSUME NEW n \in Node
    PROVE  "kids" \in DOMAIN n => n.kids \in Seq(Nat \ {0})
  BY DEF Node, ExprNode, Kids

\* Joining them to the tree keeps every operand before its operation.
LEMMA PutKeepsOperands ==
    ASSUME ast \in Seq(Node), NEW nodes, Closed(nodes), Put(nodes),
           \A n \in Nodes : OperandsPrecede(n)
    PROVE  \A n \in Nodes' : OperandsPrecede(n)'
<1>1. /\ ast' = ast \o nodes /\ nodes \in Seq(Node) /\ Len(ast) \in Nat /\ Len(nodes) \in Nat
      /\ Len(ast') = Len(ast) + Len(nodes)
      /\ \A n \in 1..Len(ast) : ast'[n] = ast[n]
      /\ \A i \in 1..Len(nodes) : ast'[Len(ast) + i] = nodes[i]
  BY DEF Put, Closed
<1> SUFFICES ASSUME NEW n \in Nodes' PROVE OperandsPrecede(n)'
  OBVIOUS
<1>2. CASE n \in 1..Len(ast)
  <2>1. n \in Nodes /\ ast'[n] = ast[n]
    BY <1>1, <1>2 DEF Nodes
  <2> QED BY <2>1 DEF OperandsPrecede, Kid
<1>3. CASE n \notin 1..Len(ast)
  <2>1. PICK i \in 1..Len(nodes) : n = Len(ast) + i
    <3>1. n - Len(ast) \in 1..Len(nodes) /\ n = Len(ast) + (n - Len(ast))
      BY <1>1, <1>3 DEF Nodes
    <3> QED BY <3>1
  <2>2. ast'[n] = nodes[i] /\ nodes[i] \in Node
    BY <1>1, <2>1
  <2>3. ASSUME "kids" \in DOMAIN nodes[i], NEW c \in DOMAIN nodes[i].kids
        PROVE  n - nodes[i].kids[c] \in 1..n - 1
    <3>1. nodes[i].kids[c] \in Nat \ {0}
      BY <2>2, <2>3, KidsOfNode
    <3>2. nodes[i].kids[c] < i
      BY <2>1, <2>3 DEF Closed, Range
    <3> QED BY <1>1, <2>1, <3>1, <3>2, SMTT(20)
  <2>4. nodes[i].k = "let" \/ (nodes[i].k = "return" /\ nodes[i].expr) => n > 1
    BY <1>1, <2>1 DEF Closed
  <2>5. nodes[i].k = "bin" => Len(nodes[i].kids) = 2
    BY <2>1 DEF Closed
  <2> QED BY <2>2, <2>3, <2>4, <2>5 DEF OperandsPrecede, Kid
<1> QED BY <1>2, <1>3

\* An expression is closed, and so is the statement that takes its value.
LEMMA ExpressionsAreClosed ==
    ASSUME NEW e \in Expressions
    PROVE  /\ Closed(e)
           /\ \A n \in Node : n.k \in {"let", "return"} => Closed(Append(e, n))
<1>1. /\ e \in Seq(Node) /\ Len(e) \in Nat \ {0} /\ e \in Seq(ExprNode)
      /\ \A i \in 1..Len(e) : e[i].k \notin {"let", "return"}
  <2>1. e \in Seq(ExprNode)
    BY SourceAssumption DEF WellFormed
  <2>2. \A x \in ExprNode : x.k \notin {"let", "return"}
    BY DEF ExprNode
  <2> QED BY <2>1, <2>2, ExpressionNodes
<1>2. Closed(e)
  BY <1>1, SourceAssumption DEF WellFormed, Closed
<1>3. ASSUME NEW n \in Node, n.k \in {"let", "return"} PROVE Closed(Append(e, n))
  <2> DEFINE nodes == Append(e, n)
  <2>1. /\ nodes \in Seq(Node) /\ Len(nodes) = Len(e) + 1 /\ nodes[Len(e) + 1] = n
        /\ \A i \in 1..Len(e) : nodes[i] = e[i]
    BY <1>1
  <2>2. "kids" \notin DOMAIN n
    BY <1>3 DEF Node, ExprNode
  <2> HIDE DEF nodes
  <2>3. ASSUME NEW i \in 1..Len(nodes)
        PROVE  /\ "kids" \in DOMAIN nodes[i] => \A d \in Range(nodes[i].kids) : d < i
               /\ nodes[i].k = "bin" => Len(nodes[i].kids) = 2
               /\ nodes[i].k = "let" \/ (nodes[i].k = "return" /\ nodes[i].expr) => i > 1
    <3>1. CASE i \in 1..Len(e)
      BY <1>2, <2>1, <3>1 DEF Closed
    <3>2. CASE i = Len(e) + 1
      BY <1>1, <1>3, <2>1, <2>2, <3>2
    <3> QED BY <1>1, <2>1, <3>1, <3>2
  <2>4. Closed(nodes)
    BY <2>1, <2>3 DEF Closed
  <2> QED BY <2>4 DEF nodes
<1> QED BY <1>2, <1>3

\* Every production of the parser keeps TypeInv: the tables of the passes after
\* it are still empty.
LEMMA ParserKeepsTypes ==
    ASSUME IInv, IInv', TypeInv, ParserNext,
           UNCHANGED <<resolverVars, checkerVars, genVars, argv>>
    PROVE  TypeInv'
<1>1. phase = "parse" /\ ast \in Seq(Node) /\ open \in Seq(Nat)
  BY DEF IInv, TreeInv, ParserNext, ParseLet, ParseReturn, ParseExpressionStmt, ParseFn,
     ParseTest, ParseTailExpression, ParseClose, ParseEof, ParseUnreadable, ParseSyntaxError,
     ParseHugeInteger, Reading
<1>2. ty = <<>> /\ vals = <<>> /\ return_type = <<>> /\ test_symbols = <<>>
  BY <1>1 DEF TypeInv, CheckTypes, GenerateTypes
<1>3. ASSUME \A n \in Nodes' : OperandsPrecede(n)', tail' \in BOOLEAN,
             phase' \in {"parse", "resolve", "done"}, pos' \in Nat, has_errors' \in BOOLEAN,
             exit' \in {"none", "success", "failure", "crash"}, why' \in Reasons
      PROVE  TypeInv'
  <2>1. /\ (ast \in Seq(Node) /\ path \in Seq(Seq(Nat)) /\ Len(path) = Len(ast))'
        /\ (open \in Seq(Nat))'
    BY DEF IInv, TreeInv
  <2>2. Len(ast') \in Nat /\ Len(<<>>) = 0
    BY <2>1
  <2>3. UNCHANGED <<argv, variables, functions, saved, symbol_types, function_signatures,
                    return_type, ty, vals, value_map, funcs, ip, frames, test_symbols>>
    BY DEF resolverVars, checkerVars, genVars
  <2>4. TypeOK'
    BY <1>2, <1>3, <2>1, <2>2, <2>3 DEF TypeInv, TypeOK, Phases
  <2>5. CheckTypes' /\ GenerateTypes'
    BY <1>2, <1>3, <2>3 DEF TypeInv, CheckTypes, GenerateTypes
  <2> QED BY <1>3, <2>4, <2>5 DEF TypeInv
<1>4. /\ pos \in Nat /\ has_errors \in BOOLEAN /\ tail \in BOOLEAN /\ why \in Reasons
      /\ exit \in {"none", "success", "failure", "crash"}
  BY DEF TypeInv, TypeOK
<1>5. ASSUME NEW nodes, Closed(nodes), Put(nodes), UNCHANGED runVars, tail' \in BOOLEAN
      PROVE  TypeInv'
  <2>1. \A n \in Nodes' : OperandsPrecede(n)'
    BY <1>1, <1>5, PutKeepsOperands DEF TypeInv
  <2> QED BY <1>1, <1>3, <1>4, <1>5, <2>1 DEF runVars
<1>6. ASSUME UNCHANGED <<parserVars>>, phase' \in {"parse", "resolve", "done"}, pos' \in Nat,
             has_errors' \in BOOLEAN,
             exit' \in {"none", "success", "failure", "crash"}, why' \in Reasons
      PROVE  TypeInv'
  <2>1. UNCHANGED <<ast, tail>>
    BY <1>6 DEF parserVars
  <2>2. \A n \in Nodes' : OperandsPrecede(n)'
    BY <2>1 DEF TypeInv, OperandsPrecede, Kid, Nodes
  <2> QED BY <1>3, <1>4, <1>6, <2>1, <2>2
<1>7. \A flag \in BOOLEAN : ReturnStmt(flag) \in Node /\ ReturnStmt(flag).k = "return"
  BY DEF ReturnStmt, Node
<1>8. CASE ParseLet
  <2>1. PICK e \in Expressions, b \in Bindings : Put(Append(e, LetBinding(b)))
    BY <1>8 DEF ParseLet
  <2>2. LetBinding(b) \in Node /\ LetBinding(b).k = "let"
    BY SourceAssumption DEF LetBinding, Node
  <2>3. Closed(Append(e, LetBinding(b)))
    BY <2>2, ExpressionsAreClosed
  <2> QED BY <1>1, <1>4, <1>5, <1>8, <2>1, <2>3 DEF ParseLet, parserVars
<1>9. CASE ParseReturn
  <2>1. PICK e \in Expressions : Put(Append(e, ReturnStmt(TRUE)))
    BY <1>9 DEF ParseReturn
  <2>2. Closed(Append(e, ReturnStmt(TRUE)))
    BY <1>7, ExpressionsAreClosed
  <2> QED BY <1>4, <1>5, <1>9, <2>1, <2>2 DEF ParseReturn
<1>10. CASE ParseExpressionStmt
  <2>1. PICK e \in Expressions : Put(e)
    BY <1>10 DEF ParseExpressionStmt
  <2> QED BY <1>4, <1>5, <1>10, <2>1, ExpressionsAreClosed DEF ParseExpressionStmt
<1>11. ASSUME NEW n \in Node, n.k \in {"fn", "test", "end"} PROVE Closed(<<n>>)
  <2>1. <<n>> \in Seq(Node) /\ Len(<<n>>) = 1 /\ <<n>>[1] = n
    OBVIOUS
  <2>2. "kids" \notin DOMAIN n
    BY <1>11 DEF Node, ExprNode
  <2> QED BY <1>11, <2>1, <2>2 DEF Closed
<1>12. CASE ParseFn
  <2>1. PICK s \in Signatures : Put(<<FunctionDecl(s)>>)
    BY <1>12 DEF ParseFn
  <2>2. FunctionDecl(s) \in Node /\ FunctionDecl(s).k = "fn"
    BY SourceAssumption DEF FunctionDecl, Node
  <2>3. UNCHANGED <<runVars, tail>>
    BY <1>12 DEF ParseFn
  <2> QED BY <1>4, <1>5, <1>11, <2>1, <2>2, <2>3
<1>13. CASE ParseTest
  <2>1. TestDecl \in Node /\ TestDecl.k = "test"
    BY DEF TestDecl, Node
  <2>2. Put(<<TestDecl>>) /\ UNCHANGED <<runVars, tail>>
    BY <1>13 DEF ParseTest
  <2> QED BY <1>4, <1>5, <1>11, <2>1, <2>2
<1>14. CASE ParseTailExpression
  <2>1. PICK e \in Expressions : Put(Append(e, ReturnStmt(TRUE))) \/ Put(e)
    BY <1>14 DEF ParseTailExpression
  <2>2. Closed(e) /\ Closed(Append(e, ReturnStmt(TRUE)))
    BY <1>7, ExpressionsAreClosed
  <2> QED BY <1>5, <1>14, <2>1, <2>2 DEF ParseTailExpression
<1>15. CASE ParseClose
  <2>1. End \in Node /\ End.k = "end"
    BY DEF End, Node
  <2>2. UNCHANGED runVars /\ tail' \in BOOLEAN
    BY <1>15 DEF ParseClose
  <2>3. CASE Put(<<End>>)
    BY <1>5, <1>11, <2>1, <2>2, <2>3
  <2>4. CASE Put(<<ReturnStmt(FALSE), End>>)
    <3> DEFINE nodes == <<ReturnStmt(FALSE), End>>
    <3>1. /\ nodes \in Seq(Node) /\ Len(nodes) = 2
          /\ nodes[1] = ReturnStmt(FALSE) /\ nodes[2] = End
      <4>1. ReturnStmt(FALSE) \in Node /\ End \in Node
        BY <1>7, <2>1
      <4>2. \A a, b \in Node : /\ <<a, b>> \in Seq(Node) /\ Len(<<a, b>>) = 2
                               /\ <<a, b>>[1] = a /\ <<a, b>>[2] = b
        OBVIOUS
      <4> QED BY <4>1, <4>2, Zenon
    <3>2. \A a \in {ReturnStmt(FALSE), End} :
              "kids" \notin DOMAIN a /\ a.k \notin {"bin", "let"} /\ (a.k = "return" => ~a.expr)
      BY DEF ReturnStmt, End
    <3>3. Put(nodes)
      BY <2>4
    <3> HIDE DEF nodes
    <3>4. ASSUME NEW i \in 1..Len(nodes) PROVE nodes[i] \in {ReturnStmt(FALSE), End}
      <4>1. i = 1 \/ i = 2
        BY <3>1
      <4> QED BY <3>1, <4>1, Zenon
    <3>5. Closed(nodes)
      BY <3>1, <3>2, <3>4 DEF Closed
    <3> QED BY <1>5, <2>2, <3>3, <3>5
  <2> QED BY <1>15, <2>3, <2>4 DEF ParseClose
<1>16. CASE ParseEof
  <2>1. phase' = "resolve" /\ pos' = 0 /\ UNCHANGED <<parserVars, has_errors, exit, why>>
    BY <1>16 DEF ParseEof, Enter
  <2>2. pos' \in Nat
    BY <2>1
  <2> QED BY <1>4, <1>6, <2>1, <2>2
<1>17. ASSUME NEW reason \in Reasons, NEW code \in {"failure", "crash"}, Stop(code, reason),
              UNCHANGED parserVars
       PROVE  TypeInv'
  <2>1. phase' = "done" /\ exit' = code /\ why' = reason /\ UNCHANGED <<pos, has_errors>>
    BY <1>17 DEF Stop
  <2> QED BY <1>4, <1>6, <1>17, <2>1
<1>18. CASE ParseUnreadable
  <2>1. Stop("failure", "parser") /\ UNCHANGED parserVars
    BY <1>18 DEF ParseUnreadable
  <2> QED BY <1>17, <2>1 DEF Reasons
<1>19. CASE ParseSyntaxError
  <2>1. /\ phase' = "done" /\ exit' = "failure" /\ why' = "parser" /\ has_errors' = TRUE
        /\ UNCHANGED <<parserVars, pos>>
    BY <1>19 DEF ParseSyntaxError
  <2> QED BY <1>4, <1>6, <2>1 DEF Reasons
<1>20. CASE ParseHugeInteger
  <2>1. Stop("crash", "std::stoi") /\ UNCHANGED parserVars
    BY <1>20 DEF ParseHugeInteger
  <2> QED BY <1>17, <2>1 DEF Reasons
<1> QED BY <1>8, <1>9, <1>10, <1>12, <1>13, <1>14, <1>15, <1>16,
        <1>18, <1>19, <1>20
        DEF ParserNext


-----------------------------------------------------------------------------
\* The end of the process leaves every table as it is.
LEMMA StopKeepsTypes ==
    ASSUME IInv', TypeInv, UNCHANGED <<parserVars, resolverVars, checkerVars, genVars, argv>>,
           NEW code \in {"success", "failure", "crash"}, NEW reason \in Reasons,
           Stop(code, reason)
    PROVE  TypeInv'
<1>1. phase' = "done" /\ exit' = code /\ why' = reason /\ UNCHANGED <<pos, has_errors>>
  BY DEF Stop
<1>2. UNCHANGED <<ast, path, open, tail, argv, variables, functions, saved, symbol_types,
                  function_signatures, return_type, ty, vals, value_map, test_symbols>>
  BY DEF parserVars, resolverVars, checkerVars, genVars
<1>3. TypeOK'
  BY <1>1, <1>2 DEF TypeInv, TypeOK, Phases
<1>4. \A n \in Nodes' : OperandsPrecede(n)'
  BY <1>2 DEF TypeInv, OperandsPrecede, Kid, Nodes
<1>5. CheckTypes' /\ GenerateTypes'
  BY <1>1, <1>2 DEF TypeInv, CheckTypes, GenerateTypes
<1> QED BY <1>3, <1>4, <1>5 DEF TypeInv

\* What a node and its parameters are called are names.
LEMMA NamesTyped ==
    ASSUME ast \in Seq(Node), NEW n \in Nodes
    PROVE  /\ ast[n].k \in {"let", "fn"} => ast[n].name \in STRING
           /\ ParamNames(n) \subseteq STRING
<1>1. ast[n] \in Node
  BY DEF Nodes
<1>2. ast[n].k \in {"let", "fn"} => ast[n].name \in STRING
  BY <1>1 DEF Node, ExprNode
<1>3. ParamNames(n) \subseteq STRING
  <2>1. ast[n].k = "fn" => ast[n].params \in Seq([name : STRING, type : STRING])
    BY <1>1 DEF Node, ExprNode, Params
  <2> SUFFICES ASSUME NEW x \in ParamNames(n) PROVE x \in STRING
    OBVIOUS
  <2>2. PICK i \in DOMAIN ast[n].params : ast[n].k = "fn" /\ x = ast[n].params[i].name
    BY DEF ParamNames, Range
  <2>3. \A S : \A s \in Seq(S) : \A j \in DOMAIN s : s[j] \in S
    OBVIOUS
  <2>4. ast[n].params[i] \in [name : STRING, type : STRING]
    BY <2>1, <2>2, <2>3
  <2> QED BY <2>2, <2>4
<1> QED BY <1>2, <1>3

\* Every callback of the symbol resolver keeps TypeInv: its sets hold names.
LEMMA ResolverKeepsTypes ==
    ASSUME IInv, IInv', TypeInv, ResolverNext,
           UNCHANGED <<parserVars, checkerVars, genVars, argv>>
    PROVE  TypeInv'
<1>1. phase = "resolve"
  BY DEF ResolverNext, ResolverBegin, ResolveChildren, ResolveIdentifier, ResolveCall,
     ResolveLet, ResolveBody, ResolveEnd, ResolverReturn, Resolving
<1>2. /\ UNCHANGED <<ast, path, open, tail, argv, symbol_types, function_signatures,
                     return_type, ty, vals, value_map, test_symbols>>
      /\ ty = <<>> /\ vals = <<>> /\ return_type = <<>> /\ test_symbols = <<>>
  BY <1>1 DEF parserVars, checkerVars, genVars, TypeInv, CheckTypes, GenerateTypes
<1>3. /\ pos \in Nat /\ has_errors \in BOOLEAN /\ why \in Reasons
      /\ exit \in {"none", "success", "failure", "crash"}
      /\ variables \subseteq STRING /\ functions \subseteq STRING
      /\ saved \in Seq(SUBSET STRING) /\ ast \in Seq(Node)
  BY DEF TypeInv, TypeOK
<1>4. ASSUME pos' \in Nat, has_errors' \in BOOLEAN, UNCHANGED <<exit, why>>,
             phase' = "resolve" \/ (phase' = "check" /\ pos' = 0),
             variables' \subseteq STRING, functions' \subseteq STRING,
             saved' \in Seq(SUBSET STRING)
      PROVE  TypeInv'
  <2>1. TypeOK'
    BY <1>2, <1>3, <1>4 DEF TypeInv, TypeOK, Phases
  <2>2. \A n \in Nodes' : OperandsPrecede(n)'
    BY <1>2 DEF TypeInv, OperandsPrecede, Kid, Nodes
  <2>3. Len(<<>>) = 0
    OBVIOUS
  <2>4. CheckTypes' /\ GenerateTypes'
    BY <1>2, <1>4, <2>3 DEF TypeInv, CheckTypes, GenerateTypes, ReturnTypesMirrorNesting
  <2> QED BY <2>1, <2>2, <2>4 DEF TypeInv
<1>5. ASSUME Step PROVE pos' \in Nat /\ phase' = "resolve" /\ UNCHANGED <<exit, why>>
  BY <1>1, <1>3, <1>5 DEF Step
<1>6. \A bad \in BOOLEAN : Report(bad) => has_errors' \in BOOLEAN
  BY <1>3 DEF Report
<1>7. CASE ResolverBegin
  <2>1. NamesOf(TopLevelFns) \subseteq STRING
    BY <1>3, NamesTyped DEF NamesOf, TopLevelFns
  <2> QED BY <1>3, <1>4, <1>5, <1>7, <2>1 DEF ResolverBegin
<1>8. CASE ResolveChildren
  BY <1>3, <1>4, <1>5, <1>8 DEF ResolveChildren, resolverVars
<1>9. CASE ResolveIdentifier
  <2>1. Step /\ UNCHANGED resolverVars /\ has_errors' \in BOOLEAN
    BY <1>6, <1>9 DEF ResolveIdentifier
  <2> QED BY <1>3, <1>4, <1>5, <2>1 DEF resolverVars
<1>10. CASE ResolveCall
  <2>1. Step /\ UNCHANGED resolverVars /\ has_errors' \in BOOLEAN
    BY <1>6, <1>10 DEF ResolveCall
  <2> QED BY <1>3, <1>4, <1>5, <2>1 DEF resolverVars
<1>11. CASE ResolveLet
  <2>1. ast[pos].name \in STRING
    BY <1>3, <1>11, NamesTyped DEF ResolveLet, Resolving, At
  <2> QED BY <1>3, <1>4, <1>5, <1>11, <2>1 DEF ResolveLet
<1>12. CASE ResolveBody
  <2>1. ParamNames(pos) \subseteq STRING
    BY <1>3, <1>12, NamesTyped DEF ResolveBody, Resolving, At
  <2>2. Append(saved, variables) \in Seq(SUBSET STRING)
    BY <1>3
  <2> QED BY <1>3, <1>4, <1>5, <1>12, <2>1, <2>2 DEF ResolveBody
<1>13. CASE ResolveEnd
  <2>1. pos \in Nodes /\ ast[pos].k = "end"
    BY <1>13 DEF ResolveEnd, Resolving, At
  <2>2. PathAt(pos) # <<>> /\ path \in Seq(Seq(Nat)) /\ PathAt(pos) = path[pos]
    BY <2>1 DEF IInv, TreeInv, PathAt
  <2>3. PathAt(pos) \in Seq(Nat)
    BY <2>1, <2>2 DEF TypeInv, TypeOK, Nodes
  <2>4. saved = OuterScopes(pos)
    BY <1>1, <2>1 DEF IInv, ResolveInv, Nodes
  <2>5. Len(saved) # 0
    BY <2>2, <2>3, <2>4 DEF OuterScopes
  <2>6. Last(saved) \in SUBSET STRING /\ Front(saved) \in Seq(SUBSET STRING)
    BY <1>3, <2>5 DEF Last, Front
  <2> QED BY <1>3, <1>4, <1>5, <1>13, <2>6 DEF ResolveEnd
<1>14. CASE ResolverReturn
  <2>1. UNCHANGED resolverVars /\ (Stop("failure", "resolver") \/ Enter("check"))
    BY <1>14 DEF ResolverReturn, Verdict
  <2>2. CASE Stop("failure", "resolver")
    BY <2>1, <2>2, StopKeepsTypes DEF Reasons
  <2>3. CASE Enter("check")
    BY <1>3, <1>4, <2>1, <2>3 DEF Enter, resolverVars
  <2> QED BY <2>1, <2>2, <2>3
<1> QED BY <1>7, <1>8, <1>9, <1>10, <1>11, <1>12, <1>13, <1>14 DEF ResolverNext


-----------------------------------------------------------------------------
\* Entering a declaration pushes its return type, leaving it pops it.
LEMMA MirrorStep ==
    ASSUME NEW s \in Seq(Nat), NEW r, r = [i \in DOMAIN s |-> DeclaredReturn(s[i])]
    PROVE  /\ \A n \in Nat : Append(r, DeclaredReturn(n)) =
                  [i \in DOMAIN Append(s, n) |-> DeclaredReturn(Append(s, n)[i])]
           /\ s # <<>> => /\ r # <<>> /\ Last(r) = DeclaredReturn(Last(s))
                          /\ Front(r) = [i \in DOMAIN Front(s) |-> DeclaredReturn(Front(s)[i])]
<1> DEFINE D == [i \in Nat |-> DeclaredReturn(i)]
<1>1. \A i \in DOMAIN s : DeclaredReturn(s[i]) = D[s[i]]
  OBVIOUS
<1>2. r = [i \in DOMAIN s |-> D[s[i]]] /\ \A n \in Nat : DeclaredReturn(n) = D[n]
  BY <1>1
<1> HIDE DEF D
<1>3. r \in Seq(Range(r)) /\ Len(r) = Len(s) /\ DOMAIN r = 1..Len(s)
  BY <1>2 DEF Range
<1>4. ASSUME NEW n \in Nat
      PROVE  Append(r, DeclaredReturn(n)) =
                 [i \in DOMAIN Append(s, n) |-> DeclaredReturn(Append(s, n)[i])]
  <2>1. DOMAIN Append(r, D[n]) = 1..Len(s) + 1 /\ DOMAIN Append(s, n) = 1..Len(s) + 1
    BY <1>3
  <2>2. ASSUME NEW i \in 1..Len(s) + 1
        PROVE  Append(r, D[n])[i] = DeclaredReturn(Append(s, n)[i])
    <3>1. CASE i \in 1..Len(s)
      BY <1>2, <1>3, <3>1
    <3>2. CASE i = Len(s) + 1
      BY <1>2, <1>3, <3>2
    <3> QED BY <3>1, <3>2
  <2>3. Append(r, D[n]) = [i \in 1..Len(s) + 1 |-> Append(r, D[n])[i]]
    BY <1>3
  <2> QED BY <1>2, <2>1, <2>2, <2>3
<1>5. ASSUME s # <<>>
      PROVE  /\ r # <<>> /\ Last(r) = DeclaredReturn(Last(s))
             /\ Front(r) = [i \in DOMAIN Front(s) |-> DeclaredReturn(Front(s)[i])]
  <2>1. Len(s) \in Nat \ {0} /\ r # <<>> /\ Last(s) = s[Len(s)] /\ Last(r) = r[Len(s)]
    BY <1>3, <1>5 DEF Last
  <2>2. /\ Front(s) = [i \in 1..Len(s) - 1 |-> s[i]] /\ Front(r) = [i \in 1..Len(s) - 1 |-> r[i]]
    BY <1>3, <1>5, <2>1 DEF Front
  <2>3. Last(r) = DeclaredReturn(Last(s))
    BY <1>2, <2>1
  <2>4. DOMAIN Front(s) = 1..Len(s) - 1
    BY <2>2
  <2>5. ASSUME NEW i \in 1..Len(s) - 1 PROVE r[i] = DeclaredReturn(Front(s)[i])
    BY <1>2, <2>1, <2>2
  <2>6. Front(r) = [i \in 1..Len(s) - 1 |-> DeclaredReturn(Front(s)[i])]
    <3> DEFINE FS == Front(s)
    <3>1. \A i \in 1..Len(s) - 1 : r[i] = DeclaredReturn(FS[i])
      BY <2>5
    <3> HIDE DEF FS
    <3>2. [i \in 1..Len(s) - 1 |-> r[i]] = [i \in 1..Len(s) - 1 |-> DeclaredReturn(FS[i])]
      BY <3>1
    <3> QED BY <2>2, <3>2 DEF FS
  <2> QED BY <2>1, <2>3, <2>4, <2>6, Zenon
<1> QED BY <1>4, <1>5

\* infer() that returns a type and moves on keeps TypeInv, if the stack of
\* return types stays that of the declarations around the cursor.
LEMMA InferKeepsTypes ==
    ASSUME IInv, IInv', TypeInv, phase = "check", pos \in Nodes, NEW t \in TypeNames, Infer(t),
           UNCHANGED <<parserVars, resolverVars, genVars, argv, function_signatures>>,
           has_errors' \in BOOLEAN, Range(symbol_types') \subseteq TypeNames,
           return_type' = [i \in DOMAIN PathAt(pos + 1) |-> DeclaredReturn(PathAt(pos + 1)[i])]
    PROVE  TypeInv'
<1>1. /\ phase' = "check" /\ pos' = pos + 1 /\ ty' = Append(ty, t) /\ UNCHANGED <<exit, why>>
      /\ pos \in 1..Len(ast)
  BY DEF Infer, Step, Nodes
<1>2. UNCHANGED <<ast, path, open, tail, argv, variables, functions, saved, vals, value_map,
                  function_signatures, test_symbols>>
  BY DEF parserVars, resolverVars, genVars
<1>3. /\ ty' \in Seq(TypeNames) /\ Len(ty') = pos /\ Len(ty') <= Len(ast') /\ pos' \in Nat
  BY <1>1, <1>2 DEF TypeInv, TypeOK, CheckTypes
<1>4. Here' = PathAt(pos + 1) /\ PathAt(pos + 1) \in Seq(Nat)
  <2>1. open = <<>> /\ path \in Seq(Seq(Nat)) /\ Len(path) = Len(ast) /\ Len(ast) \in Nat
    BY DEF IInv, QuietInv, TreeInv
  <2> QED BY <1>1, <1>2, <2>1 DEF Here, PathAt, Nodes
<1>5. \A i \in DOMAIN Here' : DeclaredReturn(Here'[i]) \in TypeNames
  <2>1. None \in TypeNames
    BY DEF TypeNames, Types
  <2> QED BY <2>1, ResolveTyped DEF DeclaredReturn
<1>6. return_type' \in Seq(TypeNames)
  BY <1>4, <1>5
<1>7. ReturnTypesMirrorNesting'
  <2>1. \A d : DeclaredReturn(d)' = DeclaredReturn(d)
    BY <1>2 DEF DeclaredReturn
  <2> QED BY <1>4, <2>1 DEF ReturnTypesMirrorNesting
<1>8. TypeOK'
  BY <1>1, <1>2, <1>3, <1>6 DEF TypeInv, TypeOK
<1>9. \A n \in Nodes' : OperandsPrecede(n)'
  BY <1>2 DEF TypeInv, OperandsPrecede, Kid, Nodes
<1>10. CheckTypes'
  BY <1>1, <1>2, <1>3, <1>7 DEF TypeInv, CheckTypes
<1>11. GenerateTypes'
  BY <1>1, <1>2 DEF TypeInv, GenerateTypes
<1> QED BY <1>8, <1>9, <1>10, <1>11 DEF TypeInv


\* The results of a node's operands are those of nodes before it.
LEMMA OperandsTyped ==
    ASSUME ast \in Seq(Node), NEW n \in Nodes, OperandsPrecede(n),
           ast[n].k \in {"bin", "call", "intrinsic"},
           NEW S, NEW results \in Seq(S), Len(results) = n - 1
    PROVE  Operands(n, results) \in Seq(S) /\ Len(Operands(n, results)) = Len(ast[n].kids)
<1>1. ast[n] \in Node /\ n \in Nat /\ "kids" \in DOMAIN ast[n]
  BY DEF Nodes, Node, ExprNode
<1>2. ast[n].kids \in Seq(Nat \ {0})
  BY <1>1, KidsOfNode
<1>3. \A i \in 1..Len(ast[n].kids) : results[Kid(n, i)] \in S
  BY <1>1, <1>2 DEF OperandsPrecede
<1>4. Len(ast[n].kids) \in Nat
  BY <1>2
<1> QED BY <1>3, <1>4 DEF Operands

\* operator[] adds values to a table, and only those.
LEMMA OverwriteTyped ==
    ASSUME NEW S, NEW f, NEW g, Range(f) \subseteq S, Range(g) \subseteq S
    PROVE  Range(Overwrite(f, g)) \subseteq S
  BY DEF Overwrite, Range

\* check_int and check_cmp give a type.
LEMMA BinaryTypeTyped ==
    ASSUME NEW op, NEW lhs \in TypeNames, NEW rhs
    PROVE  BinaryType(op, lhs, rhs) \in TypeNames
<1>1. NoType \in TypeNames /\ "i1" \in TypeNames
  BY DEF TypeNames, Types, IntegerTypes
<1> QED BY <1>1, Zenon DEF BinaryType

\* Every callback of the type checker keeps TypeInv: it gives each node a type,
\* and return_type mirrors the declarations around the cursor.
LEMMA CheckerKeepsTypes ==
    ASSUME IInv, IInv', TypeInv, CheckerNext,
           UNCHANGED <<parserVars, resolverVars, genVars, argv>>
    PROVE  TypeInv'
<1>1. phase = "check" /\ TreeInv
  BY DEF IInv, CheckerNext, CheckerBegin, CheckIntLiteral, CheckIdentifier, CheckBinaryOperator,
     CheckCall, CheckIntrinsicCall, CheckLet, CheckReturn, CheckModuleReturn, CheckFn,
     CheckNestedFn, CheckTest, CheckEnd, CheckerReturn, Checking
<1>2. ASSUME pos \in Nodes
      PROVE  /\ PathAt(pos) \in Seq(Nat) /\ ast \in Seq(Node) /\ OperandsPrecede(pos)
             /\ return_type = [i \in DOMAIN PathAt(pos) |-> DeclaredReturn(PathAt(pos)[i])]
             /\ ty \in Seq(TypeNames) /\ Len(ty) = pos - 1
  <2>1. pos > 0 /\ Here = PathAt(pos) /\ Here = path[pos] /\ pos \in 1..Len(path)
    BY <1>1, <1>2 DEF Here, PathAt, Nodes, TreeInv
  <2> QED BY <1>1, <1>2, <2>1
          DEF TypeInv, TypeOK, CheckTypes, ReturnTypesMirrorNesting
<1>3. /\ NoType \in TypeNames /\ "i64" \in TypeNames /\ None \in TypeNames
      /\ has_errors \in BOOLEAN /\ Range(symbol_types) \subseteq TypeNames
      /\ \A f \in DOMAIN function_signatures : function_signatures[f].ret \in TypeNames
  BY DEF TypeNames, Types, IntegerTypes, TypeInv, TypeOK, CheckTypes
<1>4. ASSUME pos \in Nodes, ast[pos].k \notin {"fn", "test", "end"}, NEW t \in TypeNames, Infer(t),
             UNCHANGED <<function_signatures, return_type>>,
             has_errors' \in BOOLEAN, Range(symbol_types') \subseteq TypeNames
      PROVE  TypeInv'
  <2>1. PathAt(pos + 1) = PathAt(pos)
    BY <1>1, <1>4, ScopeStep
  <2>2. return_type' = [i \in DOMAIN PathAt(pos + 1) |-> DeclaredReturn(PathAt(pos + 1)[i])]
    BY <1>2, <1>4, <2>1
  <2> QED BY <1>1, <1>4, <2>2, InferKeepsTypes
<1>5. \A bad : Report(bad) => has_errors' \in BOOLEAN
  BY Zenon DEF Report
<1>6. CASE CheckerBegin
  <2>1. /\ pos = 0 /\ pos' = 1 /\ UNCHANGED <<phase, exit, why, symbol_types, return_type, ty>>
        /\ has_errors' \in BOOLEAN
    <3>1. has_errors' \in BOOLEAN
      BY <1>5, <1>6, Zenon DEF CheckerBegin
    <3> QED BY <1>6, <3>1 DEF CheckerBegin, Step
  <2>2. UNCHANGED <<ast, path, open, tail, argv, variables, functions, saved, vals, value_map, test_symbols>>
    BY DEF parserVars, resolverVars, genVars
  <2>3. return_type = <<>> /\ Len(ty) = 0
    BY <1>1, <2>1 DEF TypeInv, CheckTypes
  <2>4. \A f \in DOMAIN function_signatures' : function_signatures'[f].ret \in TypeNames
    BY <1>6, ResolveTyped DEF CheckerBegin, FunctionSignature
  <2>5. Here' = <<>>
    BY <1>1, <2>1, <2>2 DEF Here, Nodes, TreeInv, PathAt
  <2>6. ReturnTypesMirrorNesting'
    BY <2>1, <2>3, <2>5 DEF ReturnTypesMirrorNesting
  <2>7. TypeOK'
    BY <2>1, <2>2 DEF TypeInv, TypeOK
  <2>8. \A n \in Nodes' : OperandsPrecede(n)'
    BY <2>2 DEF TypeInv, OperandsPrecede, Kid, Nodes
  <2>9. CheckTypes' /\ GenerateTypes'
    BY <1>1, <2>1, <2>2, <2>3, <2>4, <2>6 DEF TypeInv, CheckTypes, GenerateTypes
  <2> QED BY <2>7, <2>8, <2>9 DEF TypeInv
<1>7. CASE CheckIntLiteral
  BY <1>3, <1>4, <1>7 DEF CheckIntLiteral, Checking, At
<1>8. CASE CheckIdentifier
  <2>1. PICK t : Infer(t) /\ t \in Range(symbol_types) \cup {NoType}
    BY <1>8 DEF CheckIdentifier, Range
  <2> QED BY <1>3, <1>4, <1>8, <2>1 DEF CheckIdentifier, Checking, At
<1>9. CASE CheckBinaryOperator
  <2>1. pos \in Nodes /\ ast[pos].k = "bin"
    BY <1>9 DEF CheckBinaryOperator, Checking, At
  <2>2. PICK o : /\ o = Operands(pos, ty) /\ has_errors' \in BOOLEAN
                 /\ Infer(BinaryType(ast[pos].op, o[1], o[2]))
    BY <1>5, <1>9, Zenon DEF CheckBinaryOperator
  <2>3. o \in Seq(TypeNames) /\ Len(o) = 2
    BY <1>2, <2>1, <2>2, OperandsTyped DEF OperandsPrecede
  <2>4. BinaryType(ast[pos].op, o[1], o[2]) \in TypeNames
    <3>1. o[1] \in TypeNames
      BY <2>3
    <3> QED BY <3>1, BinaryTypeTyped
  <2> QED BY <1>3, <1>4, <1>9, <2>1, <2>2, <2>4 DEF CheckBinaryOperator
<1>10. CASE CheckCall
  <2>1. PICK t \in TypeNames : Infer(t) /\ has_errors' \in BOOLEAN
    <3>1. CASE ast[pos].name # Indirect /\ ast[pos].name \in DOMAIN function_signatures
      BY <1>3, <1>5, <1>10, <3>1, Zenon DEF CheckCall
    <3>2. CASE ~(ast[pos].name # Indirect /\ ast[pos].name \in DOMAIN function_signatures)
      BY <1>3, <1>5, <1>10, <3>2, Zenon DEF CheckCall
    <3> QED BY <3>1, <3>2
  <2> QED BY <1>3, <1>4, <1>10, <2>1 DEF CheckCall, Checking, At
<1>11. CASE CheckIntrinsicCall
  <2>1. has_errors' \in BOOLEAN
    BY <1>5, <1>11, Zenon DEF CheckIntrinsicCall
  <2> QED BY <1>3, <1>4, <1>11, <2>1 DEF CheckIntrinsicCall, Checking, At
<1>12. CASE CheckLet
  <2>1. pos \in Nodes /\ ast[pos].k = "let"
    BY <1>12 DEF CheckLet, Checking, At
  <2>2. PICK t, annotated, inferred, clash :
            /\ t = CASE clash              -> NoType
                     [] annotated # NoType -> annotated
                     [] OTHER              -> inferred
            /\ annotated \in {NoType, Resolve(ast[pos].type)} /\ inferred = ty[pos - 1]
            /\ symbol_types' = IF t = NoType
                                 THEN symbol_types
                                 ELSE Overwrite(symbol_types, Entry(ast[pos].name, t))
            /\ Infer(t)
    BY <1>12, Zenon DEF CheckLet
  <2>7. t \in {NoType, annotated, inferred}
    BY <2>2, Zenon
  <2>3. inferred \in TypeNames
    BY <1>2, <2>1, <2>2 DEF OperandsPrecede, Nodes
  <2>4. t \in TypeNames
    BY <1>3, <2>2, <2>3, <2>7, ResolveTyped
  <2>5. Range(symbol_types') \subseteq TypeNames
    <3>1. Range(Entry(ast[pos].name, t)) \subseteq TypeNames
      BY <2>4 DEF Entry, Range
    <3> QED BY <1>3, <2>2, <3>1, OverwriteTyped
  <2>6. has_errors' \in BOOLEAN
    BY <1>5, <1>12 DEF CheckLet
  <2> QED BY <1>4, <1>12, <2>1, <2>2, <2>4, <2>5, <2>6 DEF CheckLet
<1>13. CASE CheckReturn
  <2>1. has_errors' \in BOOLEAN
    BY <1>5, <1>13 DEF CheckReturn
  <2> QED BY <1>3, <1>4, <1>13, <2>1 DEF CheckReturn, Checking, At
<1>14. CASE CheckModuleReturn
  <2>1. CASE Infer(NoType) /\ \E mismatch \in BOOLEAN : Report(mismatch)
    BY <1>3, <1>4, <1>5, <1>14, <2>1 DEF CheckModuleReturn, Checking, At
  <2>2. CASE Stop("crash", "return_type.top") /\ UNCHANGED ty
    <3>1. UNCHANGED checkerVars
      BY <1>14, <2>2 DEF CheckModuleReturn, checkerVars
    <3> QED BY <2>2, <3>1, StopKeepsTypes DEF Reasons
  <2> QED BY <1>14, <2>1, <2>2 DEF CheckModuleReturn
<1>15. CASE CheckFn
  <2>1. pos \in Nodes /\ ast[pos].k = "fn" /\ pos \in Nat
    BY <1>15 DEF CheckFn, Checking, At, Nodes
  <2>2. PathAt(pos + 1) = Append(PathAt(pos), pos)
    BY <1>1, <2>1, ScopeStep
  <2>3. return_type' = Append(return_type, DeclaredReturn(pos))
    BY <1>15, <2>1 DEF CheckFn, DeclaredReturn
  <2>4. return_type' = [i \in DOMAIN PathAt(pos + 1) |-> DeclaredReturn(PathAt(pos + 1)[i])]
    <3>1. Append(return_type, DeclaredReturn(pos)) =
              [i \in DOMAIN Append(PathAt(pos), pos) |-> DeclaredReturn(Append(PathAt(pos), pos)[i])]
      BY <1>2, <2>1, MirrorStep, SMTT(20)
    <3> QED BY <2>2, <2>3, <3>1, Zenon
  <2>5. Range(symbol_types') \subseteq TypeNames
    <3>1. Range(ParamTypes(pos)) \subseteq TypeNames
      BY ResolveTyped DEF ParamTypes, Range
    <3> QED BY <1>3, <1>15, <3>1, OverwriteTyped DEF CheckFn
  <2> QED BY <1>1, <1>3, <1>15, <2>1, <2>4, <2>5, InferKeepsTypes DEF CheckFn
<1>16. CASE CheckNestedFn
  BY <1>16, StopKeepsTypes DEF CheckNestedFn, Reasons
<1>17. CASE CheckTest
  <2>1. pos \in Nodes /\ ast[pos].k = "test" /\ pos \in Nat
    BY <1>17 DEF CheckTest, Checking, At, Nodes
  <2>2. PathAt(pos + 1) = Append(PathAt(pos), pos)
    BY <1>1, <2>1, ScopeStep
  <2>3. return_type' = Append(return_type, DeclaredReturn(pos))
    BY <1>17, <2>1 DEF CheckTest, DeclaredReturn
  <2>4. return_type' = [i \in DOMAIN PathAt(pos + 1) |-> DeclaredReturn(PathAt(pos + 1)[i])]
    <3>1. Append(return_type, DeclaredReturn(pos)) =
              [i \in DOMAIN Append(PathAt(pos), pos) |-> DeclaredReturn(Append(PathAt(pos), pos)[i])]
      BY <1>2, <2>1, MirrorStep, SMTT(20)
    <3> QED BY <2>2, <2>3, <3>1, Zenon
  <2> QED BY <1>1, <1>3, <1>17, <2>1, <2>4, InferKeepsTypes DEF CheckTest
<1>18. CASE CheckEnd
  <2>1. pos \in Nodes /\ ast[pos].k = "end"
    BY <1>18 DEF CheckEnd, Checking, At
  <2>2. PathAt(pos) # <<>> /\ PathAt(pos + 1) = Front(PathAt(pos))
    BY <1>1, <2>1, ScopeStep
  <2>3. return_type' = [i \in DOMAIN PathAt(pos + 1) |-> DeclaredReturn(PathAt(pos + 1)[i])]
    BY <1>2, <1>18, <2>1, <2>2, MirrorStep DEF CheckEnd
  <2> QED BY <1>1, <1>3, <1>18, <2>1, <2>3, InferKeepsTypes DEF CheckEnd
<1>19. CASE CheckerReturn
  <2>1. UNCHANGED checkerVars /\ (Stop("failure", "checker") \/ Enter("generate"))
    BY <1>19 DEF CheckerReturn, Verdict
  <2>2. CASE Stop("failure", "checker")
    BY <2>1, <2>2, StopKeepsTypes DEF Reasons
  <2>3. CASE Enter("generate")
    <3>1. /\ phase' = "generate" /\ pos' = 0 /\ UNCHANGED <<has_errors, exit, why>>
          /\ UNCHANGED <<ast, path, open, tail, argv, variables, functions, saved, vals, value_map,
                         symbol_types, function_signatures, return_type, ty, test_symbols>>
      BY <2>1, <2>3 DEF Enter, checkerVars, parserVars, resolverVars, genVars
    <3>2. TypeOK'
      BY <3>1 DEF TypeInv, TypeOK, Phases
    <3>3. \A n \in Nodes' : OperandsPrecede(n)'
      BY <3>1 DEF TypeInv, OperandsPrecede, Kid, Nodes
    <3>4. CheckTypes' /\ GenerateTypes'
      BY <1>1, <3>1 DEF TypeInv, CheckTypes, GenerateTypes
    <3> QED BY <3>2, <3>3, <3>4 DEF TypeInv
  <2> QED BY <2>1, <2>2, <2>3
<1> QED BY <1>6, <1>7, <1>8, <1>9, <1>10, <1>11, <1>12, <1>13, <1>14, <1>15, <1>16, <1>17,
           <1>18, <1>19 DEF CheckerNext


-----------------------------------------------------------------------------
\* A function with other operations is still one, and so is one with a block
\* more.
LEMMA FunctionKept ==
    ASSUME NEW F, FunctionTyped(F)
    PROVE  /\ \A ops : ops \in Seq(Range(ops)) /\ (\A i \in DOMAIN ops : OperationTyped(ops[i])) =>
                  LET G == [F EXCEPT !.ops = ops]
                  IN  FunctionTyped(G) /\ G.params = F.params /\ G.rets = F.rets
           /\ \A b : LET G == [F EXCEPT !.blocks = b]
                     IN  FunctionTyped(G) /\ G.params = F.params /\ G.rets = F.rets
<1>1. ASSUME NEW ops, ops \in Seq(Range(ops)), \A i \in DOMAIN ops : OperationTyped(ops[i])
      PROVE  LET G == [F EXCEPT !.ops = ops]
             IN  FunctionTyped(G) /\ G.params = F.params /\ G.rets = F.rets
  <2> DEFINE G == [F EXCEPT !.ops = ops]
  <2>1. DOMAIN G = DOMAIN F /\ G.params = F.params /\ G.rets = F.rets /\ G.ops = ops
    BY DEF FunctionTyped
  <2> HIDE DEF G
  <2>2. FunctionTyped(G)
    BY <1>1, <2>1 DEF FunctionTyped
  <2> QED BY <2>1, <2>2 DEF G
<1>2. ASSUME NEW b
      PROVE  LET G == [F EXCEPT !.blocks = b]
             IN  FunctionTyped(G) /\ G.params = F.params /\ G.rets = F.rets
  <2> DEFINE G == [F EXCEPT !.blocks = b]
  <2>1. DOMAIN G = DOMAIN F /\ G.params = F.params /\ G.rets = F.rets /\ G.ops = F.ops
    BY DEF FunctionTyped
  <2> HIDE DEF G
  <2>2. FunctionTyped(G)
    BY <2>1 DEF FunctionTyped
  <2> QED BY <2>1, <2>2 DEF G
<1> QED BY <1>1, <1>2

\* Operations that are put into a function of the module are typed, or a body
\* is added: the module stays typed.
LEMMA ModuleKept ==
    ASSUME ModuleTyped, NEW f \in DOMAIN funcs,
           \/ \E ops : /\ ops \in Seq(Range(ops)) /\ \A i \in DOMAIN ops : OperationTyped(ops[i])
                       /\ funcs' = [funcs EXCEPT ![f].ops = ops]
           \/ \E b : funcs' = [funcs EXCEPT ![f].blocks = b]
    PROVE  ModuleTyped' /\ DOMAIN funcs' = DOMAIN funcs
<1>1. PICK G : /\ funcs' = [funcs EXCEPT ![f] = G] /\ FunctionTyped(G)
               /\ G.params = funcs[f].params
  <2>1. FunctionTyped(funcs[f])
    BY DEF ModuleTyped
  <2>2. CASE \E b : funcs' = [funcs EXCEPT ![f].blocks = b]
    <3>1. PICK b : funcs' = [funcs EXCEPT ![f].blocks = b]
      BY <2>2
    <3> DEFINE H == [funcs[f] EXCEPT !.blocks = b]
    <3>2. funcs' = [funcs EXCEPT ![f] = H]
      BY <3>1
    <3>3. FunctionTyped(H) /\ H.params = funcs[f].params
      BY <2>1, FunctionKept
    <3> HIDE DEF H
    <3> QED BY <3>2, <3>3
  <2>3. CASE \E ops : /\ ops \in Seq(Range(ops)) /\ \A i \in DOMAIN ops : OperationTyped(ops[i])
                      /\ funcs' = [funcs EXCEPT ![f].ops = ops]
    <3>1. PICK ops : /\ ops \in Seq(Range(ops)) /\ \A i \in DOMAIN ops : OperationTyped(ops[i])
                     /\ funcs' = [funcs EXCEPT ![f].ops = ops]
      BY <2>3
    <3> DEFINE H == [funcs[f] EXCEPT !.ops = ops]
    <3>2. funcs' = [funcs EXCEPT ![f] = H]
      BY <3>1
    <3>3. FunctionTyped(H) /\ H.params = funcs[f].params
      BY <2>1, <3>1, FunctionKept
    <3> HIDE DEF H
    <3> QED BY <3>2, <3>3
  <2> QED BY <2>2, <2>3
<1>2. /\ DOMAIN funcs' = DOMAIN funcs /\ funcs'[f] = G
      /\ \A g \in DOMAIN funcs : g # f => funcs'[g] = funcs[g]
  BY <1>1
<1>3. ASSUME NEW g \in DOMAIN funcs' PROVE FunctionTyped(funcs'[g])
  BY <1>1, <1>2 DEF ModuleTyped
<1>4. Main \in DOMAIN funcs' /\ funcs'[Main].params = <<>>
  BY <1>1, <1>2 DEF ModuleTyped, Main
<1> QED BY <1>2, <1>3, <1>4 DEF ModuleTyped, Main

\* Two lists of operations, one after the other.
LEMMA ConcatTyped ==
    ASSUME NEW s, NEW t, s \in Seq(Range(s)), t \in Seq(Range(t)),
           \A i \in DOMAIN s : OperationTyped(s[i]), \A i \in DOMAIN t : OperationTyped(t[i])
    PROVE  /\ s \o t \in Seq(Range(s \o t))
           /\ \A i \in DOMAIN (s \o t) : OperationTyped((s \o t)[i])
<1> DEFINE st == s \o t
<1>1. /\ Len(st) = Len(s) + Len(t) /\ Len(s) \in Nat /\ Len(t) \in Nat
      /\ DOMAIN s = 1..Len(s) /\ DOMAIN t = 1..Len(t) /\ DOMAIN st = 1..Len(s) + Len(t)
      /\ \A i \in 1..Len(s) : st[i] = s[i]
      /\ \A i \in Len(s) + 1..Len(s) + Len(t) : st[i] = t[i - Len(s)]
      /\ st = [i \in 1..Len(s) + Len(t) |-> st[i]]
  <2>1. /\ s \in Seq(Range(s) \cup Range(t)) /\ t \in Seq(Range(s) \cup Range(t))
    OBVIOUS
  <2>2. st \in Seq(Range(s) \cup Range(t)) /\ Len(st) = Len(s) + Len(t)
    BY <2>1, ConcatProperties
  <2>3. \A i \in 1..Len(s) + Len(t) : st[i] = IF i <= Len(s) THEN s[i] ELSE t[i - Len(s)]
    BY <2>1, ConcatProperties
  <2> HIDE DEF st
  <2> QED BY <2>1, <2>2, <2>3
<1> HIDE DEF st
<1>2. st \in Seq(Range(st))
  BY <1>1 DEF Range
<1>3. ASSUME NEW i \in DOMAIN st PROVE OperationTyped(st[i])
  <2>1. i \in 1..Len(s) \/ (i \in Len(s) + 1..Len(s) + Len(t) /\ i - Len(s) \in 1..Len(t))
    BY <1>1
  <2> QED BY <1>1, <2>1
<1> QED BY <1>2, <1>3 DEF st

\* An operation at the end of a function's operations.
LEMMA ModuleAppend ==
    ASSUME ModuleTyped, NEW f \in DOMAIN funcs, NEW o, OperationTyped(o),
           funcs' = [funcs EXCEPT ![f].ops = Append(@, o)]
    PROVE  ModuleTyped' /\ DOMAIN funcs' = DOMAIN funcs
<1> DEFINE ops == Append(funcs[f].ops, o)
<1>1. /\ funcs[f].ops \in Seq(Range(funcs[f].ops))
      /\ \A i \in DOMAIN funcs[f].ops : OperationTyped(funcs[f].ops[i])
  BY DEF ModuleTyped, FunctionTyped
<1>2. /\ ops \in Seq(Range(ops)) /\ DOMAIN ops = 1..Len(funcs[f].ops) + 1
      /\ DOMAIN funcs[f].ops = 1..Len(funcs[f].ops) /\ Len(funcs[f].ops) \in Nat
      /\ \A i \in 1..Len(funcs[f].ops) : ops[i] = funcs[f].ops[i]
      /\ ops[Len(funcs[f].ops) + 1] = o
  BY <1>1, SeqAppend
<1>3. funcs' = [funcs EXCEPT ![f].ops = ops]
  OBVIOUS
<1> HIDE DEF ops
<1>4. ASSUME NEW i \in DOMAIN ops PROVE OperationTyped(ops[i])
  <2>1. i \in 1..Len(funcs[f].ops) \/ i = Len(funcs[f].ops) + 1
    BY <1>2
  <2> QED BY <1>1, <1>2, <2>1
<1> QED BY <1>2, <1>3, <1>4, ModuleKept


\* A handler of generate() that returns a value and moves on keeps TypeInv.
LEMMA GenerateStepKeepsTypes ==
    ASSUME IInv, IInv', TypeInv, phase = "generate", pos \in Nodes, Step, UNCHANGED has_errors,
           UNCHANGED <<parserVars, resolverVars, checkerVars, argv>>,
           NEW v \in Value, vals' = Append(vals, v), Range(value_map') \subseteq Value,
           UNCHANGED test_symbols \/ \E sym : test_symbols' = Append(test_symbols, sym),
           ip'.fn \in DOMAIN funcs', ModuleTyped',
           \A i \in DOMAIN frames' :
              frames'[i].ip.fn \in DOMAIN funcs' /\ Range(frames'[i].value_map) \subseteq Value
    PROVE  TypeInv'
<1>1. /\ phase' = "generate" /\ pos' = pos + 1 /\ UNCHANGED <<exit, why>>
      /\ pos \in 1..Len(ast) /\ Len(ast) \in Nat
  BY DEF Step, Nodes, IInv, TreeInv
<1>2. UNCHANGED <<ast, path, open, tail, argv, variables, functions, saved, symbol_types,
                  function_signatures, return_type, ty>>
  BY DEF parserVars, resolverVars, checkerVars
<1>3. vals \in Seq(Value) /\ Len(vals) = pos - 1
  BY <1>1 DEF TypeInv, TypeOK, GenerateTypes
<1>4. vals' \in Seq(Value) /\ Len(vals') = pos /\ Len(vals') <= Len(ast') /\ pos' \in Nat
  BY <1>1, <1>2, <1>3
<1>5. TypeOK'
  BY <1>1, <1>2, <1>4 DEF TypeInv, TypeOK
<1>6. \A n \in Nodes' : OperandsPrecede(n)'
  BY <1>2 DEF TypeInv, OperandsPrecede, Kid, Nodes
<1>7. CheckTypes'
  BY <1>1, <1>2 DEF TypeInv, CheckTypes
<1>8. test_symbols' \in Seq(Range(test_symbols'))
  <2>1. test_symbols \in Seq(Range(test_symbols))
    BY <1>1 DEF TypeInv, GenerateTypes
  <2>2. CASE UNCHANGED test_symbols
    BY <2>1, <2>2
  <2>3. CASE \E sym : test_symbols' = Append(test_symbols, sym)
    <3>1. PICK sym : test_symbols' = Append(test_symbols, sym)
      BY <2>3
    <3>2. Append(test_symbols, sym) \in Seq(Range(Append(test_symbols, sym)))
      BY <2>1, SeqAppend
    <3> QED BY <3>1, <3>2
  <2> QED BY <2>2, <2>3
<1>9. GenerateTypes'
  BY <1>1, <1>4, <1>8 DEF GenerateTypes
<1> QED BY <1>5, <1>6, <1>7, <1>9 DEF TypeInv

\* Op::create keeps TypeInv, given values of the nodes before.
LEMMA CreateKeepsTypes ==
    ASSUME IInv, IInv', TypeInv, phase = "generate", pos \in Nodes,
           UNCHANGED <<parserVars, resolverVars, checkerVars, argv>>,
           NEW op, NEW args \in Seq(Value), NEW attr, op = "constant" => attr[1] \in Int,
           NEW type \in TypeNames, Create(op, args, attr, type)
    PROVE  TypeInv'
<1>1. CASE NoValue \in Range(args)
  BY <1>1, StopKeepsTypes DEF Create, Reasons
<1>2. CASE NoValue \notin Range(args)
  <2> DEFINE o == Operation(op, args, attr, type)
             v == IF type = NoType
                    THEN NoValue
                    ELSE [fn |-> ip.fn, at |-> Len(funcs[ip.fn].ops) + 1, type |-> type]
  <2>1. /\ funcs' = [funcs EXCEPT ![ip.fn].ops = Append(@, o)]
        /\ vals' = Append(vals, v)
        /\ Step /\ UNCHANGED <<has_errors, ip, frames, value_map, test_symbols>>
    BY <1>2 DEF Create
  <2>2. OperationTyped(o)
    BY DEF Operation, OperationTyped
  <2>3. /\ ip.fn \in DOMAIN funcs /\ ModuleTyped /\ Range(value_map) \subseteq Value
        /\ \A i \in DOMAIN frames :
              frames[i].ip.fn \in DOMAIN funcs /\ Range(frames[i].value_map) \subseteq Value
    BY DEF TypeInv, TypeOK, GenerateTypes, Nodes
  <2>4. v \in Value
    <3>1. FunctionTyped(funcs[ip.fn]) /\ ip.fn \in Nat
      BY <2>3 DEF ModuleTyped
    <3>2. Len(funcs[ip.fn].ops) + 1 \in Int
      BY <3>1 DEF FunctionTyped
    <3>3. [fn |-> ip.fn, at |-> Len(funcs[ip.fn].ops) + 1, type |-> type] \in Value
      BY <3>1, <3>2 DEF Value
    <3>4. NoValue \in Value
      BY DEF NoValue, Value, TypeNames
    <3> QED BY <3>3, <3>4
  <2> HIDE DEF o, v
  <2>5. ModuleTyped' /\ DOMAIN funcs' = DOMAIN funcs
    BY <2>1, <2>2, <2>3, ModuleAppend
  <2> QED BY <2>1, <2>3, <2>4, <2>5, GenerateStepKeepsTypes
<1> QED BY <1>1, <1>2

\* Every handler of the generator keeps TypeInv: a value for each node, and
\* operations only in functions of the module.
LEMMA GeneratorKeepsTypes ==
    ASSUME IInv, IInv', TypeInv, GenNext(run_tests),
           UNCHANGED <<parserVars, resolverVars, checkerVars, argv>>
    PROVE  TypeInv'
<1>1. phase = "generate" /\ TreeInv
  BY DEF IInv, GenNext, GenBegin, GenIntLiteral, GenIdentifier, GenBinaryOperator, GenCall,
     GenIntrinsicCall, GenLet, GenReturn, GenFn, GenTest, GenEnd, GenFinish, Generating
<1>2. UNCHANGED <<ast, path, open, tail, argv, variables, functions, saved, symbol_types,
                  function_signatures, return_type, ty>>
  BY DEF parserVars, resolverVars, checkerVars
<1>3. ASSUME pos \in Nodes
      PROVE  /\ pos \in Nat \ {0} /\ ast \in Seq(Node) /\ ast[pos] \in Node
             /\ OperandsPrecede(pos)
             /\ vals \in Seq(Value) /\ Len(vals) = pos - 1 /\ Range(value_map) \subseteq Value
             /\ ip.fn \in DOMAIN funcs /\ ModuleTyped
             /\ \A i \in DOMAIN frames :
                   frames[i].ip.fn \in DOMAIN funcs /\ Range(frames[i].value_map) \subseteq Value
             /\ frames \in Seq(Range(frames)) /\ Len(frames) = Len(PathAt(pos))
  BY <1>1, <1>3, SMTT(20) DEF IInv, TreeInv, TypeInv, TypeOK, GenerateTypes, GenerateInv, Nodes
<1>4. NoValue \in Value /\ NoType \in TypeNames /\ "i1" \in TypeNames /\ "i64" \in TypeNames
      /\ <<>> \in Seq(Value)
  BY DEF NoValue, Value, TypeNames, Types, IntegerTypes
<1>5. ASSUME pos \in Nodes, NEW sym, Declared(sym)
      PROVE  LookupSymbol(sym) \in DOMAIN funcs
  <2> DEFINE S == {f \in DOMAIN funcs : funcs[f].sym = sym}
  <2>1. S \subseteq Nat /\ S # {}
    BY <1>3, <1>5 DEF ModuleTyped, Declared
  <2>2. Min(S) \in S
    <3> HIDE DEF S
    <3> QED BY <2>1, MinIsLeast
  <2> QED BY <2>2 DEF LookupSymbol
<1>6. ASSUME NEW sym, NEW params \in Seq(TypeNames), NEW rets \in Seq(TypeNames), NEW blocks
      PROVE  /\ FunctionTyped(Func(sym, params, rets, blocks))
             /\ Func(sym, params, rets, blocks).params = params
  <2>1. <<>> \in Seq(Range(<<>>)) /\ DOMAIN <<>> = {}
    OBVIOUS
  <2> QED BY <2>1 DEF Func, FunctionTyped
<1>7. \A sym, blocks : /\ FunctionTyped(Func(sym, <<>>, <<>>, blocks))
                        /\ Func(sym, <<>>, <<>>, blocks).params = <<>>
  <2>1. <<>> \in Seq(Range(<<>>)) /\ DOMAIN <<>> = {} /\ <<>> \in Seq(TypeNames)
    OBVIOUS
  <2> QED BY <2>1 DEF Func, FunctionTyped
<1>8. CASE GenBegin
  <2>1. /\ pos = 0 /\ pos' = 1 /\ UNCHANGED <<phase, exit, why, has_errors, frames, value_map, vals>>
        /\ vals = <<>> /\ frames = <<>> /\ ip'.fn = Main /\ test_symbols' = <<>>
    BY <1>1, <1>8 DEF GenBegin, Step, TypeInv, GenerateTypes, IInv, GenerateInv
  <2>2. ASSUME NEW n \in TopLevelFns PROVE FunctionTyped(FuncType(n))
    <3>1. ast[n] \in Node /\ ast[n].k = "fn"
      BY <1>1 DEF TopLevelFns, Nodes, TreeInv
    <3>2. PICK params : params = ast[n].params /\ params \in Seq([name : STRING, type : STRING])
      BY <3>1 DEF Node, ExprNode, Params
    <3>3. [i \in DOMAIN params |-> Resolve(params[i].type)] \in Seq(TypeNames)
      BY <3>2, ResolveTyped
    <3>4. \A t \in TypeNames : (IF t = NoType THEN <<>> ELSE <<t>>) \in Seq(TypeNames)
      OBVIOUS
    <3>5. PICK rets \in Seq(TypeNames) :
              FuncType(n) = Func(Sym(ast[n].name),
                                 [i \in DOMAIN params |-> Resolve(params[i].type)], rets, 0)
      BY <3>2, <3>4, ResolveTyped DEF FuncType
    <3> QED BY <1>6, <3>3, <3>5
  <2>3. DOMAIN funcs' = {Main} \cup TopLevelFns /\ TopLevelFns \subseteq Nat \ {0}
    BY <1>8 DEF GenBegin, TopLevelFns, Nodes
  <2>4. funcs'[Main] = Func(Sym("__main"), <<>>, <<>>, 1)
    BY <1>8 DEF GenBegin
  <2>5. \A n \in TopLevelFns : funcs'[n] = FuncType(n)
    BY <1>8, <2>3 DEF GenBegin, Main
  <2>7. FunctionTyped(funcs'[Main]) /\ funcs'[Main].params = <<>>
    BY <1>7, <2>4
  <2>8. ModuleTyped'
    BY <2>2, <2>3, <2>5, <2>7 DEF ModuleTyped, Main
  <2>9. TypeOK'
    BY <1>2, <2>1 DEF TypeInv, TypeOK
  <2>10. \A n \in Nodes' : OperandsPrecede(n)'
    BY <1>2 DEF TypeInv, OperandsPrecede, Kid, Nodes
  <2>11. CheckTypes'
    BY <1>1, <1>2, <2>1 DEF TypeInv, CheckTypes
  <2>12. Len(vals') = 0 /\ DOMAIN frames' = {} /\ test_symbols' \in Seq(Range(test_symbols'))
    BY <2>1
  <2>13. GenerateTypes'
    BY <1>1, <2>1, <2>3, <2>8, <2>12 DEF GenerateTypes
  <2> QED BY <2>9, <2>10, <2>11, <2>13 DEF TypeInv
<1>9. CASE GenIntLiteral
  <2>1. pos \in Nodes /\ ast[pos].k = "int"
    BY <1>9 DEF GenIntLiteral, Generating, At
  <2>2. ast[pos].value \in Int
    BY <1>3, <2>1 DEF Node, ExprNode
  <2>3. <<ast[pos].value>>[1] \in Int
    BY <2>2
  <2> QED BY <1>1, <1>4, <1>9, <2>1, <2>3, CreateKeepsTypes DEF GenIntLiteral
<1>10. CASE GenIdentifier
  <2>1. pos \in Nodes /\ ast[pos].k = "ident"
    BY <1>10 DEF GenIdentifier, Generating, At
  <2>2. CASE ast[pos].name \in DOMAIN value_map
    <3>1. value_map[ast[pos].name] \in Value
      BY <1>3, <2>1, <2>2 DEF Range
    <3>2. /\ vals' = Append(vals, value_map[ast[pos].name])
          /\ Step /\ UNCHANGED <<has_errors, funcs, ip, frames, value_map, test_symbols>>
      BY <1>10, <2>2 DEF GenIdentifier
    <3>3. ModuleTyped'
      BY <1>3, <2>1, <3>2 DEF ModuleTyped, Main
    <3> QED BY <1>1, <1>3, <2>1, <3>1, <3>2, <3>3, GenerateStepKeepsTypes
  <2>3. CASE ast[pos].name \notin DOMAIN value_map
    <3>1. Stop("crash", "value_map.at") /\ UNCHANGED genVars
      BY <1>10, <2>3 DEF GenIdentifier
    <3> QED BY <3>1, StopKeepsTypes DEF Reasons
  <2> QED BY <2>2, <2>3
<1>11. ASSUME pos \in Nodes, ast[pos].k \in {"bin", "call", "intrinsic"}
       PROVE  /\ Operands(pos, vals) \in Seq(Value)
              /\ Len(Operands(pos, vals)) = Len(ast[pos].kids)
  BY <1>3, <1>11, OperandsTyped
<1>12. CASE GenBinaryOperator
  <2>1. pos \in Nodes /\ ast[pos].k = "bin" /\ ast[pos].op # "constant"
    <3>1. pos \in Nodes /\ ast[pos].k = "bin"
      BY <1>12 DEF GenBinaryOperator, Generating, At
    <3>2. ast[pos].op \in ArithOps \cup CmpOps
      BY <1>3, <3>1 DEF Node, ExprNode
    <3> QED BY <3>1, <3>2 DEF ArithOps, CmpOps
  <2>2. PICK o, t : /\ o = Operands(pos, vals) /\ t \in {"i1", o[1].type}
                    /\ Create(ast[pos].op, o, <<>>, t)
    BY <1>12 DEF GenBinaryOperator
  <2>3. o \in Seq(Value) /\ Len(o) = 2
    BY <1>3, <1>11, <2>1, <2>2 DEF OperandsPrecede
  <2>4. o[1] \in Value
    BY <2>3
  <2>5. t \in TypeNames
    BY <1>4, <2>2, <2>4 DEF Value
  <2> QED BY <1>1, <2>1, <2>2, <2>3, <2>5, CreateKeepsTypes
<1>13. CASE GenCall
  <2>1. pos \in Nodes /\ ast[pos].k = "call"
    BY <1>13 DEF GenCall, Generating, At
  <2>2. CASE ast[pos].name # Indirect /\ Declared(Sym(ast[pos].name))
    <3>1. PICK rets : /\ rets = funcs[LookupSymbol(Sym(ast[pos].name))].rets
                      /\ Create("call", Operands(pos, vals), Sym(ast[pos].name),
                                IF rets = <<>> THEN NoType ELSE rets[1])
      BY <1>13, <2>2 DEF GenCall
    <3>2. rets \in Seq(TypeNames)
      BY <1>3, <1>5, <2>1, <2>2, <3>1 DEF ModuleTyped, FunctionTyped
    <3>3. (IF rets = <<>> THEN NoType ELSE rets[1]) \in TypeNames
      BY <1>4, <3>2
    <3> QED BY <1>1, <1>11, <2>1, <3>1, <3>3, CreateKeepsTypes
  <2>3. CASE ~(ast[pos].name # Indirect /\ Declared(Sym(ast[pos].name)))
    <3>1. Stop("crash", "callee") /\ UNCHANGED genVars
      BY <1>13, <2>3, Zenon DEF GenCall
    <3> QED BY <3>1, StopKeepsTypes DEF Reasons
  <2> QED BY <2>2, <2>3
<1>14. CASE GenIntrinsicCall
  <2>1. pos \in Nodes /\ ast[pos].k = "intrinsic"
    BY <1>14 DEF GenIntrinsicCall, Generating, At
  <2>2. CASE ast[pos].name = "assert" /\ ast[pos].kids # <<>>
    <3>1. ast[pos].kids \in Seq(Nat \ {0})
      BY <1>3, <2>1, KidsOfNode DEF Node, ExprNode
    <3>2. Operands(pos, vals)[1] \in Value
      BY <1>11, <2>1, <2>2, <3>1
    <3>3. <<Operands(pos, vals)[1]>> \in Seq(Value)
      BY <3>2
    <3>4. Create("assert", <<Operands(pos, vals)[1]>>, <<>>, NoType)
      BY <1>14, <2>2 DEF GenIntrinsicCall
    <3> QED BY <1>1, <1>4, <2>1, <3>3, <3>4, CreateKeepsTypes
  <2>3. CASE ~(ast[pos].name = "assert" /\ ast[pos].kids # <<>>)
    <3>1. Stop("crash", "intrinsic") /\ UNCHANGED genVars
      BY <1>14, <2>3, Zenon DEF GenIntrinsicCall
    <3> QED BY <3>1, StopKeepsTypes DEF Reasons
  <2> QED BY <2>2, <2>3
<1>15. CASE GenLet
  <2>1. /\ pos \in Nodes /\ ast[pos].k = "let"
        /\ value_map' = Overwrite(value_map, Entry(ast[pos].name, vals[pos - 1]))
        /\ vals' = Append(vals, NoValue)
        /\ Step /\ UNCHANGED <<has_errors, funcs, ip, frames, test_symbols>>
    BY <1>15 DEF GenLet, Generating, At
  <2>2. vals[pos - 1] \in Value
    BY <1>3, <2>1 DEF OperandsPrecede
  <2>3. Range(Entry(ast[pos].name, vals[pos - 1])) \subseteq Value
    BY <2>2 DEF Entry, Range
  <2>4. Range(value_map') \subseteq Value
    BY <1>3, <2>1, <2>3, OverwriteTyped
  <2>5. ModuleTyped'
    BY <1>3, <2>1 DEF ModuleTyped, Main
  <2> QED BY <1>1, <1>3, <1>4, <2>1, <2>4, <2>5, GenerateStepKeepsTypes
<1>16. CASE GenReturn
  <2>1. pos \in Nodes /\ ast[pos].k = "return"
    BY <1>16 DEF GenReturn, Generating, At
  <2>2. PICK args : /\ args = IF ast[pos].expr THEN <<vals[pos - 1]>> ELSE <<>>
                    /\ Create("return", args, <<>>, NoType)
    BY <1>16 DEF GenReturn
  <2>3. ast[pos].expr => vals[pos - 1] \in Value
    BY <1>3, <2>1 DEF OperandsPrecede
  <2>4. args \in Seq(Value)
    BY <2>2, <2>3
  <2> QED BY <1>1, <1>4, <2>1, <2>2, <2>4, CreateKeepsTypes
<1>17. ASSUME NEW f, NEW b, NEW values, EnterBody(f, b, values), pos \in Nodes,
              Range(values) \subseteq Value, ModuleTyped', f \in DOMAIN funcs',
              UNCHANGED test_symbols \/ \E sym : test_symbols' = Append(test_symbols, sym),
              DOMAIN funcs \subseteq DOMAIN funcs'
       PROVE  TypeInv'
  <2>1. /\ frames' = Append(frames, [ip |-> ip, value_map |-> value_map])
        /\ ip' = [fn |-> f, block |-> b] /\ value_map' = values
        /\ vals' = Append(vals, NoValue) /\ Step /\ UNCHANGED has_errors
    BY <1>17 DEF EnterBody
  <2>2. ASSUME NEW i \in DOMAIN frames'
        PROVE  frames'[i].ip.fn \in DOMAIN funcs' /\ Range(frames'[i].value_map) \subseteq Value
    <3>1. frames \in Seq(Range(frames)) /\ Len(frames) \in Nat /\ DOMAIN frames = 1..Len(frames)
      BY <1>3, <1>17
    <3>2. DOMAIN frames' = 1..Len(frames) + 1
      BY <2>1, <3>1
    <3>3. CASE i \in 1..Len(frames)
      <4>1. frames'[i] = frames[i]
        BY <2>1, <3>1, <3>3, SeqAppend
      <4> QED BY <1>3, <1>17, <3>1, <3>3, <4>1
    <3>4. CASE i = Len(frames) + 1
      <4>1. frames'[i] = [ip |-> ip, value_map |-> value_map]
        BY <2>1, <3>1, <3>4, SeqAppend
      <4> QED BY <1>3, <1>17, <4>1
    <3> QED BY <3>1, <3>2, <3>3, <3>4
  <2> QED BY <1>1, <1>4, <1>17, <2>1, <2>2, GenerateStepKeepsTypes
<1>18. CASE GenFn
  <2>1. pos \in Nodes /\ ast[pos].k = "fn"
    BY <1>18 DEF GenFn, Generating, At
  <2> DEFINE sym == Sym(ast[pos].name)
             f   == LookupSymbol(sym)
  <2>2. CASE /\ Declared(sym) /\ Len(ast[pos].params) <= Len(funcs[f].params)
             /\ funcs' = [funcs EXCEPT ![f].blocks = @ + 1]
             /\ EnterBody(f, funcs[f].blocks + 1, EntryArguments(f))
             /\ UNCHANGED test_symbols
    <3>1. f \in DOMAIN funcs /\ f \in Nat
      BY <1>3, <1>5, <2>1, <2>2 DEF ModuleTyped
    <3>2. \E b : funcs' = [funcs EXCEPT ![f].blocks = b]
      BY <2>2
    <3> HIDE DEF f, sym
    <3>3. ModuleTyped' /\ DOMAIN funcs' = DOMAIN funcs
      BY <1>3, <2>1, <3>1, <3>2, ModuleKept
    <3>4. PICK types : types = funcs[f].params /\ types \in Seq(TypeNames)
      BY <1>3, <2>1, <3>1 DEF ModuleTyped, FunctionTyped
    <3>5. PICK params : params = ast[pos].params /\ params \in Seq([name : STRING, type : STRING])
      BY <1>3, <2>1 DEF Node, ExprNode, Params
    <3>6. ASSUME NEW x \in DOMAIN EntryArguments(f) PROVE EntryArguments(f)[x] \in Value
      <4> DEFINE S == {j \in DOMAIN params : params[j].name = x}
      <4>1. x \in ParamNames(pos)
        BY <3>6 DEF EntryArguments
      <4>2. S # {} /\ S \subseteq 1..Len(params) /\ Len(params) \in Nat
        BY <2>1, <3>5, <4>1 DEF ParamNames, Range
      <4>3. Max(S) \in S
        <5> HIDE DEF S
        <5> QED BY <4>2, MaxIsMember
      <4>4. EntryArguments(f)[x] = [fn |-> f, at |-> -Max(S), type |-> types[Max(S)]]
        BY <3>4, <3>5, <4>1 DEF EntryArguments
      <4>5. Max(S) \in 1..Len(types) /\ Max(S) \in Nat
        BY <2>2, <3>4, <3>5, <4>2, <4>3
      <4> HIDE DEF S
      <4>6. types[Max(S)] \in TypeNames /\ -Max(S) \in Int
        BY <3>4, <4>5
      <4> QED BY <3>1, <4>4, <4>6 DEF Value
    <3>7. Range(EntryArguments(f)) \subseteq Value
      BY <3>6 DEF Range
    <3> QED BY <1>17, <2>1, <2>2, <3>1, <3>3, <3>7
  <2>3. CASE Stop("crash", "addEntryBlock") /\ UNCHANGED genVars
    BY <2>3, StopKeepsTypes DEF Reasons
  <2> QED BY <1>18, <2>2, <2>3, Zenon DEF GenFn
<1>19. CASE GenTest
  <2>1. pos \in Nodes /\ ast[pos].k = "test" /\ pos \in Nat
    BY <1>19 DEF GenTest, Generating, At, Nodes
  <2>2. PICK sym : /\ funcs' = Overwrite(funcs, Entry(pos, Func(sym, <<>>, <<>>, 1)))
                   /\ EnterBody(pos, 1, <<>>)
                   /\ test_symbols' = Append(test_symbols, sym)
    BY <1>19 DEF GenTest
  <2>4. PICK F : /\ F = Func(sym, <<>>, <<>>, 1)
                 /\ FunctionTyped(F) /\ F.params = <<>>
    BY <1>7
  <2>5. /\ DOMAIN funcs' = DOMAIN funcs \cup {pos} /\ funcs'[pos] = F
        /\ \A g \in DOMAIN funcs : g # pos => funcs'[g] = funcs[g]
    BY <2>2, <2>4 DEF Overwrite, Entry
  <2>6. ASSUME NEW g \in DOMAIN funcs' PROVE FunctionTyped(funcs'[g])
    BY <1>3, <2>1, <2>4, <2>5 DEF ModuleTyped
  <2>7. Main \in DOMAIN funcs' /\ funcs'[Main].params = <<>>
    BY <1>3, <2>1, <2>4, <2>5 DEF ModuleTyped, Main
  <2>8. ModuleTyped'
    BY <1>3, <2>1, <2>5, <2>6, <2>7 DEF ModuleTyped, Main
  <2>9. Range(<<>>) \subseteq Value
    BY DEF Range
  <2> QED BY <1>17, <2>1, <2>2, <2>5, <2>8, <2>9
<1>20. CASE GenEnd
  <2>1. /\ pos \in Nodes /\ ast[pos].k = "end" /\ CloseBody
        /\ ip' = Last(frames).ip /\ value_map' = Last(frames).value_map
        /\ frames' = Front(frames) /\ vals' = Append(vals, NoValue)
        /\ Step /\ UNCHANGED <<has_errors, test_symbols>>
    BY <1>20 DEF GenEnd, Generating, At
  <2>2. PathAt(pos) # <<>> /\ PathAt(pos) = path[pos] /\ PathAt(pos) \in Seq(Nat)
    <3>1. PathAt(pos) = path[pos] /\ pos \in 1..Len(path)
      BY <1>1, <2>1 DEF TreeInv, PathAt, Nodes
    <3>2. path[pos] # <<>> /\ path \in Seq(Seq(Nat))
      BY <1>1, <2>1 DEF TreeInv
    <3> QED BY <3>1, <3>2
  <2>3. frames # <<>> /\ Len(frames) \in Nat \ {0}
    BY <1>3, <2>1, <2>2
  <2>4. pos > 1
    <3>1. PathAt(1) = <<>>
      BY <1>1 DEF TreeInv
    <3> QED BY <1>3, <2>1, <2>2, <3>1
  <2>5. OperationTyped(ImplicitReturn)
    <3>1. vals[pos - 1] \in Value
      BY <1>3, <2>1, <2>4
    <3>2. PICK args, attr, type : /\ args \in {<<>>, <<vals[pos - 1]>>}
                                  /\ ImplicitReturn = Operation("return", args, attr, type)
      BY DEF ImplicitReturn
    <3>3. <<vals[pos - 1]>> \in Seq(Value)
      BY <3>1
    <3>4. args \in Seq(Value)
      BY <1>4, <3>2, <3>3, Zenon
    <3> QED BY <3>2, <3>4 DEF OperationTyped, Operation
  <2>6. ModuleTyped' /\ DOMAIN funcs' = DOMAIN funcs
    <3>1. CASE funcs' = funcs
      BY <1>3, <2>1, <3>1 DEF ModuleTyped, Main
    <3>2. CASE funcs' = [funcs EXCEPT ![ip.fn].ops = Append(@, ImplicitReturn)]
      BY <1>3, <2>1, <2>5, <3>2, ModuleAppend
    <3> QED BY <2>1, <3>1, <3>2 DEF CloseBody
  <2>7. /\ Last(frames) = frames[Len(frames)] /\ Len(frames) \in DOMAIN frames
        /\ DOMAIN frames' \subseteq DOMAIN frames
        /\ \A i \in DOMAIN frames' : frames'[i] = frames[i]
    <3>1. DOMAIN frames = 1..Len(frames) /\ Last(frames) = frames[Len(frames)]
      BY <1>3, <2>1 DEF Last
    <3>2. frames' = [i \in 1..Len(frames) - 1 |-> frames[i]]
      BY <1>3, <2>1, <2>3 DEF Front
    <3> QED BY <2>3, <3>1, <3>2
  <2>8. ip'.fn \in DOMAIN funcs' /\ Range(value_map') \subseteq Value
    BY <1>3, <2>1, <2>6, <2>7
  <2>9. \A i \in DOMAIN frames' :
            frames'[i].ip.fn \in DOMAIN funcs' /\ Range(frames'[i].value_map) \subseteq Value
    BY <1>3, <2>1, <2>6, <2>7
  <2> QED BY <1>1, <1>4, <2>1, <2>6, <2>8, <2>9, GenerateStepKeepsTypes
<1>21. CASE GenFinish(run_tests)
  <2>1. /\ pos = Len(ast) + 1 /\ phase' = "lower" /\ pos' = 0
        /\ UNCHANGED <<has_errors, exit, why, vals, value_map>>
    BY <1>21 DEF GenFinish, Enter
  <2>2. ip.fn \in DOMAIN funcs /\ ModuleTyped
    BY <1>1, <2>1 DEF TypeInv, TypeOK, GenerateTypes
  <2>3. \A sym : OperationTyped(Operation("call", <<>>, sym, NoType))
    BY <1>4 DEF OperationTyped, Operation
  <2>4. OperationTyped(Operation("return", <<>>, <<>>, NoType))
    BY <1>4 DEF OperationTyped, Operation
  <2>5. PICK calls : /\ calls \in {<<>>, [i \in DOMAIN test_symbols |->
                                           Operation("call", <<>>, test_symbols[i], NoType)]}
                     /\ funcs' = [funcs EXCEPT ![ip.fn].ops =
                            @ \o Append(calls, Operation("return", <<>>, <<>>, NoType))]
    BY <1>21 DEF GenFinish
  <2>6. /\ calls \in Seq(Range(calls))
        /\ \A i \in DOMAIN calls : OperationTyped(calls[i])
    <3>1. test_symbols \in Seq(Range(test_symbols))
      BY <1>1, <2>1 DEF TypeInv, TypeOK, GenerateTypes
    <3>2. CASE calls = <<>>
      BY <3>2
    <3>3. CASE calls = [i \in DOMAIN test_symbols |->
                            Operation("call", <<>>, test_symbols[i], NoType)]
      BY <2>3, <3>1, <3>3 DEF Range
    <3> QED BY <2>5, <3>2, <3>3
  <2>7. PICK r : r = Operation("return", <<>>, <<>>, NoType) /\ OperationTyped(r)
    BY <2>4
  <2>8. /\ Append(calls, r) \in Seq(Range(Append(calls, r)))
        /\ \A i \in DOMAIN Append(calls, r) : OperationTyped(Append(calls, r)[i])
    <3>1. /\ Append(calls, r) \in Seq(Range(Append(calls, r)))
          /\ DOMAIN Append(calls, r) = 1..Len(calls) + 1 /\ Len(calls) \in Nat
          /\ \A i \in 1..Len(calls) : Append(calls, r)[i] = calls[i]
          /\ Append(calls, r)[Len(calls) + 1] = r
      BY <2>6, SeqAppend
    <3>2. ASSUME NEW i \in DOMAIN Append(calls, r) PROVE OperationTyped(Append(calls, r)[i])
      <4>1. i \in 1..Len(calls) \/ i = Len(calls) + 1
        BY <3>1
      <4>2. DOMAIN calls = 1..Len(calls)
        BY <2>6
      <4> QED BY <2>6, <2>7, <3>1, <4>1, <4>2
    <3> QED BY <3>1, <3>2
  <2>9. PICK more : more = Append(calls, r)
    OBVIOUS
  <2>10. PICK ops : ops = funcs[ip.fn].ops \o more
    OBVIOUS
  <2>11. ops \in Seq(Range(ops)) /\ \A i \in DOMAIN ops : OperationTyped(ops[i])
    <3>1. PICK old : /\ old = funcs[ip.fn].ops /\ old \in Seq(Range(old))
                     /\ \A i \in DOMAIN old : OperationTyped(old[i])
      BY <2>2 DEF ModuleTyped, FunctionTyped
    <3> QED BY <2>8, <2>9, <2>10, <3>1, ConcatTyped
  <2>12. ModuleTyped'
    BY <2>2, <2>5, <2>7, <2>9, <2>10, <2>11, ModuleKept
  <2>13. TypeOK'
    BY <1>2, <2>1 DEF TypeInv, TypeOK, Phases
  <2>14. \A n \in Nodes' : OperandsPrecede(n)'
    BY <1>2 DEF TypeInv, OperandsPrecede, Kid, Nodes
  <2>15. CheckTypes' /\ GenerateTypes'
    BY <1>2, <2>1, <2>12 DEF TypeInv, CheckTypes, GenerateTypes
  <2> QED BY <2>13, <2>14, <2>15 DEF TypeInv
<1> QED BY <1>8, <1>9, <1>10, <1>12, <1>13, <1>14, <1>15, <1>16, <1>18, <1>19, <1>20, <1>21, Zenon
        DEF GenNext


-----------------------------------------------------------------------------
\* main() and the running program leave the tables of the passes alone.
LEMMA DriverKeepsTypes ==
    ASSUME IInv', TypeInv, Driver \/ ExecNext \/ UNCHANGED runVars,
           UNCHANGED <<parserVars, resolverVars, checkerVars, genVars, argv>>
    PROVE  TypeInv'
<1>1. UNCHANGED <<ast, path, open, tail, argv, variables, functions, saved, symbol_types,
                  function_signatures, return_type, ty, vals, value_map, funcs, ip, frames,
                  test_symbols>>
  BY DEF parserVars, resolverVars, checkerVars, genVars
<1>2. ASSUME UNCHANGED <<has_errors, exit, why>>,
             \/ UNCHANGED <<phase, pos>>
             \/ phase = "start" /\ phase' = "parse" /\ pos' = 0
             \/ phase = "lower" /\ phase' = "execute" /\ pos' = 0
             \/ phase = "execute" /\ phase' = "run" /\ pos' = 0
      PROVE  TypeInv'
  <2>1. TypeOK'
    BY <1>1, <1>2 DEF TypeInv, TypeOK, Phases
  <2>2. \A n \in Nodes' : OperandsPrecede(n)'
    BY <1>1 DEF TypeInv, OperandsPrecede, Kid, Nodes
  <2>3. ReturnTypesMirrorNesting => ReturnTypesMirrorNesting'
    BY <1>1, <1>2 DEF ReturnTypesMirrorNesting, Here, Nodes, DeclaredReturn
  <2>4. CheckTypes'
    BY <1>1, <1>2, <2>3 DEF TypeInv, CheckTypes
  <2>5. ModuleTyped => ModuleTyped'
    BY <1>1 DEF ModuleTyped
  <2>6. GenerateTypes'
    BY <1>1, <1>2, <2>5 DEF TypeInv, GenerateTypes
  <2> QED BY <2>1, <2>2, <2>4, <2>6 DEF TypeInv
<1>3. ASSUME NEW code \in {"success", "failure", "crash"}, NEW reason \in Reasons,
             Stop(code, reason)
      PROVE  TypeInv'
  BY <1>3, StopKeepsTypes
<1>4. CASE Driver
  <2>1. CASE Usage \/ EmitMLIR \/ EmitLLVM
    BY <1>3, <2>1 DEF Usage, EmitMLIR, EmitLLVM, Reasons
  <2>2. CASE Start
    BY <1>2, <2>2 DEF Start, Enter
  <2>3. CASE Lower
    BY <1>2, <1>3, <2>3 DEF Lower, Enter, Reasons
  <2> QED BY <1>4, <2>1, <2>2, <2>3 DEF Driver
<1>5. CASE UNCHANGED runVars
  BY <1>2, <1>5 DEF runVars
<1>6. CASE ExecNext
  <2>1. \/ UNCHANGED runVars
        \/ phase = "execute" /\ Enter("run")
        \/ \E code \in {"success", "failure", "crash"}, reason \in Reasons : Stop(code, reason)
    BY <1>6 DEF ExecNext, JITFails, RunInvalid, Invoke, RunIllFormed, RunConstant, RunArith,
                RunUndefined, RunCompare, RunAssert, RunCall, RunReturn, RunEnd, Result, Reasons
  <2>2. CASE phase = "execute" /\ Enter("run")
    BY <1>2, <2>2 DEF Enter
  <2> QED BY <1>3, <1>5, <2>1, <2>2
<1> QED BY <1>4, <1>5, <1>6

\* TypeInv holds before the compiler starts.
LEMMA InitTypeInv == Init => TypeInv
<1> SUFFICES ASSUME Init PROVE TypeInv
  OBVIOUS
<1>1. /\ phase = "start" /\ pos = 0 /\ has_errors = FALSE /\ exit = "none" /\ why = "none"
      /\ argv \in Invocations
      /\ ast = <<>> /\ path = <<>> /\ open = <<>> /\ tail = FALSE
      /\ variables = {} /\ functions = {} /\ saved = <<>>
      /\ symbol_types = <<>> /\ function_signatures = <<>> /\ return_type = <<>> /\ ty = <<>>
      /\ vals = <<>> /\ value_map = <<>> /\ test_symbols = <<>>
  BY DEF Init, ParserInit, ResolverInit, CheckerInit, GenInit
<1>2. \A S : <<>> \in Seq(S) /\ Len(<<>>) = 0 /\ DOMAIN <<>> = {}
  OBVIOUS
<1>3. Range(<<>>) = {}
  BY DEF Range
<1>4. TypeOK
  <2>1. /\ <<>> \in Seq(Node) /\ <<>> \in Seq(Seq(Nat)) /\ <<>> \in Seq(Nat)
        /\ <<>> \in Seq(SUBSET STRING) /\ <<>> \in Seq(TypeNames) /\ <<>> \in Seq(Value)
        /\ Len(<<>>) = 0
    BY <1>2
  <2>2. /\ phase \in Phases /\ pos \in Nat /\ has_errors \in BOOLEAN /\ why \in Reasons
        /\ exit \in {"none", "success", "failure", "crash"}
        /\ variables \subseteq STRING /\ functions \subseteq STRING
    BY <1>1 DEF Phases, Reasons
  <2>3. Range(symbol_types) = {} /\ Range(value_map) = {}
    BY <1>1, <1>3
  <2>4. /\ ast \in Seq(Node) /\ path \in Seq(Seq(Nat)) /\ Len(path) = Len(ast)
        /\ open \in Seq(Nat) /\ tail \in BOOLEAN
    BY <1>1, <2>1, Zenon
  <2>5. /\ saved \in Seq(SUBSET STRING) /\ return_type \in Seq(TypeNames)
        /\ ty \in Seq(TypeNames) /\ vals \in Seq(Value)
    BY <1>1, <2>1, Zenon
  <2>6. Len(ty) <= Len(ast) /\ Len(vals) <= Len(ast)
    BY <1>1, <2>1
  <2>7. /\ argv \in Invocations
        /\ Range(symbol_types) \subseteq TypeNames /\ Range(value_map) \subseteq Value
    BY <1>1, <2>3
  <2> QED BY <2>2, <2>4, <2>5, <2>6, <2>7, Zenon DEF TypeOK
<1>5. CheckTypes /\ GenerateTypes
  BY <1>1, <1>2 DEF CheckTypes, GenerateTypes
<1>6. \A n \in Nodes : OperandsPrecede(n)
  BY <1>1, <1>2 DEF Nodes
<1> QED BY <1>4, <1>5, <1>6 DEF TypeInv

\* Every step of the compiler keeps TypeInv.
LEMMA StepTypeInv == IInv /\ TypeInv /\ [Next]_vars => TypeInv'
<1> SUFFICES ASSUME IInv, TypeInv, [Next]_vars PROVE TypeInv'
  OBVIOUS
<1>1. IInv'
  BY StepIInv
<1>2. CASE UNCHANGED vars
  BY <1>1, <1>2, DriverKeepsTypes DEF vars
<1>3. CASE Driver /\ UNCHANGED <<parserVars, resolverVars, checkerVars, genVars, argv, stack>>
  BY <1>1, <1>3, DriverKeepsTypes
<1>4. CASE ParserNext /\ UNCHANGED <<resolverVars, checkerVars, genVars, argv, stack>>
  BY <1>1, <1>4, ParserKeepsTypes
<1>5. CASE ResolverNext /\ UNCHANGED <<parserVars, checkerVars, genVars, argv, stack>>
  BY <1>1, <1>5, ResolverKeepsTypes
<1>6. CASE CheckerNext /\ UNCHANGED <<parserVars, resolverVars, genVars, argv, stack>>
  BY <1>1, <1>6, CheckerKeepsTypes
<1>7. CASE /\ GenNext(run_tests)
           /\ UNCHANGED <<parserVars, resolverVars, checkerVars, argv, stack>>
  BY <1>1, <1>7, GeneratorKeepsTypes
<1>8. CASE Execute /\ UNCHANGED <<parserVars, resolverVars, checkerVars, genVars, argv>>
  BY <1>1, <1>8, DriverKeepsTypes DEF Execute
<1>9. CASE Ended /\ UNCHANGED <<parserVars, resolverVars, checkerVars, argv, stack>>
  BY <1>1, <1>9, DriverKeepsTypes DEF Ended
<1> QED BY <1>2, <1>3, <1>4, <1>5, <1>6, <1>7, <1>8, <1>9, Zenon DEF Next

\* For every source and every bound: each pass finds the tables of the passes
\* before it well formed, and leaves its own so.
THEOREM Typing == Spec => []TypeInv
<1>1. Init => IInv /\ TypeInv
  BY InitIInv, InitTypeInv
<1>2. (IInv /\ TypeInv) /\ [Next]_vars => (IInv /\ TypeInv)'
  BY StepIInv, StepTypeInv
<1> QED BY <1>1, <1>2, PTL DEF Spec

\* Every variable has a value of its type, whatever the source.
THEOREM TypeCorrectness == Spec => []TypeOK
<1>1. TypeInv => TypeOK
  BY DEF TypeInv
<1> QED BY <1>1, Typing, PTL

\* Each `return` meets the return type of its own declaration, whatever bodies
\* come before it: return_type is pushed and popped in step.
THEOREM ReturnTypes == Spec => []ReturnTypesMirrorNesting
<1>1. TypeInv => ReturnTypesMirrorNesting
  BY DEF TypeInv, CheckTypes, ReturnTypesMirrorNesting
<1> QED BY <1>1, Typing, PTL

=============================================================================
