-------------------------- MODULE SoundnessProofs --------------------------
(***************************************************************************)
(* Proofs that the checker and the generator agree on types and that an     *)
(* accepted source becomes a valid module: SoundnessInv is an invariant.    *)
(***************************************************************************)
EXTENDS SoundnessInvariant, GeneratorProofs

-----------------------------------------------------------------------------
\* Nodes that may join the tree at the block being read.
Fits(nodes) ==
    /\ Closed(nodes)
    /\ \A i \in 1..Len(nodes) :
        /\ "kids" \in DOMAIN nodes[i] =>
              \A d \in Range(nodes[i].kids) : nodes[i - d].k \in ExprKinds
        /\ nodes[i].k = "let" \/ (nodes[i].k = "return" /\ nodes[i].expr) =>
              nodes[i - 1].k \in ExprKinds
        /\ nodes[i].k = "test" => open = <<>>
        /\ nodes[i].k = "end" =>
              /\ open # <<>>
              /\ ast[Last(open)].k = "fn" =>
                    IF i = 1 THEN ast[Len(ast)].k = "return" ELSE nodes[i - 1].k = "return"

\* Joining them keeps the tree in shape.
LEMMA PutKeepsShape ==
    ASSUME TreeInv, \A n \in Nodes : OperandsPrecede(n), Shaped,
           NEW nodes, Fits(nodes), Put(nodes)
    PROVE  Shaped'
<1>1. /\ nodes \in Seq(Node) /\ Len(ast) \in Nat /\ Len(nodes) \in Nat
      /\ ast \in Seq(Node) /\ path \in Seq(Seq(Nat)) /\ Len(path) = Len(ast)
  BY DEF Fits, Closed, TreeInv
<1>2. /\ Len(ast') = Len(ast) + Len(nodes)
      /\ \A n \in 1..Len(ast) : ast'[n] = ast[n]
      /\ \A i \in 1..Len(nodes) : ast'[Len(ast) + i] = nodes[i]
  BY <1>1 DEF Put
<1>3. /\ \A n \in 1..Len(ast) : path'[n] = path[n]
      /\ \A i \in 1..Len(nodes) : path'[Len(ast) + i] = open
  <2> DEFINE more == [i \in 1..Len(nodes) |-> open]
  <2>1. more \in Seq({open}) /\ Len(more) = Len(nodes) /\ path' = path \o more
        /\ \A i \in 1..Len(nodes) : more[i] = open
    BY <1>1 DEF Put
  <2> HIDE DEF more
  <2> QED BY <1>1, <2>1
<1> SUFFICES ASSUME NEW n \in 1..Len(ast') PROVE ShapedNode(n)'
  BY DEF Shaped, Nodes
<1>4. CASE n \in 1..Len(ast)
  <2>1. n \in Nodes /\ OperandsPrecede(n) /\ ShapedNode(n) /\ ast'[n] = ast[n] /\ path'[n] = path[n]
    BY <1>2, <1>3, <1>4 DEF Nodes, Shaped
  <2>2. ASSUME "kids" \in DOMAIN ast[n], NEW i \in DOMAIN ast[n].kids
        PROVE  ast'[Kid(n, i)].k \in ExprKinds /\ path'[Kid(n, i)] = path[n]
    <3>1. Kid(n, i) \in 1..Len(ast)
      BY <1>1, <1>4, <2>1, <2>2 DEF OperandsPrecede
    <3> QED BY <1>2, <1>3, <2>1, <2>2, <3>1 DEF ShapedNode
  <2>3. ast[n].k = "let" \/ (ast[n].k = "return" /\ ast[n].expr) =>
            ast'[n - 1].k \in ExprKinds /\ path'[n - 1] = path[n]
    <3> SUFFICES ASSUME ast[n].k = "let" \/ (ast[n].k = "return" /\ ast[n].expr)
                 PROVE  ast'[n - 1].k \in ExprKinds /\ path'[n - 1] = path[n]
      OBVIOUS
    <3>1. n > 1
      BY <2>1 DEF OperandsPrecede
    <3>2. n - 1 \in 1..Len(ast)
      BY <1>1, <1>4, <3>1
    <3>3. ast[n - 1].k \in ExprKinds /\ path[n - 1] = path[n]
      BY <2>1 DEF ShapedNode
    <3> QED BY <1>2, <1>3, <3>2, <3>3
  <2>4. ast[n].k = "end" /\ ast'[Last(path[n])].k = "fn" => ast'[n - 1].k = "return"
    <3> SUFFICES ASSUME ast[n].k = "end", ast'[Last(path[n])].k = "fn"
                 PROVE  ast'[n - 1].k = "return"
      OBVIOUS
    <3>1. Last(path[n]) \in Nodes /\ Last(path[n]) < n
      BY <2>1, LetsStep
    <3>2. ast'[Last(path[n])] = ast[Last(path[n])] /\ n - 1 \in 1..Len(ast)
      BY <1>1, <1>2, <1>4, <3>1 DEF Nodes
    <3> QED BY <1>2, <2>1, <3>2 DEF ShapedNode
  <2> QED BY <2>1, <2>2, <2>3, <2>4 DEF ShapedNode, Kid
<1>5. CASE n \notin 1..Len(ast)
  <2>1. PICK i \in 1..Len(nodes) : n = Len(ast) + i
    <3>1. n - Len(ast) \in 1..Len(nodes) /\ n = Len(ast) + (n - Len(ast))
      BY <1>1, <1>2, <1>5
    <3> QED BY <3>1
  <2>2. ast'[n] = nodes[i] /\ path'[n] = open /\ nodes[i] \in Node
    BY <1>1, <1>2, <1>3, <2>1
  <2>3. ASSUME NEW d \in Nat \ {0}, d < i
        PROVE  ast'[n - d] = nodes[i - d] /\ path'[n - d] = open
    <3>1. i - d \in 1..Len(nodes) /\ n - d = Len(ast) + (i - d)
      BY <1>1, <2>1, <2>3
    <3> QED BY <1>2, <1>3, <3>1
  <2>4. ASSUME "kids" \in DOMAIN nodes[i], NEW c \in DOMAIN nodes[i].kids
        PROVE  LET kid == n - nodes[i].kids[c]
               IN  ast'[kid].k \in ExprKinds /\ path'[kid] = open
    <3>1. nodes[i].kids[c] \in Nat \ {0} /\ nodes[i].kids[c] \in Range(nodes[i].kids)
      BY <2>2, <2>4, KidsOfNode DEF Range
    <3>2. nodes[i].kids[c] < i /\ nodes[i - nodes[i].kids[c]].k \in ExprKinds
      BY <2>4, <3>1 DEF Fits, Closed
    <3> QED BY <2>3, <3>1, <3>2
  <2>5. nodes[i].k = "let" \/ (nodes[i].k = "return" /\ nodes[i].expr) =>
            ast'[n - 1].k \in ExprKinds /\ path'[n - 1] = open
    BY <2>3 DEF Fits, Closed
  <2>6. nodes[i].k = "end" /\ ast'[Last(open)].k = "fn" => ast'[n - 1].k = "return"
    <3> SUFFICES ASSUME nodes[i].k = "end", ast'[Last(open)].k = "fn"
                 PROVE  ast'[n - 1].k = "return"
      OBVIOUS
    <3>1. open # <<>> /\ open \in Seq(Nat) /\ PathAt(Len(ast) + 1) = open
      BY <1>1 DEF Fits, TreeInv, PathAt, Nodes
    <3>2. Last(open) \in Nodes
      <4>1. Nested(Len(ast) + 1) /\ Len(open) \in 1..Len(open)
        BY <1>1, <3>1 DEF TreeInv
      <4> QED BY <3>1, <4>1 DEF Nested, Last
    <3>3. ast'[Last(open)] = ast[Last(open)] /\ Len(ast) \in 1..Len(ast)
      BY <1>1, <1>2, <3>2 DEF Nodes
    <3>4. IF i = 1 THEN ast[Len(ast)].k = "return" ELSE nodes[i - 1].k = "return"
      BY <3>3 DEF Fits
    <3>5. CASE i = 1
      BY <1>1, <1>2, <2>1, <3>3, <3>4, <3>5
    <3>6. CASE i # 1
      BY <2>3, <3>4, <3>6
    <3> QED BY <3>5, <3>6
  <2>7. nodes[i].k = "test" => open = <<>>
    BY DEF Fits
  <2> QED BY <2>2, <2>4, <2>5, <2>6, <2>7 DEF ShapedNode, Kid
<1> QED BY <1>4, <1>5

\* An expression fits, and so does the statement that takes its value.
LEMMA ExpressionsFit ==
    ASSUME NEW e \in Expressions
    PROVE  Fits(e) /\ \A n \in Node : n.k \in {"let", "return"} => Fits(Append(e, n))
<1>1. /\ Len(e) \in Nat \ {0} /\ e \in Seq(ExprNode) /\ Closed(e)
      /\ \A i \in 1..Len(e) : e[i].k \in ExprKinds
  <2>1. e \in Seq(ExprNode)
    BY SourceAssumption DEF WellFormed
  <2>2. \A x \in ExprNode : x.k \in ExprKinds
    BY DEF ExprNode, ExprKinds
  <2> QED BY <2>1, <2>2, ExpressionNodes, ExpressionsAreClosed
<1>2. ASSUME NEW i \in 1..Len(e), "kids" \in DOMAIN e[i], NEW d \in Range(e[i].kids)
      PROVE  e[i - d].k \in ExprKinds
  <2>1. e[i] \in Node /\ e[i].kids \in Seq(Nat \ {0})
    BY <1>1, <1>2, KidsOfNode DEF Closed
  <2>2. d \in Nat \ {0} /\ d < i
    BY <1>1, <1>2, <2>1 DEF Closed, Range
  <2> QED BY <1>1, <2>2
<1>3. Fits(e)
  BY <1>1, <1>2 DEF Fits, ExprKinds
<1>4. ASSUME NEW n \in Node, n.k \in {"let", "return"} PROVE Fits(Append(e, n))
  <2> DEFINE nodes == Append(e, n)
  <2>1. /\ Closed(nodes) /\ Len(nodes) = Len(e) + 1 /\ nodes[Len(e) + 1] = n
        /\ \A i \in 1..Len(e) : nodes[i] = e[i]
    BY <1>1, <1>4, ExpressionsAreClosed
  <2>2. "kids" \notin DOMAIN n
    BY <1>4 DEF Node, ExprNode
  <2> HIDE DEF nodes
  <2>3. ASSUME NEW i \in 1..Len(e)
        PROVE  /\ "kids" \in DOMAIN nodes[i] =>
                     \A d \in Range(nodes[i].kids) : nodes[i - d].k \in ExprKinds
               /\ nodes[i].k \in ExprKinds
    <3>1. ASSUME "kids" \in DOMAIN e[i], NEW d \in Range(e[i].kids)
          PROVE  nodes[i - d].k \in ExprKinds
      <4>1. e[i] \in Node /\ e[i].kids \in Seq(Nat \ {0})
        BY <1>1, <3>1, KidsOfNode DEF Closed
      <4>2. d \in Nat \ {0} /\ d < i
        BY <1>1, <3>1, <4>1 DEF Closed, Range
      <4>3. i - d \in 1..Len(e)
        BY <1>1, <4>2
      <4> QED BY <1>1, <2>1, <4>3
    <3> QED BY <1>1, <2>1, <3>1
  <2>4. nodes[Len(e) + 1 - 1].k \in ExprKinds
    BY <1>1, <2>1
  <2>5. \A i \in 1..Len(nodes) : i \in 1..Len(e) \/ i = Len(e) + 1
    BY <1>1, <2>1
  <2>6. Fits(nodes)
    <3> SUFFICES ASSUME NEW i \in 1..Len(nodes)
                 PROVE  /\ "kids" \in DOMAIN nodes[i] =>
                              \A d \in Range(nodes[i].kids) : nodes[i - d].k \in ExprKinds
                        /\ nodes[i].k = "let" \/ (nodes[i].k = "return" /\ nodes[i].expr) =>
                              nodes[i - 1].k \in ExprKinds
                        /\ nodes[i].k \notin {"test", "end"}
      BY <2>1 DEF Fits
    <3>1. CASE i \in 1..Len(e)
      BY <2>3, <3>1 DEF ExprKinds
    <3>2. CASE i = Len(e) + 1
      BY <1>4, <2>1, <2>2, <2>4, <3>2
    <3> QED BY <2>5, <3>1, <3>2
  <2> QED BY <2>6 DEF nodes
<1> QED BY <1>3, <1>4

\* So does the declaration that opens a body.
LEMMA DeclarationFits ==
    ASSUME NEW n \in Node, n.k \in {"fn", "test"}, n.k = "test" => open = <<>>
    PROVE  Fits(<<n>>)
<1>1. <<n>> \in Seq(Node) /\ Len(<<n>>) = 1 /\ <<n>>[1] = n
  OBVIOUS
<1>2. "kids" \notin DOMAIN n
  BY DEF Node, ExprNode
<1> QED BY <1>1, <1>2 DEF Fits, Closed

\* Every production of the grammar keeps the tree in shape: a function without a
\* trailing return gets one, at its end.
LEMMA ParserKeepsShape ==
    ASSUME IInv, TypeInv, Shaped, ParserNext
    PROVE  Shaped'
<1>1. TreeInv /\ \A n \in Nodes : OperandsPrecede(n)
  BY DEF IInv, TypeInv
<1>2. ASSUME NEW nodes, Fits(nodes), Put(nodes) PROVE Shaped'
  BY <1>1, <1>2, PutKeepsShape
<1>3. ASSUME UNCHANGED <<ast, path>> PROVE Shaped'
  BY <1>3 DEF Shaped, ShapedNode, Nodes, Kid
<1>4. \A flag \in BOOLEAN : ReturnStmt(flag) \in Node /\ ReturnStmt(flag).k = "return"
  BY DEF ReturnStmt, Node
<1>5. CASE ParseLet
  <2>1. PICK e \in Expressions, b \in Bindings : Put(Append(e, LetBinding(b)))
    BY <1>5 DEF ParseLet
  <2>2. LetBinding(b) \in Node /\ LetBinding(b).k = "let"
    BY SourceAssumption DEF LetBinding, Node
  <2> QED BY <1>2, <2>1, <2>2, ExpressionsFit
<1>6. CASE ParseReturn
  <2>1. PICK e \in Expressions : Put(Append(e, ReturnStmt(TRUE)))
    BY <1>6 DEF ParseReturn
  <2> QED BY <1>2, <1>4, <2>1, ExpressionsFit
<1>7. CASE ParseExpressionStmt
  <2>1. PICK e \in Expressions : Put(e)
    BY <1>7 DEF ParseExpressionStmt
  <2> QED BY <1>2, <2>1, ExpressionsFit
<1>8. CASE ParseFn
  <2>1. PICK s \in Signatures : Put(<<FunctionDecl(s)>>)
    BY <1>8 DEF ParseFn
  <2>2. FunctionDecl(s) \in Node /\ FunctionDecl(s).k = "fn"
    BY SourceAssumption DEF FunctionDecl, Node
  <2> QED BY <1>2, <2>1, <2>2, DeclarationFits
<1>9. CASE ParseTest
  <2>1. TestDecl \in Node /\ TestDecl.k = "test"
    BY DEF TestDecl, Node
  <2>2. Put(<<TestDecl>>) /\ open = <<>>
    BY <1>9 DEF ParseTest
  <2> QED BY <1>2, <2>1, <2>2, DeclarationFits
<1>10. CASE ParseTailExpression
  <2>1. PICK e \in Expressions : Put(Append(e, ReturnStmt(TRUE))) \/ Put(e)
    BY <1>10 DEF ParseTailExpression
  <2> QED BY <1>2, <1>4, <2>1, ExpressionsFit
<1>11. CASE ParseClose
  <2>1. End \in Node /\ End.k = "end" /\ open # <<>>
    BY <1>11 DEF End, Node, ParseClose
  <2>2. CASE Put(<<End>>) /\ (ast[Last(open)].k = "fn" => ast[Len(ast)].k = "return")
    <3>1. <<End>> \in Seq(Node) /\ Len(<<End>>) = 1 /\ <<End>>[1] = End
      BY <2>1
    <3>2. "kids" \notin DOMAIN End
      BY DEF End
    <3>3. Fits(<<End>>)
      BY <2>1, <2>2, <3>1, <3>2 DEF Fits, Closed
    <3> QED BY <1>2, <2>2, <3>3
  <2>3. CASE Put(<<ReturnStmt(FALSE), End>>)
    <3> DEFINE nodes == <<ReturnStmt(FALSE), End>>
    <3>1. /\ nodes \in Seq(Node) /\ Len(nodes) = 2
          /\ nodes[1] = ReturnStmt(FALSE) /\ nodes[2] = End
      <4>1. ReturnStmt(FALSE) \in Node /\ End \in Node
        BY <1>4, <2>1
      <4>2. \A a, b \in Node : /\ <<a, b>> \in Seq(Node) /\ Len(<<a, b>>) = 2
                               /\ <<a, b>>[1] = a /\ <<a, b>>[2] = b
        OBVIOUS
      <4> QED BY <4>1, <4>2, Zenon
    <3>2. /\ ReturnStmt(FALSE).k = "return" /\ ~ReturnStmt(FALSE).expr /\ End.k = "end"
          /\ "kids" \notin DOMAIN ReturnStmt(FALSE) /\ "kids" \notin DOMAIN End
      BY DEF ReturnStmt, End
    <3>3. Put(nodes)
      BY <2>3
    <3> HIDE DEF nodes
    <3>4. \A i \in 1..Len(nodes) : i = 1 \/ i = 2
      BY <3>1
    <3>5. /\ nodes[1].k = "return" /\ ~nodes[1].expr /\ nodes[2].k = "end"
          /\ "kids" \notin DOMAIN nodes[1] /\ "kids" \notin DOMAIN nodes[2]
      BY <3>1, <3>2
    <3>6. Closed(nodes)
      <4> SUFFICES ASSUME NEW i \in 1..Len(nodes)
                   PROVE  /\ "kids" \notin DOMAIN nodes[i] /\ nodes[i].k \notin {"bin", "let"}
                          /\ ~(nodes[i].k = "return" /\ nodes[i].expr)
        BY <3>1 DEF Closed
      <4>1. CASE i = 1
        BY <3>5, <4>1
      <4>2. CASE i = 2
        BY <3>5, <4>2
      <4> QED BY <3>4, <4>1, <4>2
    <3>7. Fits(nodes)
      <4> SUFFICES ASSUME NEW i \in 1..Len(nodes)
                   PROVE  /\ "kids" \notin DOMAIN nodes[i] /\ nodes[i].k \notin {"test", "let"}
                          /\ ~(nodes[i].k = "return" /\ nodes[i].expr)
                          /\ nodes[i].k = "end" => i # 1 /\ nodes[i - 1].k = "return"
        BY <2>1, <3>6 DEF Fits
      <4>1. CASE i = 1
        BY <3>5, <4>1
      <4>2. CASE i = 2
        BY <3>5, <4>2
      <4> QED BY <3>4, <4>1, <4>2
    <3> QED BY <1>2, <3>3, <3>7
  <2>4. \/ Put(<<End>>) /\ (ast[Last(open)].k = "fn" => ast[Len(ast)].k = "return")
        \/ Put(<<ReturnStmt(FALSE), End>>)
    BY <1>11, <2>1 DEF ParseClose, InFn
  <2> QED BY <2>2, <2>3, <2>4
<1>12. CASE ParseEof \/ ParseUnreadable \/ ParseSyntaxError \/ ParseHugeInteger
  <2>1. UNCHANGED <<ast, path>>
    BY <1>12 DEF ParseEof, ParseUnreadable, ParseSyntaxError, ParseHugeInteger, parserVars
  <2> QED BY <1>3, <2>1
<1> QED BY <1>5, <1>6, <1>7, <1>8, <1>9, <1>10, <1>11, <1>12 DEF ParserNext

-----------------------------------------------------------------------------
\* Declarations stand one deep, if no function before the cursor is nested.
LEMMA FlatBodies ==
    ASSUME TreeInv, Shaped, NEW m \in 1..Len(ast) + 1,
           \A n \in Nodes : n < m /\ ast[n].k = "fn" => path[n] = <<>>
    PROVE  \/ PathAt(m) = <<>>
           \/ LET d == Last(PathAt(m))
              IN  /\ d \in Nodes /\ d < m /\ PathAt(m) = <<d>>
                  /\ ast[d].k \in {"fn", "test"} /\ path[d] = <<>>
<1> DEFINE p == PathAt(m)
<1>1. p \in Seq(Nat) /\ Nested(m) /\ Len(p) \in Nat
  <2>1. Nested(m)
    BY Zenon DEF TreeInv
  <2>2. path \in Seq(Seq(Nat)) /\ Len(path) = Len(ast) /\ open \in Seq(Nat)
    BY DEF TreeInv
  <2>3. p \in Seq(Nat)
    BY <2>2 DEF PathAt, Nodes
  <2> HIDE DEF p
  <2> QED BY <2>1, <2>3
<1>2. SUFFICES ASSUME Len(p) >= 1
               PROVE  LET d == Last(p)
                      IN  /\ d \in Nodes /\ d < m /\ p = <<d>>
                          /\ ast[d].k \in {"fn", "test"} /\ path[d] = <<>>
  BY <1>1
<1> DEFINE l == Len(p)
           d == p[l]
<1>3. /\ d \in Nodes /\ d < m /\ ast[d].k \in {"fn", "test"}
      /\ path[d] = SubSeq(p, 1, l - 1)
  <2>1. l \in 1..Len(p)
    BY <1>1, <1>2
  <2> QED BY <1>1, <2>1 DEF Nested
<1>4. path[d] = <<>>
  BY <1>3 DEF Shaped, ShapedNode
<1>5. Len(SubSeq(p, 1, l - 1)) = l - 1
  <2>1. p \in Seq(Range(p)) /\ p # <<>>
    BY <1>1, <1>2 DEF Range
  <2> HIDE DEF p
  <2> QED BY <2>1, SeqFront DEF Front
<1>6. l = 1
  BY <1>1, <1>3, <1>4, <1>5
<1>7. p = <<d>> /\ Last(p) = d
  BY <1>1, <1>6 DEF Last
<1> QED BY <1>3, <1>4, <1>7

\* Binding a name leaves the others' binders alone, in every body.
LEMMA BinderInBody ==
    ASSUME TreeInv, NEW n \in Nodes, NEW p
    PROVE  /\ Scope(p, n + 1) =
                  Scope(p, n) \cup (IF ast[n].k = "let" /\ path[n] = p THEN {ast[n].name} ELSE {})
           /\ \A x : BinderIn(x, p, n + 1) =
                  IF ast[n].k = "let" /\ path[n] = p /\ ast[n].name = x
                    THEN n ELSE BinderIn(x, p, n)
<1>1. Lets(p, n + 1) = Lets(p, n) \cup (IF ast[n].k = "let" /\ path[n] = p THEN {n} ELSE {})
  BY LetsStep
<1>2. Scope(p, n + 1) =
          Scope(p, n) \cup (IF ast[n].k = "let" /\ path[n] = p THEN {ast[n].name} ELSE {})
  BY <1>1 DEF Scope, NamesOf
<1>3. ASSUME NEW x, ~(ast[n].k = "let" /\ path[n] = p /\ ast[n].name = x)
      PROVE  BinderIn(x, p, n + 1) = BinderIn(x, p, n)
  <2>1. {m \in Lets(p, n + 1) : ast[m].name = x} = {m \in Lets(p, n) : ast[m].name = x}
    BY <1>1, <1>3
  <2> QED BY <2>1 DEF BinderIn
<1>4. ASSUME NEW x, ast[n].k = "let", path[n] = p, ast[n].name = x
      PROVE  BinderIn(x, p, n + 1) = n
  <2>1. PathAt(n + 1) = p
    BY <1>4, LetsStep DEF PathAfter
  <2> QED BY <1>4, <2>1, BinderStep
<1> QED BY <1>2, <1>3, <1>4, Zenon

\* What follows a return is the end of its body.
LEMMA ReturnEndsBody ==
    ASSUME TreeInv, ~EarlyReturn, NEW n \in Nodes, ast[n].k = "return"
    PROVE  n + 1 \in Nodes /\ ast[n + 1].k = "end" /\ path[n] # <<>> /\ path[n + 1] = path[n]
<1>1. n # Len(ast) /\ ast[n + 1].k = "end"
  BY DEF EarlyReturn
<1>2. n + 1 \in Nodes
  BY <1>1 DEF Nodes, TreeInv
<1>3. PathAt(n + 1) = path[n + 1] /\ PathAt(n + 1) = PathAfter(n)
  BY <1>2 DEF PathAt, TreeInv
<1>4. path[n + 1] # <<>>
  BY <1>1, <1>2 DEF TreeInv
<1> QED BY <1>1, <1>2, <1>3, <1>4 DEF PathAfter

\* No expression that is used is an intrinsic.
LEMMA OperandsAreValues ==
    ASSUME Shaped, ~AssertUsedAsValue, NEW n \in Nodes
    PROVE  /\ "kids" \in DOMAIN ast[n] =>
                \A i \in DOMAIN ast[n].kids : ast[Kid(n, i)].k \in ValueKinds
           /\ ast[n].k = "let" \/ (ast[n].k = "return" /\ ast[n].expr) =>
                ast[n - 1].k \in ValueKinds
  BY DEF Shaped, ShapedNode, AssertUsedAsValue, ValueKinds

\* A gap stays one: the tree is what it is, and a node keeps its type.
LEMMA GapStays ==
    ASSUME UNCHANGED <<ast, path>>, TypeInv,
           \/ ty' = ty
           \/ \E t : ty' = Append(ty, t)
    PROVE  Gap => Gap'
<1>1. /\ AssertUsedAsValue => AssertUsedAsValue'
      /\ SharedName => SharedName'
      /\ DuplicateFunction => DuplicateFunction'
      /\ EarlyReturn => EarlyReturn'
  BY DEF AssertUsedAsValue, SharedName, DuplicateFunction, EarlyReturn, Nodes, Kid, ParamNames,
     TopLevelFns, NamesOf
<1>2. MixedArithmetic => MixedArithmetic'
  <2> SUFFICES ASSUME NEW n \in DOMAIN ty, ast[n].k = "bin", ast[n].op \in ArithOps,
                      Clash(ty[Kid(n, 1)], ty[Kid(n, 2)])
               PROVE  MixedArithmetic'
    BY DEF MixedArithmetic
  <2>1. ty \in Seq(TypeNames) /\ n \in Nodes /\ DOMAIN ty = 1..Len(ty) /\ Len(ty) \in Nat
    BY SMTT(20) DEF TypeInv, TypeOK, Nodes
  <2>2. Kid(n, 1) \in 1..Len(ty) /\ Kid(n, 2) \in 1..Len(ty) /\ n \in 1..Len(ty)
    <3>1. OperandsPrecede(n) /\ "kids" \in DOMAIN ast[n] /\ Len(ast[n].kids) = 2
          /\ ast[n].kids \in Seq(Nat \ {0})
      <4>1. ast[n] \in Node
        BY <2>1 DEF TypeInv, TypeOK, Nodes
      <4>2. OperandsPrecede(n) /\ Len(ast[n].kids) = 2
        BY <2>1 DEF TypeInv, OperandsPrecede
      <4>3. "kids" \in DOMAIN ast[n]
        BY <4>1 DEF Node, ExprNode
      <4> QED BY <4>1, <4>2, <4>3, KidsOfNode
    <3>2. Kid(n, 1) \in 1..n - 1 /\ Kid(n, 2) \in 1..n - 1
      BY <3>1 DEF OperandsPrecede
    <3> QED BY <2>1, <3>2
  <2>3. \A m \in 1..Len(ty) : m \in DOMAIN ty' /\ ty'[m] = ty[m]
    BY <2>1
  <2>4. UNCHANGED <<Kid(n, 1), Kid(n, 2)>>
    BY DEF Kid
  <2> QED BY <2>2, <2>3, <2>4 DEF MixedArithmetic, Clash
<1> QED BY <1>1, <1>2 DEF Gap

-----------------------------------------------------------------------------
\* The type of a variable is that of a node before, or it was declared.
LEMMA TypeInKept ==
    ASSUME TreeInv, UNCHANGED <<ast, path, open>>, NEW n, NEW p, NEW x \in Scope(p, n),
           \A m \in Nodes : m < n => ty'[m] = ty[m]
    PROVE  TypeIn(x, p, n)' = TypeIn(x, p, n)
<1> DEFINE b == BinderIn(x, p, n)
<1>1. BinderIn(x, p, n)' = b
  BY BinderUnchanged
<1>2. ast[b].k = "let" => ty'[b] = ty[b]
  BY BinderIsMember DEF Lets
<1>3. \A c : ParamTypes(c)' = ParamTypes(c)
  BY DEF ParamTypes, ParamNames
<1> HIDE DEF b
<1>4. ASSUME NEW c, c = b PROVE TypeOf(c, x)' = TypeOf(c, x)
  BY <1>2, <1>3, <1>4 DEF TypeOf
<1> QED BY <1>1, <1>4 DEF TypeIn, b

\* A variable has the type of a value.
LEMMA VariablesHaveValues ==
    ASSUME TreeInv, SignaturesKnown, NEW n, NEW p, NEW x \in Scope(p, n),
           \A m \in Nodes : m < n => CheckedNode(m),
           p # <<>> => Last(p) \in Nodes /\ Last(p) < n
    PROVE  TypeIn(x, p, n) \in ScalarTypes
<1> DEFINE b == BinderIn(x, p, n)
<1>1. CASE b \in Lets(p, n)
  <2>1. b \in Nodes /\ b < n /\ ast[b].k = "let"
    BY <1>1 DEF Lets
  <2> HIDE DEF b
  <2>2. ty[b] \in ScalarTypes
    BY <2>1 DEF CheckedNode
  <2> QED BY <2>1, <2>2 DEF TypeIn, TypeOf, b
<1>2. CASE b \notin Lets(p, n)
  <2>1. b \in Nodes /\ b < n /\ x \in ParamNames(b) /\ ast[b].k = "fn"
    BY <1>2, BinderIsMember
  <2> HIDE DEF b
  <2>2. b \in TopLevelFns /\ ast[b] \in Node
    BY <2>1 DEF TopLevelFns, CheckedNode, TreeInv, Nodes
  <2> DEFINE named == {i \in DOMAIN ast[b].params : ast[b].params[i].name = x}
  <2>3. named # {} /\ named \subseteq 1..Len(ast[b].params) /\ Len(ast[b].params) \in Nat
    <3>1. ast[b].params \in Params
      BY <2>1, <2>2 DEF Node, ExprNode
    <3>2. \E i \in DOMAIN ast[b].params : ast[b].params[i].name = x
      BY <2>1 DEF ParamNames, Range
    <3> QED BY <3>1, <3>2 DEF Params
  <2>4. Max(named) \in named
    BY <2>3, MaxIsMember
  <2>5. Max(named) \in DOMAIN ast[b].params
    BY <2>4
  <2>6. ParamTypes(b)[x] = Resolve(ast[b].params[Max(named)].type)
    BY <2>1 DEF ParamTypes
  <2>7. ParamTypes(b)[x] \in ScalarTypes
    BY <2>2, <2>5, <2>6 DEF SignaturesKnown
  <2> QED BY <2>1, <2>7 DEF TypeIn, TypeOf, b
<1> QED BY <1>1, <1>2

\* What was checked stays checked.
LEMMA CheckedKept ==
    ASSUME TreeInv, WellScoped, UNCHANGED <<ast, path, open>>,
           NEW n \in Nodes, OperandsPrecede(n), CheckedNode(n),
           \A m \in Nodes : m <= n => ty'[m] = ty[m]
    PROVE  CheckedNode(n)'
<1>1. /\ ast[n] \in Node /\ n \in Nat /\ TopLevelFns' = TopLevelFns /\ ty'[n] = ty[n]
      /\ \A m \in 1..n - 1 : m \in Nodes /\ ty'[m] = ty[m]
  BY TreeUnchanged DEF TreeInv, Nodes
<1>2. \A i : Kid(n, i)' = Kid(n, i)
  BY DEF Kid
<1>3. "kids" \in DOMAIN ast[n] =>
          /\ KidTypes(n)' = KidTypes(n)
          /\ \A i \in DOMAIN ast[n].kids : ty'[Kid(n, i)] = ty[Kid(n, i)]
  BY <1>1, <1>2 DEF KidTypes, OperandsPrecede
<1>4. CASE ast[n].k = "int"
  BY <1>1, <1>4 DEF CheckedNode, ValueKinds, ExprKinds
<1>5. CASE ast[n].k = "ident"
  <2>1. ast[n].name \in Scope(path[n], n)
    BY <1>5 DEF WellScoped, WellScopedNode, ScopeAt
  <2>2. \A m \in Nodes : m < n => ty'[m] = ty[m]
    BY <1>1 DEF Nodes
  <2>3. ASSUME NEW x, x = ast[n].name, NEW p, p = path[n] PROVE TypeIn(x, p, n)' = TypeIn(x, p, n)
    BY <2>1, <2>2, <2>3, TypeInKept
  <2>4. ty[n] \in ScalarTypes /\ ty[n] = TypeIn(ast[n].name, path[n], n)
    BY <1>5 DEF CheckedNode, ValueKinds, ExprKinds
  <2>5. TypeIn(ast[n].name, path[n], n)' = TypeIn(ast[n].name, path[n], n)
    BY <2>3
  <2> QED BY <1>1, <1>5, <2>4, <2>5 DEF CheckedNode
<1>6. CASE ast[n].k = "bin"
  <2>1. "kids" \in DOMAIN ast[n] /\ {1, 2} \subseteq DOMAIN ast[n].kids
    <3>1. "kids" \in DOMAIN ast[n] /\ ast[n].kids \in Seq(Nat \ {0})
      BY <1>1, <1>6 DEF Node, ExprNode, Kids
    <3>2. Len(ast[n].kids) = 2
      BY <1>6 DEF OperandsPrecede
    <3> QED BY <3>1, <3>2
  <2>2. ty'[Kid(n, 1)'] = ty[Kid(n, 1)] /\ ty'[Kid(n, 2)'] = ty[Kid(n, 2)]
    BY <1>2, <1>3, <2>1
  <2> QED BY <1>1, <1>6, <2>2 DEF CheckedNode
<1>7. CASE ast[n].k \in {"call", "intrinsic"}
  <2>1. "kids" \in DOMAIN ast[n]
    BY <1>1, <1>7 DEF Node, ExprNode
  <2>2. \A g : ParamList(g)' = ParamList(g)
    BY DEF ParamList
  <2> QED BY <1>1, <1>3, <1>7, <2>1, <2>2 DEF CheckedNode
<1>8. CASE ast[n].k \in {"let", "return"}
  <2>1. ast[n].k = "let" \/ (ast[n].k = "return" /\ ast[n].expr) => ty'[n - 1] = ty[n - 1]
    BY <1>1 DEF OperandsPrecede
  <2> QED BY <1>1, <1>8, <2>1 DEF CheckedNode
<1>9. CASE ast[n].k \in {"fn", "test", "end"}
  BY <1>1, <1>9 DEF CheckedNode, ValueKinds, ExprKinds
<1> QED BY <1>1, <1>4, <1>5, <1>6, <1>7, <1>8, <1>9 DEF Node, ExprNode

\* symbol_types will be right in the bodies that are in use after the step.
MirrorNext ==
    \A p \in {<<>>, PathAt(pos + 1)} : \A x \in Scope(p, pos + 1) :
        x \in DOMAIN symbol_types' /\ symbol_types'[x] = TypeIn(x, p, pos)'

\* The node at the cursor will have been checked.
CheckedNext == \A n : n = pos => CheckedNode(n)'

\* A step of the checker that agrees on the node at the cursor, and keeps
\* symbol_types right in the bodies in use, keeps CheckedInv.
LEMMA CheckerWalk ==
    ASSUME IInv, TypeInv, CheckedInv, phase = "check", pos \in Nodes,
           UNCHANGED <<ast, path, open, phase, function_signatures>>, pos' = pos + 1,
           NEW t, ty' = Append(ty, t),
           ~has_errors' =>
               ~has_errors /\ MirrorNext /\ CheckedNext
    PROVE  CheckedInv'
<1>1. /\ TreeInv /\ WellScoped /\ pos \in Nat \ {0} /\ ty \in Seq(TypeNames)
      /\ Len(ty) = pos - 1
      /\ \A m \in Nodes : OperandsPrecede(m)
  BY DEF IInv, AcceptInv, TypeInv, TypeOK, CheckTypes, Nodes
<1>2. \A m \in Nodes : m < pos => ty'[m] = ty[m]
  BY <1>1 DEF Nodes
<1>3. /\ Nodes' = Nodes /\ TopLevelFns' = TopLevelFns
      /\ \A n : PathAt(n)' = PathAt(n)
      /\ \A p, n : Scope(p, n)' = Scope(p, n)
  BY TreeUnchanged
<1> SUFFICES ASSUME ~has_errors'
             PROVE  /\ SignaturesKnown' /\ SymbolsMirrorScope'
                    /\ (DOMAIN function_signatures = NamesOf(TopLevelFns))'
                    /\ (\A f \in NamesOf(TopLevelFns) : \E g \in TopLevelFns :
                          ast[g].name = f /\ function_signatures[f] = FunctionSignature(g))'
                    /\ (\A n \in Nodes : n < pos => CheckedNode(n))'
  BY DEF CheckedInv
<1>4. /\ ~has_errors /\ SignaturesKnown
      /\ DOMAIN function_signatures = NamesOf(TopLevelFns)
      /\ \A f \in NamesOf(TopLevelFns) : \E g \in TopLevelFns :
            ast[g].name = f /\ function_signatures[f] = FunctionSignature(g)
      /\ \A n \in Nodes : n < pos => CheckedNode(n)
  <2>1. ~has_errors /\ pos > 0
    BY <1>1
  <2> QED BY <2>1, Zenon DEF CheckedInv
<1>5. SignaturesKnown' /\ NamesOf(TopLevelFns)' = NamesOf(TopLevelFns)
      /\ \A g : FunctionSignature(g)' = FunctionSignature(g)
  <2>1. SignaturesKnown'
    BY <1>3, <1>4 DEF SignaturesKnown
  <2> QED BY <1>3, <2>1 DEF NamesOf, FunctionSignature
<1>6. (\A n \in Nodes : n < pos => CheckedNode(n))'
  <2> SUFFICES ASSUME NEW n \in Nodes, n < pos + 1 PROVE CheckedNode(n)'
    BY <1>3
  <2>1. CASE n = pos
    BY <2>1 DEF CheckedNext
  <2>2. CASE n < pos
    <3>1. \A m \in Nodes : m <= n => ty'[m] = ty[m]
      BY <1>1, <1>2, <2>2 DEF Nodes
    <3> QED BY <1>1, <1>4, <2>2, <3>1, CheckedKept
  <2> QED BY <1>1, <2>1, <2>2 DEF Nodes
<1>7. SymbolsMirrorScope'
  <2> SUFFICES ASSUME NEW p, p \in {<<>>, PathAt(pos + 1)}, NEW x \in Scope(p, pos + 1)
               PROVE  x \in DOMAIN symbol_types' /\ symbol_types'[x] = TypeIn(x, p, pos)'
    BY <1>3 DEF SymbolsMirrorScope
  <2> QED BY DEF MirrorNext
<1> QED BY <1>3, <1>4, <1>5, <1>6, <1>7

\* A handler that binds no name leaves symbol_types right; one that binds a name
\* may bind it in one of the two bodies only.
LEMMA SymbolsKept ==
    ASSUME TreeInv, UNCHANGED <<ast, path, open>>, pos \in Nodes, pos' = pos + 1,
           \A m \in Nodes : m < pos => ty'[m] = ty[m],
           NEW p, NEW x \in Scope(p, pos + 1),
           \A y \in Scope(p, pos) : y \in DOMAIN symbol_types /\ symbol_types[y] = TypeIn(y, p, pos),
           IF ast[pos].k = "let" /\ path[pos] = p /\ ast[pos].name = x
             THEN x \in DOMAIN symbol_types' /\ symbol_types'[x] = ty'[pos]
             ELSE x \in DOMAIN symbol_types => x \in DOMAIN symbol_types' /\ symbol_types'[x] = symbol_types[x]
    PROVE  x \in DOMAIN symbol_types' /\ symbol_types'[x] = TypeIn(x, p, pos)'
<1>1. BinderIn(x, p, pos)' = BinderIn(x, p, pos + 1)
  BY BinderUnchanged
<1>2. CASE ast[pos].k = "let" /\ path[pos] = p /\ ast[pos].name = x
  <2>1. BinderIn(x, p, pos + 1) = pos
    BY <1>2, BinderInBody
  <2>2. ASSUME NEW b, b = pos PROVE TypeOf(b, x)' = ty'[b]
    BY <1>2, <2>2 DEF TypeOf
  <2> QED BY <1>1, <1>2, <2>1, <2>2 DEF TypeIn
<1>3. CASE ~(ast[pos].k = "let" /\ path[pos] = p /\ ast[pos].name = x)
  <2>1. BinderIn(x, p, pos + 1) = BinderIn(x, p, pos) /\ x \in Scope(p, pos)
    BY <1>3, BinderInBody
  <2>2. TypeIn(x, p, pos)' = TypeIn(x, p, pos)
    <3>1. ASSUME NEW b, b = BinderIn(x, p, pos) PROVE TypeOf(b, x)' = TypeOf(b, x)
      <4>1. ast[b].k = "let" => ty'[b] = ty[b]
        BY <2>1, <3>1, BinderIsMember DEF Lets
      <4> QED BY <4>1, <3>1, SMTT(20) DEF TypeOf, ParamTypes, ParamNames
    <3> QED BY <1>1, <2>1, <3>1 DEF TypeIn
  <2> QED BY <1>3, <2>1, <2>2
<1> QED BY <1>2, <1>3

\* What the checker knows at a node of a source that it has not rejected.
LEMMA CheckingFacts ==
    ASSUME IInv, TypeInv, Shaped, CheckedInv, ~Gap, phase = "check", pos \in Nodes, ~has_errors
    PROVE  /\ SignaturesKnown /\ SymbolsMirrorScope
           /\ DOMAIN function_signatures = NamesOf(TopLevelFns)
           /\ \A f \in NamesOf(TopLevelFns) : \E g \in TopLevelFns :
                 ast[g].name = f /\ function_signatures[f] = FunctionSignature(g)
           /\ \A n \in Nodes : n < pos =>
                 CheckedNode(n) /\ (ast[n].k \in ValueKinds => ty[n] \in ScalarTypes)
           /\ PathAt(pos) = path[pos]
           /\ path[pos] # <<>> =>
                 LET d == Last(path[pos])
                 IN  /\ d \in Nodes /\ d < pos /\ path[pos] = <<d>>
                     /\ ast[d].k \in {"fn", "test"} /\ path[d] = <<>>
           /\ "kids" \in DOMAIN ast[pos] =>
                 \A i \in DOMAIN ast[pos].kids :
                    Kid(pos, i) \in 1..pos - 1 /\ ty[Kid(pos, i)] \in ScalarTypes
           /\ ast[pos].k = "let" \/ (ast[pos].k = "return" /\ ast[pos].expr) =>
                 pos - 1 \in 1..pos - 1 /\ ty[pos - 1] \in ScalarTypes
<1>1. /\ TreeInv /\ pos \in Nat \ {0} /\ pos \in 1..Len(ast) + 1 /\ OperandsPrecede(pos)
      /\ \A n \in 1..pos - 1 : n \in Nodes
  <2>1. TreeInv /\ OperandsPrecede(pos)
    BY DEF IInv, TypeInv
  <2>2. Len(ast) \in Nat
    BY <2>1 DEF TreeInv
  <2> QED BY <2>1, <2>2 DEF Nodes
<1>2. /\ SignaturesKnown /\ SymbolsMirrorScope
      /\ DOMAIN function_signatures = NamesOf(TopLevelFns)
      /\ \A f \in NamesOf(TopLevelFns) : \E g \in TopLevelFns :
            ast[g].name = f /\ function_signatures[f] = FunctionSignature(g)
      /\ \A n \in Nodes : n < pos => CheckedNode(n)
  <2>1. pos > 0
    BY <1>1
  <2> QED BY <2>1, Zenon DEF CheckedInv
<1>3. \A n \in Nodes : n < pos => (ast[n].k \in ValueKinds => ty[n] \in ScalarTypes)
  BY <1>2 DEF CheckedNode
<1>4. PathAt(pos) = path[pos]
  BY DEF PathAt
<1>5. path[pos] # <<>> =>
         LET d == Last(path[pos])
         IN  /\ d \in Nodes /\ d < pos /\ path[pos] = <<d>>
             /\ ast[d].k \in {"fn", "test"} /\ path[d] = <<>>
  <2>1. \A n \in Nodes : n < pos /\ ast[n].k = "fn" => path[n] = <<>>
    BY <1>2 DEF CheckedNode
  <2> QED BY <1>1, <1>4, <2>1, FlatBodies
<1>6. ~AssertUsedAsValue
  BY DEF Gap
<1>7. "kids" \in DOMAIN ast[pos] =>
         \A i \in DOMAIN ast[pos].kids :
            Kid(pos, i) \in 1..pos - 1 /\ ty[Kid(pos, i)] \in ScalarTypes
  BY <1>1, <1>3, <1>6, OperandsAreValues DEF OperandsPrecede
<1>8. ast[pos].k = "let" \/ (ast[pos].k = "return" /\ ast[pos].expr) =>
         pos - 1 \in 1..pos - 1 /\ ty[pos - 1] \in ScalarTypes
  BY <1>1, <1>3, <1>6, OperandsAreValues DEF OperandsPrecede
<1> QED BY <1>2, <1>3, <1>4, <1>5, <1>7, <1>8

\* A handler that binds no name leaves symbol_types right.
LEMMA NothingBound ==
    ASSUME IInv, TypeInv, Shaped, CheckedInv, ~Gap, phase = "check", pos \in Nodes, ~has_errors,
           UNCHANGED <<ast, path, open, symbol_types>>, pos' = pos + 1, NEW t, ty' = Append(ty, t),
           ast[pos].k \notin {"let", "fn"}
    PROVE  MirrorNext
<1>1. /\ TreeInv /\ pos \in Nat \ {0} /\ SymbolsMirrorScope /\ PathAt(pos) = path[pos]
      /\ \A m \in Nodes : m < pos => ty'[m] = ty[m]
  <2>1. TreeInv /\ pos \in Nat \ {0} /\ ty \in Seq(TypeNames) /\ Len(ty) = pos - 1
    BY DEF IInv, TypeInv, TypeOK, CheckTypes, Nodes
  <2> QED BY <2>1, CheckingFacts DEF Nodes
<1> SUFFICES ASSUME NEW p, p \in {<<>>, PathAt(pos + 1)}, NEW x \in Scope(p, pos + 1)
             PROVE  x \in DOMAIN symbol_types' /\ symbol_types'[x] = TypeIn(x, p, pos)'
  BY DEF MirrorNext
<1>2. p \in {<<>>, PathAt(pos)}
  <2>1. CASE ast[pos].k = "test"
    <3>1. Scope(PathAt(pos + 1), pos + 1) = {}
      BY <1>1, <2>1, ScopeStep DEF ParamNames
    <3> QED BY <3>1
  <2>2. CASE ast[pos].k = "end"
    <3>1. PathAt(pos + 1) = Front(path[pos]) /\ path[pos] # <<>>
      BY <1>1, <2>2, ScopeStep
    <3>2. PICK d : path[pos] = <<d>>
      BY <3>1, CheckingFacts
    <3>3. PathAt(pos + 1) = <<>>
      <4>1. \A s : Front(<<s>>) = <<>>
        BY DEF Front
      <4> QED BY <3>1, <3>2, <4>1
    <3> QED BY <3>3
  <2>3. CASE ast[pos].k \notin {"test", "end"}
    BY <1>1, <2>3, ScopeStep
  <2> QED BY <2>1, <2>2, <2>3
<1>3. \A y \in Scope(p, pos) : y \in DOMAIN symbol_types /\ symbol_types[y] = TypeIn(y, p, pos)
  BY <1>1, <1>2 DEF SymbolsMirrorScope
<1> QED BY <1>1, <1>3, SymbolsKept

\* A `let` in a body and one at module level never have one name, so that the
\* entry of the other body stands.
LEMMA LetBound ==
    ASSUME IInv, TypeInv, Shaped, CheckedInv, ~Gap, phase = "check", pos \in Nodes, ~has_errors,
           UNCHANGED <<ast, path, open>>, pos' = pos + 1, NEW t, ty' = Append(ty, t),
           ast[pos].k = "let", symbol_types' = Overwrite(symbol_types, Entry(ast[pos].name, t))
    PROVE  MirrorNext
<1>1. /\ TreeInv /\ pos \in Nat \ {0} /\ SymbolsMirrorScope /\ PathAt(pos) = path[pos]
      /\ ty'[pos] = t /\ \A m \in Nodes : m < pos => ty'[m] = ty[m]
  <2>1. /\ TreeInv /\ pos \in Nat \ {0} /\ ty \in Seq(TypeNames) /\ Len(ty) = pos - 1
    BY DEF IInv, TypeInv, TypeOK, CheckTypes, Nodes
  <2> QED BY <2>1, CheckingFacts DEF Nodes
<1>2. PathAt(pos + 1) = path[pos]
  BY <1>1, ScopeStep
<1> SUFFICES ASSUME NEW p, p \in {<<>>, path[pos]}, NEW x \in Scope(p, pos + 1)
             PROVE  x \in DOMAIN symbol_types' /\ symbol_types'[x] = TypeIn(x, p, pos)'
  BY <1>2 DEF MirrorNext
<1>3. \A y \in Scope(p, pos) : y \in DOMAIN symbol_types /\ symbol_types[y] = TypeIn(y, p, pos)
  BY <1>1 DEF SymbolsMirrorScope
<1>4. IF ast[pos].k = "let" /\ path[pos] = p /\ ast[pos].name = x
        THEN x \in DOMAIN symbol_types' /\ symbol_types'[x] = ty'[pos]
        ELSE x \in DOMAIN symbol_types =>
                x \in DOMAIN symbol_types' /\ symbol_types'[x] = symbol_types[x]
  <2>1. CASE x # ast[pos].name
    BY <2>1 DEF Overwrite, Entry
  <2>2. CASE x = ast[pos].name
    <3>1. path[pos] = p
      <4> SUFFICES ASSUME path[pos] # p PROVE FALSE
        OBVIOUS
      <4>1. p = <<>> /\ x \in Scope(<<>>, pos)
        BY <1>1, BinderInBody
      <4>2. PICK m \in Nodes : ast[m].k = "let" /\ path[m] = <<>> /\ ast[m].name = x
        BY <4>1 DEF Scope, ParamsOf, NamesOf, Lets
      <4> QED BY <2>2, <4>1, <4>2 DEF Gap, SharedName
    <3> QED BY <1>1, <2>2, <3>1 DEF Overwrite, Entry
  <2> QED BY <2>1, <2>2
<1> QED BY <1>1, <1>3, <1>4, SymbolsKept

\* Nor has a parameter the name of a variable of the module.
LEMMA ParametersBound ==
    ASSUME IInv, TypeInv, Shaped, CheckedInv, ~Gap, phase = "check", pos \in Nodes, ~has_errors,
           UNCHANGED <<ast, path, open>>, pos' = pos + 1, NEW t, ty' = Append(ty, t),
           ast[pos].k = "fn", path[pos] = <<>>,
           symbol_types' = Overwrite(symbol_types, ParamTypes(pos))
    PROVE  MirrorNext
<1>1. /\ TreeInv /\ pos \in Nat \ {0} /\ SymbolsMirrorScope /\ PathAt(pos) = <<>>
      /\ \A m \in Nodes : m < pos => ty'[m] = ty[m]
  <2>1. TreeInv /\ pos \in Nat \ {0} /\ ty \in Seq(TypeNames) /\ Len(ty) = pos - 1
    BY SMTT(20) DEF IInv, TypeInv, TypeOK, CheckTypes, Nodes
  <2>2. SymbolsMirrorScope /\ PathAt(pos) = <<>>
    BY CheckingFacts
  <2>3. \A m \in Nodes : m < pos => ty'[m] = ty[m]
    BY <2>1 DEF Nodes
  <2> QED BY <2>1, <2>2, <2>3
<1>2. PathAt(pos + 1) = <<pos>> /\ Scope(<<pos>>, pos + 1) = ParamNames(pos)
  BY <1>1, ScopeStep
<1> SUFFICES ASSUME NEW p, p \in {<<>>, <<pos>>}, NEW x \in Scope(p, pos + 1)
             PROVE  x \in DOMAIN symbol_types' /\ symbol_types'[x] = TypeIn(x, p, pos)'
  BY <1>2 DEF MirrorNext
<1>3. CASE p = <<>>
  <2>1. x \in Scope(p, pos)
    BY <1>1, BinderInBody
  <2>2. x \notin ParamNames(pos)
    <3>1. PICK m \in Nodes : ast[m].k = "let" /\ path[m] = <<>> /\ ast[m].name = x
      BY <1>3, <2>1 DEF Scope, ParamsOf, NamesOf, Lets
    <3> QED BY <3>1 DEF Gap, SharedName
  <2>3. x \in DOMAIN symbol_types => x \in DOMAIN symbol_types' /\ symbol_types'[x] = symbol_types[x]
    BY <2>2 DEF Overwrite, ParamTypes
  <2>4. \A y \in Scope(p, pos) : y \in DOMAIN symbol_types /\ symbol_types[y] = TypeIn(y, p, pos)
    BY <1>1, <1>3 DEF SymbolsMirrorScope
  <2> QED BY <1>1, <2>3, <2>4, SymbolsKept
<1>4. CASE p = <<pos>>
  <2>1. x \in ParamNames(pos)
    BY <1>2, <1>4
  <2>2. x \in DOMAIN symbol_types' /\ symbol_types'[x] = ParamTypes(pos)[x]
    BY <2>1 DEF Overwrite, ParamTypes
  <2>3. BinderIn(x, p, pos + 1) = pos
    BY <1>1, <1>2, <1>4, <2>1, BinderStep
  <2>4. BinderIn(x, p, pos)' = BinderIn(x, p, pos + 1)
    BY BinderUnchanged
  <2>5. ASSUME NEW b, b = pos PROVE TypeOf(b, x)' = ParamTypes(b)[x]
    BY <2>5 DEF TypeOf, ParamTypes, ParamNames
  <2> QED BY <2>2, <2>3, <2>4, <2>5 DEF TypeIn
<1> QED BY <1>3, <1>4

\* Every handler of the checker that reports nothing has checked its node.
LEMMA CheckerKeepsChecked ==
    ASSUME IInv, TypeInv, Shaped, CheckedInv, CheckerNext, UNCHANGED <<ast, path, open>>, ~Gap'
    PROVE  CheckedInv'
<1>1. /\ phase = "check" /\ TreeInv /\ WellScoped /\ ty \in Seq(TypeNames) /\ TopLevelFns' = TopLevelFns
      /\ \A n : Kid(n, 1)' = Kid(n, 1) /\ KidTypes(n) = [i \in DOMAIN ast[n].kids |-> ty[Kid(n, i)]]
  <2>1. phase = "check"
    BY DEF CheckerNext, CheckerBegin, CheckIntLiteral, CheckIdentifier, CheckBinaryOperator,
       CheckCall, CheckIntrinsicCall, CheckLet, CheckReturn, CheckModuleReturn, CheckFn,
       CheckNestedFn, CheckTest, CheckEnd, CheckerReturn, Checking
  <2> QED BY <2>1, TreeUnchanged DEF IInv, AcceptInv, TypeInv, TypeOK, Kid, KidTypes
<1>2. ~Gap
  <2>1. ty' = ty \/ \E t : ty' = Append(ty, t)
    BY DEF CheckerNext, CheckerBegin, CheckIntLiteral, CheckIdentifier, CheckBinaryOperator,
       CheckCall, CheckIntrinsicCall, CheckLet, CheckReturn, CheckModuleReturn, CheckFn,
       CheckNestedFn, CheckTest, CheckEnd, CheckerReturn, checkerVars, Infer
  <2> QED BY <2>1, GapStays
<1>3. ASSUME NEW t, Infer(t), pos \in Nodes, UNCHANGED function_signatures,
             ~has_errors' => ~has_errors,
             ~has_errors' /\ ~has_errors => MirrorNext /\ CheckedNext
      PROVE  CheckedInv'
  BY <1>1, <1>3, CheckerWalk DEF Infer, Step
<1>4. ASSUME NEW t, Infer(t), pos \in Nodes, UNCHANGED <<symbol_types, function_signatures>>,
             ast[pos].k \notin {"let", "fn"},
             ~has_errors' => ~has_errors, ~has_errors' /\ ~has_errors => CheckedNext
      PROVE  CheckedInv'
  <2>1. ~has_errors => MirrorNext
    BY <1>1, <1>2, <1>4, NothingBound DEF Infer, Step
  <2> QED BY <1>3, <1>4, <2>1
<1>5. ASSUME NEW code, NEW reason, Stop(code, reason) PROVE CheckedInv'
  BY <1>5 DEF Stop, CheckedInv
<1>6. ASSUME pos \in Nodes, NEW t, Infer(t)
      PROVE  /\ ty'[pos] = t /\ \A m \in 1..pos - 1 : ty'[m] = ty[m]
             /\ pos \in Nat \ {0} /\ ast[pos] \in Node
  <2>1. Len(ty) = pos - 1 /\ pos \in Nat \ {0}
    BY <1>1, <1>6 DEF TypeInv, CheckTypes, Nodes
  <2> QED BY <1>1, <1>6, <2>1 DEF Infer, TreeInv, Nodes
<1>7. CASE CheckerBegin
  <2>1. /\ pos' = 1 /\ phase' = "check" /\ UNCHANGED <<symbol_types, return_type, ty>>
        /\ function_signatures' =
               [f \in NamesOf(TopLevelFns) |->
                   FunctionSignature(Max({n \in TopLevelFns : ast[n].name = f}))]
        /\ ~has_errors' => \A n \in TopLevelFns :
               ~Unknown(ast[n].ret) /\ \A p \in Range(ast[n].params) : ~Unknown(p.type)
    <3>1. /\ pos = 0 /\ Step /\ UNCHANGED <<symbol_types, return_type, ty>>
          /\ function_signatures' =
                 [f \in NamesOf(TopLevelFns) |->
                     FunctionSignature(Max({n \in TopLevelFns : ast[n].name = f}))]
          /\ Report(\E n \in TopLevelFns :
                       Unknown(ast[n].ret) \/ \E p \in Range(ast[n].params) : Unknown(p.type))
      BY <1>7 DEF CheckerBegin
    <3>2. pos' = 1 /\ phase' = "check"
      BY <1>1, <3>1 DEF Step
    <3>3. ~has_errors' => \A n \in TopLevelFns :
             ~Unknown(ast[n].ret) /\ \A p \in Range(ast[n].params) : ~Unknown(p.type)
      BY <3>1 DEF Report
    <3> QED BY <3>1, <3>2, <3>3
  <2>2. \A name : ~Unknown(name) => Resolve(name) \in ScalarTypes
    BY DEF Unknown, Resolve, NoType, type_registry, ScalarTypes, IntegerTypes, Floats
  <2>3. ~has_errors' => SignaturesKnown
    BY <2>1, <2>2 DEF SignaturesKnown, Range
  <2>4. ~has_errors' => SignaturesKnown'
    BY <1>1, <2>3 DEF SignaturesKnown
  <2>5. ASSUME NEW f \in NamesOf(TopLevelFns)
        PROVE  \E g \in TopLevelFns : ast[g].name = f /\ function_signatures'[f] = FunctionSignature(g)
    <3> DEFINE S == {n \in TopLevelFns : ast[n].name = f}
    <3>1. S # {} /\ S \subseteq 1..Len(ast) /\ Len(ast) \in Nat
      <4>1. S # {}
        BY <2>5 DEF NamesOf
      <4>2. Len(ast) \in Nat
        BY <1>1 DEF TreeInv
      <4> QED BY <4>1, <4>2 DEF TopLevelFns, Nodes
    <3>2. Max(S) \in S
      BY <3>1, MaxIsMember
    <3> QED BY <2>1, <3>2
  <2>6. /\ DOMAIN function_signatures' = NamesOf(TopLevelFns)'
        /\ \A f \in NamesOf(TopLevelFns)' : \E g \in TopLevelFns' :
              ast'[g].name = f /\ function_signatures'[f] = FunctionSignature(g)'
    <3>1. NamesOf(TopLevelFns)' = NamesOf(TopLevelFns)
      BY <1>1 DEF NamesOf
    <3>2. \A g : FunctionSignature(g)' = FunctionSignature(g)
      BY DEF FunctionSignature
    <3> QED BY <1>1, <2>1, <2>5, <3>1, <3>2
  <2>7. SymbolsMirrorScope'
    <3>1. PathAt(1) = <<>> /\ Scope(<<>>, 1) = {}
      BY <1>1, ScopeStart DEF TreeInv
    <3>2. PathAt(1)' = <<>> /\ Scope(<<>>, 1)' = {}
      BY <3>1, TreeUnchanged
    <3> QED BY <2>1, <3>2 DEF SymbolsMirrorScope
  <2>8. ~(\E n \in Nodes' : n < pos')
    BY <2>1 DEF Nodes
  <2> QED BY <2>1, <2>4, <2>6, <2>7, <2>8 DEF CheckedInv
<1>8. CASE CheckIntLiteral
  <2>1. /\ pos \in Nodes /\ ast[pos].k = "int" /\ Infer("i64")
        /\ UNCHANGED <<has_errors, symbol_types, function_signatures>>
    BY <1>8 DEF CheckIntLiteral, Checking, At
  <2>2. CheckedNext
    BY <1>6, <2>1 DEF CheckedNext, CheckedNode, ScalarTypes, IntegerTypes
  <2> QED BY <1>4, <2>1, <2>2
<1>9. CASE CheckIdentifier
  <2> DEFINE x == ast[pos].name
             t == IF x \in DOMAIN symbol_types THEN symbol_types[x] ELSE NoType
  <2>1. /\ pos \in Nodes /\ ast[pos].k = "ident" /\ Infer(t)
        /\ UNCHANGED <<has_errors, symbol_types, function_signatures>>
    BY <1>9 DEF CheckIdentifier, Checking, At
  <2>2. ASSUME ~has_errors PROVE CheckedNext
    <3>1. x \in Scope(path[pos], pos)
      BY <1>1, <2>1 DEF WellScoped, WellScopedNode, ScopeAt
    <3>2. t = TypeIn(x, path[pos], pos)
      BY <1>1, <1>2, <2>1, <2>2, <3>1, CheckingFacts DEF SymbolsMirrorScope
    <3>3. t \in ScalarTypes
      <4>1. path[pos] # <<>> => Last(path[pos]) \in Nodes /\ Last(path[pos]) < pos
        BY <1>1, <1>2, <2>1, <2>2, CheckingFacts
      <4>2. SignaturesKnown /\ \A m \in Nodes : m < pos => CheckedNode(m)
        BY <1>1, <1>2, <2>1, <2>2, CheckingFacts
      <4> QED BY <1>1, <3>1, <3>2, <4>1, <4>2, VariablesHaveValues
    <3>4. ASSUME NEW n, n = pos
          PROVE  TypeIn(ast[n].name, path[n], n)' = TypeIn(ast[n].name, path[n], n)
      <4>1. \A m \in Nodes : m < n => ty'[m] = ty[m]
        BY <1>6, <2>1, <3>4 DEF Nodes
      <4>2. \A p, y : p = path[n] /\ y = ast[n].name => TypeIn(y, p, n)' = TypeIn(y, p, n)
        BY <1>1, <3>1, <3>4, <4>1, TypeInKept
      <4> QED BY <3>4, <4>2
    <3> HIDE DEF t
    <3>5. ASSUME NEW n, n = pos PROVE CheckedNode(n)'
      BY <1>6, <2>1, <3>2, <3>3, <3>4, <3>5 DEF CheckedNode
    <3> QED BY <3>5 DEF CheckedNext
  <2> QED BY <1>4, <2>1, <2>2
<1>10. CASE CheckBinaryOperator
  <2> DEFINE op == ast[pos].op
             o  == Operands(pos, ty)
             t  == BinaryType(op, o[1], o[2])
  <2>1. /\ pos \in Nodes /\ ast[pos].k = "bin" /\ Infer(t) /\ Report(BadOperands(op, o[1], o[2]))
        /\ UNCHANGED <<symbol_types, function_signatures>>
    BY <1>10 DEF CheckBinaryOperator, Checking, At
  <2>2. /\ "kids" \in DOMAIN ast[pos] /\ DOMAIN ast[pos].kids = {1, 2}
        /\ 1..Len(ast[pos].kids) = {1, 2} /\ op \in ArithOps \cup CmpOps
        /\ Kid(pos, 1) \in 1..pos - 1 /\ Kid(pos, 2) \in 1..pos - 1
    <3>1. /\ "kids" \in DOMAIN ast[pos] /\ ast[pos].kids \in Seq(Nat \ {0})
          /\ op \in ArithOps \cup CmpOps
      BY <1>6, <2>1 DEF Node, ExprNode, Kids
    <3>2. OperandsPrecede(pos)
      BY <2>1 DEF TypeInv
    <3>3. Len(ast[pos].kids) = 2
      BY <2>1, <3>2 DEF OperandsPrecede
    <3>4. DOMAIN ast[pos].kids = {1, 2} /\ 1..Len(ast[pos].kids) = {1, 2}
      BY <3>1, <3>3
    <3> QED BY <3>1, <3>2, <3>4 DEF OperandsPrecede
  <2>3. o[1] = ty[Kid(pos, 1)] /\ o[2] = ty[Kid(pos, 2)]
    BY <2>2 DEF Operands
  <2> HIDE DEF o, op
  <2>4. ASSUME ~has_errors, ~has_errors' PROVE CheckedNext
    <3>1. o[1] \in ScalarTypes /\ o[2] \in ScalarTypes
      BY <1>1, <1>2, <2>1, <2>2, <2>3, <2>4, CheckingFacts
    <3>2. ~BadOperands(op, o[1], o[2])
      BY <2>1, <2>4 DEF Report
    <3>3. o[1] # NoType /\ o[2] # NoType
      BY <3>1 DEF ScalarTypes, IntegerTypes, Floats, NoType
    <3>4. /\ o[1] \in IntegerTypes /\ o[2] \in IntegerTypes
          /\ op \in CmpOps => o[2] = o[1]
      BY <3>2, <3>3 DEF BadOperands
    <3>5. op \notin CmpOps => o[2] = o[1]
      <4>1. ASSUME op \in ArithOps, NEW n, n = pos PROVE ~Clash(ty'[Kid(n, 1)], ty'[Kid(n, 2)])
        <5>1. n \in DOMAIN ty'
          BY <1>1, <1>6, <2>1, <4>1 DEF Infer, TypeInv, CheckTypes
        <5>2. ~MixedArithmetic'
          BY DEF Gap
        <5>3. \A i : Kid(n, i)' = Kid(n, i)
          BY DEF Kid
        <5> QED BY <2>1, <4>1, <5>1, <5>2, <5>3 DEF MixedArithmetic, Clash, op
      <4>2. op \in ArithOps => ~Clash(o[1], o[2])
        BY <1>6, <2>1, <2>2, <2>3, <4>1 DEF Clash
      <4> QED BY <2>2, <3>3, <4>2 DEF Clash
    <3>6. t = IF op \in CmpOps THEN "i1" ELSE o[1]
      <4>1. op \in ArithOps => op \notin CmpOps
        BY DEF ArithOps, CmpOps
      <4> QED BY <2>2, <3>2, <3>3, <4>1 DEF BinaryType
    <3>7. t \in ScalarTypes
      BY <3>1, <3>6 DEF ScalarTypes, IntegerTypes
    <3> HIDE DEF t
    <3>8. ASSUME NEW n, n = pos PROVE CheckedNode(n)'
      <4>1. /\ ty'[Kid(n, 1)] = o[1] /\ ty'[Kid(n, 2)] = o[2] /\ ty'[n] = t
            /\ Kid(n, 1)' = Kid(n, 1) /\ Kid(n, 2)' = Kid(n, 2) /\ ast[n].op = op
            /\ ast[n].k = "bin"
        BY <1>6, <2>1, <2>2, <2>3, <3>8 DEF Kid, op
      <4>2. o[2] = o[1]
        BY <3>4, <3>5
      <4> QED BY <3>4, <3>6, <3>7, <4>1, <4>2 DEF CheckedNode
    <3> QED BY <3>8 DEF CheckedNext
  <2>5. ~has_errors' => ~has_errors
    BY <2>1 DEF Report
  <2> HIDE DEF t
  <2> QED BY <1>4, <2>1, <2>4, <2>5
<1>11. ASSUME pos \in Nodes, ast[pos].k \in {"call", "intrinsic"}
       PROVE  /\ "kids" \in DOMAIN ast[pos] /\ ast[pos].kids \in Seq(Nat \ {0})
              /\ DOMAIN ast[pos].kids = 1..Len(ast[pos].kids) /\ Len(ast[pos].kids) \in Nat
              /\ KidTypes(pos) = Operands(pos, ty)
              /\ Len(Operands(pos, ty)) = Len(ast[pos].kids)
              /\ DOMAIN Operands(pos, ty) = DOMAIN ast[pos].kids
              /\ ~has_errors => \A i \in DOMAIN ast[pos].kids :
                                   KidTypes(pos)[i] \in ScalarTypes /\ KidTypes(pos)[i] # NoType
              /\ \A t : Infer(t) => \A n : n = pos => KidTypes(n)' = KidTypes(n)
  <2>1. "kids" \in DOMAIN ast[pos] /\ ast[pos].kids \in Seq(Nat \ {0})
    <3>1. ast[pos] \in Node
      BY <1>1, <1>11 DEF TreeInv, Nodes
    <3> QED BY <1>11, <3>1 DEF Node, ExprNode, Kids
  <2>2. DOMAIN ast[pos].kids = 1..Len(ast[pos].kids) /\ Len(ast[pos].kids) \in Nat
    BY <2>1
  <2>3. /\ KidTypes(pos) = Operands(pos, ty) /\ DOMAIN Operands(pos, ty) = DOMAIN ast[pos].kids
        /\ Len(Operands(pos, ty)) = Len(ast[pos].kids)
    BY <2>2 DEF KidTypes, Operands
  <2>4. ASSUME ~has_errors, NEW i \in DOMAIN ast[pos].kids
        PROVE  KidTypes(pos)[i] \in ScalarTypes /\ KidTypes(pos)[i] # NoType
    <3>1. ty[Kid(pos, i)] \in ScalarTypes
      BY <1>1, <1>2, <1>11, <2>1, <2>4, CheckingFacts
    <3> QED BY <3>1 DEF KidTypes, ScalarTypes, IntegerTypes, Floats, NoType
  <2>5. ASSUME NEW t, Infer(t), NEW n, n = pos PROVE KidTypes(n)' = KidTypes(n)
    <3>1. \A i \in DOMAIN ast[n].kids : Kid(n, i) \in 1..pos - 1
      BY <1>11, <2>1, <2>5 DEF TypeInv, OperandsPrecede
    <3>2. \A i : Kid(n, i)' = Kid(n, i)
      BY DEF Kid
    <3> QED BY <1>6, <1>11, <2>5, <3>1, <3>2 DEF KidTypes
  <2> QED BY <2>1, <2>2, <2>3, <2>4, <2>5
<1>12. CASE CheckCall
  <2> DEFINE f    == ast[pos].name
             args == Operands(pos, ty)
             sig  == function_signatures[f]
  <2>1. pos \in Nodes /\ ast[pos].k = "call" /\ UNCHANGED <<symbol_types, function_signatures>>
    BY <1>12 DEF CheckCall, Checking, At
  <2>2. CASE f # Indirect /\ f \in DOMAIN function_signatures
    <3>1. Report(BadArguments(sig.params, args)) /\ Infer(sig.ret)
      BY <1>12, <2>2 DEF CheckCall
    <3>2. ASSUME ~has_errors, ~has_errors' PROVE CheckedNext
      <4>1. PICK g \in TopLevelFns : ast[g].name = f /\ sig = FunctionSignature(g)
        BY <1>1, <1>2, <2>1, <2>2, <3>2, CheckingFacts
      <4>2. /\ sig.params = ParamList(g) /\ sig.ret = Resolve(ast[g].ret)
            /\ sig.ret \in ScalarTypes /\ DOMAIN ParamList(g) = DOMAIN ast[g].params
            /\ \A i \in DOMAIN ast[g].params : ParamList(g)[i] \in ScalarTypes
        BY <1>1, <1>2, <2>1, <3>2, <4>1, CheckingFacts
        DEF FunctionSignature, ParamList, SignaturesKnown
      <4>3. ~BadArguments(ParamList(g), args)
        BY <3>1, <3>2, <4>2 DEF Report
      <4>4. args = ParamList(g)
        <5>1. Len(ParamList(g)) = Len(ast[g].params) /\ DOMAIN ParamList(g) = 1..Len(ast[g].params)
          <6>1. ast[g] \in Node /\ ast[g].k = "fn"
            BY <1>1 DEF TopLevelFns, TreeInv, Nodes
          <6>2. ast[g].params \in Params
            BY <6>1 DEF Node, ExprNode
          <6>3. DOMAIN ast[g].params = 1..Len(ast[g].params) /\ Len(ast[g].params) \in Nat
            BY <6>2 DEF Params
          <6> QED BY <6>3 DEF ParamList
        <5>2. Len(args) = Len(ParamList(g)) /\ \A i \in DOMAIN args : ~Clash(args[i], ParamList(g)[i])
          BY <4>3 DEF BadArguments
        <5>3. DOMAIN args = DOMAIN ParamList(g)
          BY <1>11, <2>1, <5>1, <5>2
        <5>4. \A i \in DOMAIN args : args[i] = ParamList(g)[i]
          <6>1. \A i \in DOMAIN args : args[i] # NoType
            BY <1>11, <2>1, <3>2
          <6>2. \A i \in DOMAIN args : ParamList(g)[i] # NoType
            BY <4>2, <5>3 DEF ScalarTypes, IntegerTypes, Floats, NoType
          <6> QED BY <5>2, <6>1, <6>2 DEF Clash
        <5>5. args = [i \in DOMAIN args |-> args[i]] /\ ParamList(g) = [i \in DOMAIN ParamList(g) |-> ParamList(g)[i]]
          BY DEF Operands, ParamList
        <5> HIDE DEF args
        <5> QED BY <5>3, <5>4, <5>5
      <4>5. ASSUME NEW n, n = pos PROVE CheckedNode(n)'
        <5>1. KidTypes(n)' = ParamList(g) /\ ParamList(g)' = ParamList(g)
          <6>1. KidTypes(n) = ParamList(g)
            BY <1>11, <2>1, <4>4, <4>5
          <6> QED BY <1>11, <2>1, <3>1, <4>5, <6>1 DEF ParamList
        <5>2. ty'[n] = Resolve(ast[g].ret) /\ ast[n].k = "call" /\ ty'[n] \in ScalarTypes
              /\ ast[g].name = ast[n].name
          BY <1>6, <2>1, <3>1, <4>1, <4>2, <4>5
        <5> QED BY <1>1, <5>1, <5>2 DEF CheckedNode
      <4> QED BY <4>5 DEF CheckedNext
    <3>3. ~has_errors' => ~has_errors
      BY <3>1 DEF Report
    <3> HIDE DEF sig
    <3> QED BY <1>4, <2>1, <3>1, <3>2, <3>3
  <2>3. CASE ~(f # Indirect /\ f \in DOMAIN function_signatures)
    <3>1. Report(f = Indirect) /\ Infer(NoType)
      BY <1>12, <2>3 DEF CheckCall
    <3>2. ~has_errors' => ~has_errors /\ f # Indirect
      BY <3>1 DEF Report
    <3>3. ~has_errors /\ f # Indirect => f \in DOMAIN function_signatures
      <4>1. f # Indirect => f \in NamesOf(TopLevelFns)
        BY <1>1, <2>1 DEF WellScoped, WellScopedNode
      <4> QED BY <1>1, <1>2, <2>1, <4>1, CheckingFacts
    <3> QED BY <1>4, <2>1, <2>3, <3>1, <3>2, <3>3
  <2> QED BY <2>2, <2>3
<1>13. CASE CheckIntrinsicCall
  <2> DEFINE args == Operands(pos, ty)
  <2>1. /\ pos \in Nodes /\ ast[pos].k = "intrinsic" /\ Infer(NoType)
        /\ Report(BadIntrinsic(ast[pos].name, args))
        /\ UNCHANGED <<symbol_types, function_signatures>>
    BY <1>13 DEF CheckIntrinsicCall, Checking, At
  <2>2. ASSUME ~has_errors, ~has_errors' PROVE CheckedNext
    <3>1. Len(args) = 1 /\ ~Clash(args[1], "i1")
      BY <2>1, <2>2 DEF Report, BadIntrinsic
    <3>2. DOMAIN args = 1..1 /\ args[1] # NoType
      BY <1>11, <2>1, <2>2, <3>1
    <3>3. args[1] = "i1"
      BY <3>1, <3>2 DEF Clash, NoType
    <3>4. args = [i \in DOMAIN args |-> args[i]]
      BY DEF Operands
    <3> HIDE DEF args
    <3>5. args = <<"i1">>
      BY <3>2, <3>3, <3>4
    <3>6. ASSUME NEW n, n = pos PROVE CheckedNode(n)'
      <4>1. KidTypes(n) = <<"i1">>
        BY <1>11, <2>1, <3>5, <3>6 DEF args
      <4>2. KidTypes(n)' = <<"i1">>
        BY <1>11, <2>1, <3>6, <4>1
      <4> QED BY <2>1, <3>6, <4>2 DEF CheckedNode, ValueKinds
    <3> QED BY <3>6 DEF CheckedNext
  <2>3. ~has_errors' => ~has_errors
    BY <2>1 DEF Report
  <2> QED BY <1>4, <2>1, <2>2, <2>3
<1>14. CASE CheckLet
  <2> DEFINE b         == ast[pos]
             inferred  == ty[pos - 1]
             annotated == IF b.type = NoAnnotation THEN NoType ELSE Resolve(b.type)
             clash     == Clash(annotated, inferred)
             t         == CASE clash -> NoType
                            [] annotated # NoType -> annotated
                            [] OTHER -> inferred
  <2>1. /\ pos \in Nodes /\ b.k = "let" /\ Infer(t)
        /\ Report(clash \/ (b.type # NoAnnotation /\ annotated = NoType))
        /\ symbol_types' = IF t = NoType THEN symbol_types
                                         ELSE Overwrite(symbol_types, Entry(b.name, t))
        /\ UNCHANGED function_signatures
    BY <1>14 DEF CheckLet, Checking, At
  <2>2. ASSUME ~has_errors, ~has_errors' PROVE MirrorNext /\ CheckedNext
    <3>1. inferred \in ScalarTypes /\ inferred # NoType /\ pos - 1 \in 1..pos - 1
      <4>1. inferred \in ScalarTypes /\ pos - 1 \in 1..pos - 1
        BY <1>1, <1>2, <2>1, <2>2, CheckingFacts
      <4> QED BY <4>1 DEF ScalarTypes, IntegerTypes, Floats, NoType
    <3>2. ~clash
      BY <2>1, <2>2 DEF Report
    <3>3. t = inferred
      BY <3>1, <3>2 DEF Clash
    <3> HIDE DEF t, inferred
    <3>4. symbol_types' = Overwrite(symbol_types, Entry(ast[pos].name, t))
      BY <2>1, <3>1, <3>3
    <3>5. MirrorNext
      BY <1>1, <1>2, <2>1, <2>2, <3>4, LetBound DEF Infer, Step
    <3>6. ASSUME NEW n, n = pos PROVE CheckedNode(n)'
      <4>1. ty'[n] = t /\ ty'[n - 1] = t /\ ast[n].k = "let"
        BY <1>6, <2>1, <3>1, <3>3, <3>6 DEF inferred
      <4> QED BY <3>1, <3>3, <4>1 DEF CheckedNode
    <3> QED BY <3>5, <3>6 DEF CheckedNext
  <2>3. ~has_errors' => ~has_errors
    BY <2>1 DEF Report
  <2> HIDE DEF t
  <2> QED BY <1>3, <2>1, <2>2, <2>3
<1>15. CASE CheckReturn
  <2>1. /\ pos \in Nodes /\ ast[pos].k = "return" /\ Infer(NoType)
        /\ Report(ReturnedType(pos) # Last(return_type))
        /\ UNCHANGED <<symbol_types, function_signatures>>
    BY <1>15 DEF CheckReturn, Checking, At
  <2>2. ASSUME ~has_errors, ~has_errors' PROVE CheckedNext
    <3> DEFINE d == Last(path[pos])
    <3>1. ReturnedType(pos) = Last(return_type)
      BY <2>1, <2>2 DEF Report
    <3>2. return_type = [i \in DOMAIN path[pos] |-> DeclaredReturn(path[pos][i])]
      BY <1>1, <1>6, <2>1 DEF TypeInv, CheckTypes, ReturnTypesMirrorNesting, Here
    <3>3. path[pos] # <<>> =>
             /\ d \in Nodes /\ d < pos /\ path[pos] = <<d>> /\ ast[d].k \in {"fn", "test"}
             /\ path[d] = <<>>
      BY <1>1, <1>2, <2>1, <2>2, CheckingFacts
    <3>4. path[pos] # <<>> => Last(return_type) = DeclaredReturn(d)
      <4> SUFFICES ASSUME path[pos] # <<>> PROVE Last(return_type) = DeclaredReturn(d)
        OBVIOUS
      <4>1. path[pos] = <<d>>
        BY <3>3
      <4> HIDE DEF d
      <4>2. \A e : /\ DOMAIN <<e>> = {1} /\ <<e>>[1] = e
                   /\ Last([i \in DOMAIN <<e>> |-> DeclaredReturn(<<e>>[i])]) = DeclaredReturn(e)
        BY DEF Last
      <4> QED BY <3>2, <4>1, <4>2
    <3>5. path[pos] # <<>> /\ ast[d].k = "fn" => Resolve(ast[d].ret) \in ScalarTypes
      BY <1>1, <1>2, <2>1, <2>2, <3>3, CheckingFacts DEF SignaturesKnown, TopLevelFns
    <3>6. ast[pos].expr => ty[pos - 1] \in ScalarTypes /\ pos - 1 \in 1..pos - 1
      BY <1>1, <1>2, <2>1, <2>2, CheckingFacts
    <3>7. None \notin ScalarTypes
      BY DEF None, ScalarTypes, IntegerTypes, Floats
    <3>8. path[pos] # <<>> =>
             IF ast[d].k = "fn" THEN ast[pos].expr /\ ty[pos - 1] = Resolve(ast[d].ret)
                                ELSE ~ast[pos].expr
      BY <3>1, <3>3, <3>4, <3>5, <3>6, <3>7 DEF ReturnedType, DeclaredReturn
    <3>9. ASSUME NEW n, n = pos PROVE CheckedNode(n)'
      <4>1. ast[n].expr => ty'[n - 1] = ty[n - 1]
        BY <1>6, <2>1, <3>6, <3>9
      <4> QED BY <2>1, <3>3, <3>8, <3>9, <4>1 DEF CheckedNode, ValueKinds, ExprKinds
    <3> QED BY <3>9 DEF CheckedNext
  <2>3. ~has_errors' => ~has_errors
    BY <2>1 DEF Report
  <2> QED BY <1>4, <2>1, <2>2, <2>3
<1>16. CASE CheckModuleReturn
  <2>1. /\ pos \in Nodes /\ ast[pos].k = "return" /\ return_type = <<>>
        /\ UNCHANGED <<symbol_types, function_signatures>>
        /\ \/ Infer(NoType) /\ \E mismatch \in BOOLEAN : Report(mismatch)
           \/ Stop("crash", "return_type.top")
    BY <1>16 DEF CheckModuleReturn, Checking, At
  <2>2. ~EarlyReturn
    BY <1>2 DEF Gap
  <2>3. path[pos] # <<>>
    BY <1>1, <2>1, <2>2, ReturnEndsBody
  <2>4. return_type = [i \in DOMAIN path[pos] |-> DeclaredReturn(path[pos][i])]
    BY <1>1, <2>1 DEF TypeInv, CheckTypes, ReturnTypesMirrorNesting, Here, Nodes
  <2>5. path[pos] \in Seq(Nat)
    BY <1>1, <2>1 DEF TreeInv, Nodes
  <2> QED BY <2>1, <2>3, <2>4, <2>5
<1>17. CASE CheckFn
  <2>1. /\ pos \in Nodes /\ ast[pos].k = "fn" /\ pos \in TopLevelFns /\ Infer(NoType)
        /\ symbol_types' = Overwrite(symbol_types, ParamTypes(pos))
        /\ UNCHANGED <<has_errors, function_signatures>>
    BY <1>17 DEF CheckFn, Checking, At
  <2>2. path[pos] = <<>>
    BY <2>1 DEF TopLevelFns
  <2>3. ~has_errors => MirrorNext
    BY <1>1, <1>2, <2>1, <2>2, ParametersBound DEF Infer, Step
  <2>4. CheckedNext
    BY <2>1, <2>2 DEF CheckedNext, CheckedNode, ValueKinds, ExprKinds
  <2> QED BY <1>3, <2>1, <2>3, <2>4
<1>18. CASE CheckNestedFn
  BY <1>5, <1>18 DEF CheckNestedFn
<1>19. CASE CheckTest \/ CheckEnd
  <2>1. /\ pos \in Nodes /\ ast[pos].k \in {"test", "end"} /\ Infer(NoType)
        /\ UNCHANGED <<has_errors, symbol_types, function_signatures>>
    BY <1>19 DEF CheckTest, CheckEnd, Checking, At
  <2>2. CheckedNext
    BY <2>1 DEF CheckedNext, CheckedNode, ValueKinds, ExprKinds
  <2> QED BY <1>4, <2>1, <2>2
<1>20. CASE CheckerReturn
  <2>1. pos = Len(ast) + 1 /\ Verdict("checker", "generate") /\ UNCHANGED ty
    BY <1>20 DEF CheckerReturn, checkerVars
  <2>2. CASE has_errors
    BY <1>5, <2>1, <2>2 DEF Verdict
  <2>3. CASE ~has_errors
    <3>1. phase' = "generate"
      BY <2>1, <2>3 DEF Verdict, Enter
    <3>2. SignaturesKnown /\ \A n \in Nodes : CheckedNode(n)
      <4>1. Len(ast) \in Nat
        BY <1>1 DEF TreeInv
      <4>2. pos > 0 /\ \A n \in Nodes : n < pos
        BY <2>1, <4>1 DEF Nodes
      <4> QED BY <1>1, <2>3, <4>2 DEF CheckedInv
    <3>3. SignaturesKnown' /\ Nodes' = Nodes
      BY <1>1, <3>2, TreeUnchanged DEF SignaturesKnown
    <3>4. \A n \in Nodes : CheckedNode(n)'
      BY <1>1, <2>1, <3>2, CheckedKept DEF TypeInv
    <3> QED BY <3>1, <3>3, <3>4 DEF CheckedInv
  <2> QED BY <2>2, <2>3
<1> QED
  BY <1>7, <1>8, <1>9, <1>10, <1>12, <1>13, <1>14, <1>15, <1>16, <1>17, <1>18, <1>19, <1>20
  DEF CheckerNext

-----------------------------------------------------------------------------
\* Two functions of one symbol are a gap of the checker.
LEMMA FunctionsUnique ==
    ASSUME FunctionsInv, ~DuplicateFunction, vals \in Seq(Value)
    PROVE  SymbolsUnique
<1>1. \A name, i : TestSym(i) # Sym(name)
  <2>1. \A name, i : Len(TestSym(i)) = 2 /\ Len(Sym(name)) = 1
    BY DEF TestSym, Sym
  <2>2. \A name, i : TestSym(i) = Sym(name) => 1 = 2
    BY <2>1, Zenon
  <2> QED BY <2>2
<1>2. \A a, b : Sym(a) = Sym(b) => a = b
  <2>1. \A a : Sym(a)[1] = a
    BY DEF Sym
  <2> QED BY <2>1
<1>3. \A f \in DOMAIN funcs :
         \/ f = Main /\ funcs[f].sym = Sym("__main")
         \/ f \in TopLevelFns /\ funcs[f].sym = Sym(ast[f].name)
         \/ f \in TestsSoFar /\ \E i \in DOMAIN test_symbols : funcs[f].sym = TestSym(i - 1)
  BY DEF FunctionsInv, Prototypes
<1> SUFFICES ASSUME NEW f \in DOMAIN funcs, NEW g \in DOMAIN funcs, funcs[f].sym = funcs[g].sym
             PROVE  f = g
  BY DEF SymbolsUnique
<1>4. CASE f \in TestsSoFar \/ g \in TestsSoFar
  <2>1. /\ f \in TestsSoFar \/ g \in TestsSoFar
        /\ \A h \in TestsSoFar : \E i \in DOMAIN test_symbols : funcs[h].sym = TestSym(i - 1)
    BY <1>4 DEF FunctionsInv
  <2>2. f \in TestsSoFar /\ g \in TestsSoFar
    BY <1>1, <1>3, <2>1
  <2>3. PICK i \in DOMAIN test_symbols : funcs[f].sym = TestSym(i - 1) /\ funcs[g].sym = TestSym(i - 1)
    BY <2>1, <2>2
  <2>4. (f < g <=> i < i) /\ (g < f <=> i < i)
    BY <2>2, <2>3 DEF FunctionsInv
  <2>5. f \in Nat /\ g \in Nat
    BY <2>2 DEF TestsSoFar
  <2>6. ~(f < g) /\ ~(g < f)
    <3>1. i \in Int => ~(i < i)
      OBVIOUS
    <3> QED BY <2>3, <2>4, <3>1, SMTT(20) DEF FunctionsInv
  <2> QED BY <2>5, <2>6
<1>5. CASE f \notin TestsSoFar /\ g \notin TestsSoFar
  <2>1. CASE f \in TopLevelFns /\ g \in TopLevelFns
    BY <1>1, <1>2, <1>3, <1>5, <2>1 DEF DuplicateFunction, FunctionsInv, Prototypes
  <2>2. CASE f \notin TopLevelFns \/ g \notin TopLevelFns
    BY <1>1, <1>2, <1>3, <1>5, <2>2 DEF DuplicateFunction, NamesOf
  <2> QED BY <2>1, <2>2
<1> QED BY <1>4, <1>5

\* So a lookup finds the function that was meant.
LEMMA LookupFinds ==
    ASSUME ModuleTyped, SymbolsUnique, NEW f \in DOMAIN funcs, NEW sym, funcs[f].sym = sym
    PROVE  Declared(sym) /\ LookupSymbol(sym) = f
<1> DEFINE S == {g \in DOMAIN funcs : funcs[g].sym = sym}
<1>1. S = {f} /\ S \subseteq Nat
  BY DEF SymbolsUnique, ModuleTyped
<1>2. Min(S) \in S
  BY <1>1, MinIsLeast
<1> QED BY <1>1, <1>2 DEF Declared, LookupSymbol

-----------------------------------------------------------------------------
\* The module grows, and operations stay where they are.
Extends ==
    /\ Grows
    /\ \A f \in DOMAIN funcs :
        /\ Len(funcs[f].ops) <= Len(funcs'[f].ops)
        /\ \A i \in DOMAIN funcs[f].ops : funcs'[f].ops[i] = funcs[f].ops[i]

\* What dominates an operation dominates every later one.
LEMMA DominatesKept ==
    ASSUME ModuleTyped, Extends, NEW f \in DOMAIN funcs, NEW v \in Value, NEW i \in Nat,
           i <= Len(funcs[f].ops) + 1, NEW j \in Nat, i <= j, Dominates(v, f, i)
    PROVE  Dominates(v, f, j)'
<1>1. v.at \in Int /\ v.at < j
  BY DEF Dominates, Value
<1>2. v.at > 0 => v.at \in DOMAIN funcs[f].ops
  <2>1. funcs[f].ops \in Seq(Range(funcs[f].ops))
    BY DEF ModuleTyped, FunctionTyped
  <2>2. Len(funcs[f].ops) \in Nat /\ DOMAIN funcs[f].ops = 1..Len(funcs[f].ops)
    BY <2>1
  <2>3. v.at < i
    BY DEF Dominates
  <2> QED BY <1>1, <2>2, <2>3
<1>3. /\ funcs'[f].params = funcs[f].params
      /\ v.at > 0 => funcs'[f].ops[v.at] = funcs[f].ops[v.at]
  BY <1>2 DEF Extends, Grows
<1> QED BY <1>1, <1>3 DEF Dominates

\* An operation is well typed whatever functions are added.
LEMMA WellTypedKept ==
    ASSUME Grows, NEW f \in DOMAIN funcs, NEW o, WellTyped(f, o)
    PROVE  WellTyped(f, o)'
<1>1. \A g \in DOMAIN funcs :
         /\ g \in DOMAIN funcs' /\ funcs'[g].sym = funcs[g].sym
         /\ funcs'[g].params = funcs[g].params /\ funcs'[g].rets = funcs[g].rets
         /\ ResultType(g)' = ResultType(g)
  BY DEF Grows, ResultType
<1>2. TypesOf(o.args)' = TypesOf(o.args)
  BY DEF TypesOf
<1> QED BY <1>1, <1>2 DEF WellTyped

\* A module whose new operations are verified is verified, if nothing follows a
\* return.
LEMMA OperationsKept ==
    ASSUME ModuleTyped, OperationsInv, Extends,
           \A f \in DOMAIN funcs : HasReturned(f) => Len(funcs'[f].ops) = Len(funcs[f].ops),
           \A f \in DOMAIN funcs' : \A i \in DOMAIN funcs'[f].ops :
               (f \in DOMAIN funcs /\ i \in DOMAIN funcs[f].ops) \/ Verified(f, i)'
    PROVE  OperationsInv'
<1> SUFFICES ASSUME NEW f \in DOMAIN funcs, NEW i \in DOMAIN funcs[f].ops
             PROVE  Verified(f, i)'
  BY DEF OperationsInv
<1>1. /\ funcs[f].ops \in Seq(Range(funcs[f].ops))
      /\ i \in 1..Len(funcs[f].ops) /\ Len(funcs[f].ops) \in Nat
      /\ funcs[f].ops[i].args \in Seq(Value)
  <2>1. funcs[f].ops \in Seq(Range(funcs[f].ops)) /\ funcs[f].ops[i].args \in Seq(Value)
    BY DEF ModuleTyped, FunctionTyped, OperationTyped
  <2> QED BY <2>1
<1>2. Verified(f, i)
  BY DEF OperationsInv
<1>3. funcs'[f].ops[i] = funcs[f].ops[i]
  BY DEF Extends
<1> SUFFICES ASSUME NEW o, o = funcs[f].ops[i], o = funcs'[f].ops[i]
             PROVE  /\ WellTyped(f, o)' /\ o.block = 1
                    /\ \A v \in Range(o.args) : Dominates(v, f, i)'
                    /\ o.op = "return" => i = Len(funcs'[f].ops)
  BY <1>3, Zenon DEF Verified
<1>4. WellTyped(f, o)' /\ o.block = 1
  BY <1>2, WellTypedKept DEF Verified, Extends
<1>5. ASSUME NEW v \in Range(o.args) PROVE Dominates(v, f, i)'
  <2>1. Dominates(v, f, i)
    BY <1>2, <1>5 DEF Verified
  <2>2. v \in Value
    BY <1>1, <1>5 DEF Range
  <2> QED BY <1>1, <2>1, <2>2, DominatesKept
<1>6. ASSUME o.op = "return" PROVE i = Len(funcs'[f].ops)
  <2>1. i = Len(funcs[f].ops)
    BY <1>2, <1>6 DEF Verified
  <2>2. HasReturned(f)
    <3>1. \A s : s \in Seq(Range(s)) /\ Len(s) \in 1..Len(s) => s # <<>>
      OBVIOUS
    <3>2. funcs[f].ops # <<>>
      BY <1>1, <2>1, <3>1, Zenon
    <3>3. Last(funcs[f].ops) = o
      BY <2>1, Zenon DEF Last
    <3> QED BY <1>6, <3>2, <3>3, Zenon DEF HasReturned
  <2> QED BY <2>1, <2>2
<1> QED BY <1>4, <1>5, <1>6

\* An operation at the end of a body that has not returned.
LEMMA OperationAppended ==
    ASSUME ModuleTyped, OperationsInv, NEW f \in DOMAIN funcs, ~HasReturned(f),
           NEW o, funcs' = [funcs EXCEPT ![f].ops = Append(@, o)],
           o.block = 1, WellTyped(f, o),
           \A v \in Range(o.args) : v \in Value /\ Dominates(v, f, Len(funcs[f].ops) + 1)
    PROVE  /\ Extends /\ OperationsInv' /\ DOMAIN funcs' = DOMAIN funcs
           /\ \A g \in DOMAIN funcs : funcs'[g].blocks = funcs[g].blocks
           /\ Len(funcs'[f].ops) = Len(funcs[f].ops) + 1 /\ Len(funcs[f].ops) \in Nat
           /\ funcs'[f].ops[Len(funcs[f].ops) + 1] = o
           /\ \A g \in DOMAIN funcs : HasReturned(g)' <=> IF g = f THEN o.op = "return" ELSE HasReturned(g)
<1> DEFINE s == funcs[f].ops
           l == Len(s)
<1>1. /\ DOMAIN funcs' = DOMAIN funcs /\ \A g \in DOMAIN funcs : g # f => funcs'[g] = funcs[g]
      /\ funcs'[f].ops = Append(s, o) /\ \A g \in DOMAIN funcs : funcs'[g].blocks = funcs[g].blocks
      /\ \A g \in DOMAIN funcs : funcs[g].ops \in Seq(Range(funcs[g].ops))
  BY DEF ModuleTyped, FunctionTyped
<1>2. /\ l \in Nat /\ DOMAIN s = 1..l /\ Len(Append(s, o)) = l + 1
      /\ DOMAIN Append(s, o) = 1..l + 1
      /\ \A i \in 1..l : Append(s, o)[i] = s[i]
      /\ Append(s, o)[l + 1] = o /\ Append(s, o) # <<>>
  <2>1. s \in Seq(Range(s))
    BY <1>1
  <2> HIDE DEF s
  <2> QED BY <2>1, SeqAppend
<1>3. Grows
  BY ModuleGrows
<1>4. Extends
  <2>1. \A g \in DOMAIN funcs : Len(funcs[g].ops) \in Nat
    BY <1>1
  <2> HIDE DEF s
  <2>2. \A g \in DOMAIN funcs : g # f => Len(funcs[g].ops) <= Len(funcs'[g].ops)
    BY <1>1, <2>1
  <2>3. Len(funcs[f].ops) <= Len(funcs'[f].ops)
    BY <1>1, <1>2 DEF s
  <2> QED BY <1>1, <1>2, <1>3, <2>2, <2>3 DEF Extends, s
<1>5. ASSUME NEW i, i = l + 1 PROVE Verified(f, i)'
  <2> SUFFICES ASSUME NEW p, p = o
               PROVE  /\ WellTyped(f, p)' /\ p.block = 1
                      /\ \A v \in Range(p.args) : Dominates(v, f, i)'
    <3>1. funcs'[f].ops[i] = o /\ i = Len(funcs'[f].ops)
      <4>1. Append(s, o)[i] = o /\ Len(Append(s, o)) = i
        BY <1>2, <1>5
      <4> HIDE DEF s
      <4> QED BY <1>1, <4>1
    <3> QED BY <3>1, Zenon DEF Verified
  <2>1. WellTyped(f, p)'
    BY <1>3, WellTypedKept
  <2>2. ASSUME NEW v \in Range(p.args) PROVE Dominates(v, f, i)'
    BY <1>2, <1>4, <1>5, DominatesKept
  <2> QED BY <2>1, <2>2
<1>6. funcs'[f].ops[l + 1] = o /\ Len(funcs'[f].ops) = l + 1
  BY <1>1, <1>2
<1>7. OperationsInv'
  <2>1. ASSUME NEW g \in DOMAIN funcs, HasReturned(g) PROVE Len(funcs'[g].ops) = Len(funcs[g].ops)
    BY <1>1, <2>1
  <2>2. ASSUME NEW g \in DOMAIN funcs', NEW i \in DOMAIN funcs'[g].ops
        PROVE  (g \in DOMAIN funcs /\ i \in DOMAIN funcs[g].ops) \/ Verified(g, i)'
    <3>1. CASE g = f
      <4>1. i \in 1..l + 1
        <5> HIDE DEF s, l
        <5> QED BY <1>1, <1>2, <3>1
      <4>2. i \in 1..l \/ i = l + 1
        BY <1>2, <4>1
      <4> QED BY <1>2, <1>5, <3>1, <4>2
    <3>2. CASE g # f
      BY <1>1, <3>2
    <3> QED BY <3>1, <3>2
  <2> QED BY <1>4, <2>1, <2>2, OperationsKept
<1>8. ASSUME NEW g \in DOMAIN funcs
      PROVE  HasReturned(g)' <=> IF g = f THEN o.op = "return" ELSE HasReturned(g)
  <2>1. CASE g = f
    <3>1. funcs'[f].ops # <<>> /\ Last(funcs'[f].ops) = o
      BY <1>1, <1>2, <1>6 DEF Last
    <3> QED BY <2>1, <3>1 DEF HasReturned
  <2>2. CASE g # f
    BY <1>1, <2>2 DEF HasReturned
  <2> QED BY <2>1, <2>2
<1> QED BY <1>1, <1>2, <1>4, <1>6, <1>7, <1>8

-----------------------------------------------------------------------------
\* The generator stands at a node of a source without a gap.
AtNode ==
    /\ IInv /\ TypeInv /\ GeneratorInv /\ Shaped /\ CheckedInv /\ GeneratedInv /\ ~Gap
    /\ phase = "generate" /\ pos \in Nodes

\* The function in which node n is generated.
Home(n) == FnOf(path[n])

\* What it may rely on there.
LEMMA GeneratingFacts ==
    ASSUME AtNode
    PROVE  /\ TreeInv /\ WellScoped /\ ModuleTyped /\ FunctionsInv /\ ValueMapInv /\ SymbolsUnique
           /\ vals \in Seq(Value) /\ Len(vals) = pos - 1 /\ pos \in Nat \ {0} /\ pos \in 1..Len(ast)
           /\ \A n \in 1..pos : n \in Nodes
           /\ Len(ast) \in Nat /\ PathAt(pos) = path[pos]
           /\ SignaturesKnown /\ \A n \in Nodes : CheckedNode(n) /\ CallableNode(n) /\ OperandsPrecede(n)
           /\ DeclarationsInv /\ ValuesInv /\ OperationsInv /\ BodiesInv
           /\ ip = [fn |-> Home(pos), block |-> 1]
<1>1. TreeInv /\ WellScoped /\ Len(ast) \in Nat
  BY DEF AtNode, IInv, AcceptInv, TreeInv
<1>2. pos \in Nat \ {0} /\ pos \in 1..Len(ast) /\ \A n \in 1..pos : n \in Nodes
  BY <1>1 DEF AtNode, Nodes
<1>3. pos > 0
  BY <1>2
<1>4. /\ vals \in Seq(Value) /\ Len(vals) = pos - 1 /\ ModuleTyped
      /\ \A n \in Nodes : OperandsPrecede(n)
  BY <1>3 DEF AtNode, TypeInv, TypeOK, GenerateTypes
<1>5. FunctionsInv /\ ValueMapInv
  BY <1>3 DEF AtNode, GeneratorInv
<1>6. SymbolsUnique
  BY <1>4, <1>5, FunctionsUnique DEF AtNode, Gap
<1>7. DeclarationsInv /\ ValuesInv /\ OperationsInv /\ BodiesInv
  BY <1>3, Zenon DEF AtNode, GeneratedInv
<1>8. SignaturesKnown /\ \A n \in Nodes : CheckedNode(n)
  BY Zenon DEF AtNode, CheckedInv
<1>9. \A n \in Nodes : CallableNode(n)
  BY DEF AtNode, IInv, CheckInv
<1>10. PathAt(pos) = path[pos]
  BY DEF AtNode, PathAt
<1>11. ip = [fn |-> Home(pos), block |-> 1]
  BY <1>7, <1>10 DEF DeclarationsInv, Home
<1> QED BY <1>1, <1>2, <1>4, <1>5, <1>6, <1>7, <1>8, <1>9, <1>10, <1>11

\* A body up to the cursor has its function: __main, or that of a declaration at
\* the top.
LEMMA HomeExists ==
    ASSUME AtNode, NEW n \in 1..pos
    PROVE  /\ Home(n) \in DOMAIN funcs /\ Home(n) \in Nat
           /\ IF path[n] = <<>>
                THEN Home(n) = Main
                ELSE LET d == Home(n)
                     IN  /\ path[n] = <<d>> /\ d \in Nodes /\ d < n /\ Last(path[n]) = d
                         /\ path[d] = <<>> /\ d # Main
                         /\ ast[d].k = (IF d \in TopLevelFns THEN "fn" ELSE "test")
<1>1. /\ TreeInv /\ FunctionsInv /\ n \in Nodes /\ DOMAIN vals = 1..pos - 1
      /\ \A m \in Nodes : m \in Nat \ {0}
      /\ \A m \in Nodes : CheckedNode(m)
      /\ pos \in Nat /\ Main \in DOMAIN funcs /\ DOMAIN funcs \subseteq Nat /\ n \in 1..Len(ast) + 1
  BY GeneratingFacts DEF Nodes, ModuleTyped
<1>2. CASE path[n] = <<>>
  BY <1>1, <1>2 DEF Home, FnOf
<1>3. CASE path[n] # <<>>
  <2> DEFINE d == Last(path[n])
  <2>1. PathAt(n) = path[n]
    BY <1>1 DEF PathAt
  <2>2. \A m \in Nodes : ast[m].k = "fn" => path[m] = <<>>
    BY <1>1 DEF CheckedNode
  <2>3. /\ d \in Nodes /\ d < n /\ path[n] = <<d>>
        /\ ast[d].k \in {"fn", "test"} /\ path[d] = <<>> /\ Last(path[n]) = d
    BY <1>1, <1>3, <2>1, <2>2, FlatBodies DEF AtNode
  <2>4. Home(n) = d
    BY <1>3 DEF Home, FnOf
  <2> HIDE DEF d
  <2>5. ast[d].k = "fn" => d \in TopLevelFns
    BY <2>3 DEF TopLevelFns
  <2>6. ast[d].k = "test" => d \in TestsSoFar /\ d \notin TopLevelFns
    <3>1. d \in 1..pos - 1
      BY <1>1, <2>3
    <3> QED BY <1>1, <2>3, <3>1 DEF TestsSoFar, TopLevelFns
  <2>7. d \in DOMAIN funcs
    BY <2>3, <2>5, <2>6, <1>1 DEF FunctionsInv
  <2>8. d # Main
    BY <1>1, <2>3 DEF Main
  <2>9. d \in Nat
    BY <1>1, <2>3
  <2>10. ast[d].k = (IF d \in TopLevelFns THEN "fn" ELSE "test")
    BY <2>3, <2>5, <2>6
  <2> QED BY <1>3, <2>3, <2>4, <2>7, <2>8, <2>9, <2>10, Zenon
<1> QED BY <1>2, <1>3

\* A value before the cursor, of the body at hand, can be used.
LEMMA OperandUsable ==
    ASSUME AtNode, NEW m \in 1..pos - 1, ast[m].k \in ValueKinds, path[m] = path[pos]
    PROVE  /\ vals[m] \in Value /\ vals[m].type = ty[m] /\ ty[m] \in ScalarTypes /\ vals[m] # NoValue
           /\ Dominates(vals[m], Home(pos), Len(funcs[Home(pos)].ops) + 1)
<1>1. /\ vals \in Seq(Value) /\ Len(vals) = pos - 1 /\ pos \in Nat /\ ValuesInv /\ m \in Nodes
      /\ CheckedNode(m)
  BY GeneratingFacts
<1>2. m \in DOMAIN vals /\ vals[m] \in Value
  BY <1>1
<1>3. /\ vals[m].type = ty[m]
      /\ Dominates(vals[m], Home(pos), Len(funcs[Home(pos)].ops) + 1)
  BY <1>1, <1>2, Zenon DEF ValuesInv, Home
<1>4. vals[m].at # 0
  BY <1>3 DEF Dominates
<1>5. ty[m] \in ScalarTypes
  BY <1>1 DEF CheckedNode
<1> QED BY <1>2, <1>3, <1>4, <1>5 DEF NoValue

\* So can the operands of the node at the cursor, at the types that the checker
\* gave them.
LEMMA OperandsUsable ==
    ASSUME AtNode, "kids" \in DOMAIN ast[pos]
    PROVE  LET o == Operands(pos, vals)
           IN  /\ o \in Seq(Value) /\ Len(o) = Len(ast[pos].kids) /\ Len(o) \in Nat
               /\ DOMAIN o = 1..Len(ast[pos].kids) /\ DOMAIN ast[pos].kids = 1..Len(ast[pos].kids)
               /\ TypesOf(o) = KidTypes(pos)
               /\ \A v \in Range(o) :
                     v \in Value /\ v # NoValue /\ Dominates(v, Home(pos), Len(funcs[Home(pos)].ops) + 1)
<1> DEFINE o == Operands(pos, vals)
           l == Len(ast[pos].kids)
<1>1. /\ ast[pos].kids \in Seq(Nat \ {0}) /\ pos \in Nodes
  <2>1. ast[pos] \in Node /\ pos \in Nodes
    BY GeneratingFacts DEF TreeInv, Nodes
  <2> QED BY <2>1, KidsOfNode
<1>2. l \in Nat /\ DOMAIN ast[pos].kids = 1..l
  BY <1>1
<1>3. DOMAIN o = 1..l /\ \A i \in 1..l : o[i] = vals[Kid(pos, i)]
  BY DEF Operands
<1>4. ASSUME NEW i \in 1..l
      PROVE  /\ o[i] \in Value /\ o[i].type = ty[Kid(pos, i)] /\ o[i] # NoValue
             /\ Dominates(o[i], Home(pos), Len(funcs[Home(pos)].ops) + 1)
  <2>1. Kid(pos, i) \in 1..pos - 1
    BY <1>1, <1>2, GeneratingFacts DEF OperandsPrecede
  <2>2. ast[Kid(pos, i)].k \in ValueKinds /\ path[Kid(pos, i)] = path[pos]
    <3>1. Shaped /\ ~AssertUsedAsValue
      BY DEF AtNode, Gap
    <3>2. ast[Kid(pos, i)].k \in ValueKinds
      BY <1>1, <1>2, <3>1, OperandsAreValues
    <3> QED BY <1>1, <1>2, <3>1, <3>2 DEF Shaped, ShapedNode
  <2>3. \A m : m = Kid(pos, i) =>
           /\ vals[m] \in Value /\ vals[m].type = ty[m] /\ vals[m] # NoValue
           /\ Dominates(vals[m], Home(pos), Len(funcs[Home(pos)].ops) + 1)
    BY <2>1, <2>2, OperandUsable
  <2> QED BY <1>3, <2>3
<1> HIDE DEF o, l
<1>5. o \in Seq(Value) /\ Len(o) = l
  <2>1. o = [i \in 1..l |-> o[i]]
    BY DEF o, Operands, l
  <2> QED BY <1>2, <1>3, <1>4, <2>1
<1>6. TypesOf(o) = KidTypes(pos)
  BY <1>2, <1>3, <1>4 DEF TypesOf, KidTypes
<1> QED BY <1>2, <1>3, <1>4, <1>5, <1>6 DEF o, l, Range

\* The body at hand has not returned, except at its end.
LEMMA NotReturned ==
    ASSUME AtNode, ast[pos].k # "end"
    PROVE  ~HasReturned(Home(pos))
<1>1. /\ TreeInv /\ BodiesInv /\ pos \in 1..pos /\ PathAt(pos) = path[pos] /\ pos \in Nat \ {0}
      /\ \A n \in 1..pos : n \in Nodes
      /\ ~EarlyReturn
  BY GeneratingFacts DEF AtNode, Gap
<1>2. SUFFICES ASSUME HasReturned(Home(pos)) PROVE FALSE
  OBVIOUS
<1>3. Home(pos) # Main /\ ast[pos - 1].k = "return"
  BY <1>1, <1>2, HomeExists DEF BodiesInv, Home
<1>4. pos - 1 \in Nodes
  <2>1. path[pos] # <<>>
    BY <1>1, <1>3, HomeExists
  <2>2. Home(pos) < pos /\ Home(pos) \in Nat
    BY <1>1, <2>1, HomeExists
  <2>3. pos - 1 \in 1..pos
    BY <1>1, <1>3, <2>2 DEF Main
  <2> QED BY <1>1, <2>3
<1>5. ASSUME NEW n \in Nodes, n = pos - 1 PROVE FALSE
  <2>1. ast[n + 1].k = "end" /\ n + 1 = pos
    BY <1>1, <1>3, <1>5, ReturnEndsBody
  <2> QED BY <2>1
<1> QED BY <1>4, <1>5

\* A value that generate() returns can be used from there on, and so can the
\* values before.
LEMMA ValuesStay ==
    ASSUME AtNode, UNCHANGED <<ast, path, open, ty>>, Extends, NEW w, vals' = Append(vals, w),
           ast[pos].k \in ValueKinds =>
               /\ w.type = ty[pos]
               /\ \A f, j : f = Home(pos) /\ j = Len(funcs'[f].ops) + 1 => Dominates(w, f, j)'
    PROVE  ValuesInv'
<1>1. /\ vals \in Seq(Value) /\ Len(vals) = pos - 1 /\ ValuesInv /\ ModuleTyped /\ pos \in Nat \ {0}
  BY GeneratingFacts
<1>2. DOMAIN vals' = 1..pos /\ vals'[pos] = w /\ \A n \in 1..pos - 1 : vals'[n] = vals[n]
  BY <1>1
<1> SUFFICES ASSUME NEW n \in 1..pos, ast[n].k \in ValueKinds, NEW v, v = vals'[n],
                    NEW f, f = Home(n), NEW j, j = Len(funcs'[f].ops) + 1
             PROVE  v.type = ty[n] /\ Dominates(v, f, j)'
  BY <1>2 DEF ValuesInv, Home, FnOf, Main
<1>3. CASE n = pos
  BY <1>2, <1>3
<1>4. CASE n # pos
  <2>1. n \in 1..pos - 1 /\ n \in DOMAIN vals /\ v = vals[n] /\ v \in Value
    BY <1>1, <1>2, <1>4
  <2>2. v.type = ty[n] /\ Dominates(v, f, Len(funcs[f].ops) + 1)
    BY <1>1, <2>1, Zenon DEF ValuesInv, Home
  <2>3. f \in DOMAIN funcs
    BY HomeExists
  <2>4. /\ Len(funcs[f].ops) \in Nat /\ Len(funcs[f].ops) <= Len(funcs'[f].ops)
        /\ Len(funcs'[f].ops) \in Nat
    <3>1. funcs[f].ops \in Seq(Range(funcs[f].ops)) /\ Len(funcs[f].ops) <= Len(funcs'[f].ops)
      BY <1>1, <2>3 DEF ModuleTyped, FunctionTyped, Extends
    <3> QED BY <3>1
  <2>5. ASSUME NEW i, i = Len(funcs[f].ops) + 1 PROVE Dominates(v, f, j)'
    <3>1. i \in Nat /\ i <= Len(funcs[f].ops) + 1 /\ j \in Nat /\ i <= j
      BY <2>4, <2>5
    <3>2. Dominates(v, f, i)
      BY <2>2, <2>5, Zenon
    <3> QED BY <1>1, <2>1, <2>3, <3>1, <3>2, DominatesKept
  <2> QED BY <2>2, <2>5
<1> QED BY <1>3, <1>4

\* The tree around a node that is no declaration and no end.
LEMMA WalkStaysInBody ==
    ASSUME AtNode, UNCHANGED <<ast, path, open>>, pos' = pos + 1,
           ast[pos].k \notin {"fn", "test", "end"}
    PROVE  /\ PathAt(pos)' = path[pos] /\ Nodes' = Nodes /\ TopLevelFns' = TopLevelFns
           /\ \A f \in DOMAIN funcs : f # pos /\ (f < pos <=> f < pos + 1)
<1>1. PathAt(pos + 1) = path[pos]
  BY GeneratingFacts, ScopeStep
<1>2. PathAt(pos)' = PathAt(pos + 1) /\ Nodes' = Nodes /\ TopLevelFns' = TopLevelFns
  BY TreeUnchanged
<1>3. /\ DOMAIN vals = 1..pos - 1 /\ FunctionsInv /\ DOMAIN funcs \subseteq Nat /\ pos \in Nat \ {0}
  BY GeneratingFacts DEF ModuleTyped
<1>4. pos \notin DOMAIN funcs
  BY <1>3 DEF FunctionsInv, TopLevelFns, TestsSoFar, Main
<1>5. \A f \in DOMAIN funcs : f < pos <=> f < pos + 1
  BY <1>3, <1>4
<1> QED BY <1>1, <1>2, <1>4, <1>5

\* Generating a node that is no declaration and no end keeps GeneratedInv, if the
\* new operations are valid and the value, if it is used, can be.
LEMMA WalkKeepsGenerated ==
    ASSUME AtNode, UNCHANGED <<ast, path, open, ty, ip, frames>>, pos' = pos + 1,
           ast[pos].k \notin {"fn", "test", "end"},
           Extends, OperationsInv', DOMAIN funcs' = DOMAIN funcs,
           \A g \in DOMAIN funcs : funcs'[g].blocks = funcs[g].blocks,
           \A g \in DOMAIN funcs :
               HasReturned(g)' <=> IF g = Home(pos) THEN ast[pos].k = "return" ELSE HasReturned(g),
           NEW w, vals' = Append(vals, w),
           ast[pos].k \in ValueKinds =>
               /\ w.type = ty[pos]
               /\ \A f, j : f = Home(pos) /\ j = Len(funcs'[f].ops) + 1 => Dominates(w, f, j)'
    PROVE  GeneratedInv'
<1>1. /\ TreeInv /\ pos \in Nat \ {0} /\ pos \in 1..pos /\ pos + 1 - 1 = pos
      /\ DeclarationsInv /\ BodiesInv /\ PathAt(pos) = path[pos]
  BY GeneratingFacts
<1>2. ValuesInv'
  BY ValuesStay
<1>3. DeclarationsInv'
  <2>1. \A f \in DOMAIN funcs : ParamList(f)' = ParamList(f)
    BY DEF ParamList
  <2>2. ASSUME NEW f \in DOMAIN funcs
        PROVE  IF f \in TopLevelFns'
                 THEN /\ funcs'[f].params = ParamList(f)' /\ funcs'[f].rets = <<Resolve(ast'[f].ret)>>
                      /\ funcs'[f].blocks = IF f < pos' THEN 1 ELSE 0
                 ELSE funcs'[f].params = <<>> /\ funcs'[f].rets = <<>> /\ funcs'[f].blocks = 1
    <3>1. /\ funcs'[f].params = funcs[f].params /\ funcs'[f].rets = funcs[f].rets
          /\ funcs'[f].blocks = funcs[f].blocks
      BY DEF Extends, Grows
    <3> QED BY <1>1, <2>1, <3>1, WalkStaysInBody DEF DeclarationsInv
  <2>3. ip' = [fn |-> FnOf(PathAt(pos)'), block |-> 1]
    BY <1>1, WalkStaysInBody DEF DeclarationsInv
  <2>4. \A i \in DOMAIN frames' : frames'[i].ip = [fn |-> Main, block |-> 1]
    BY <1>1 DEF DeclarationsInv
  <2> QED BY <2>2, <2>3, <2>4, Zenon DEF DeclarationsInv, FnOf, Main
<1>4. BodiesInv'
  <2> SUFFICES ASSUME NEW f \in DOMAIN funcs
               PROVE  HasReturned(f)' <=>
                         /\ f # Main
                         /\ IF f = Home(pos) THEN ast[pos].k = "return" ELSE f < pos + 1
    BY <1>1, WalkStaysInBody DEF BodiesInv, Home, FnOf, Main
  <2>1. f < pos <=> f < pos + 1
    BY WalkStaysInBody
  <2>2. CASE f = Home(pos)
    <3>1. ast[pos].k = "return" => f # Main
      <4>1. ast[pos].k = "return" => path[pos] # <<>>
        BY <1>1, ReturnEndsBody DEF AtNode, Gap
      <4> QED BY <1>1, <2>2, <4>1, HomeExists
    <3> QED BY <2>2, <3>1
  <2>3. CASE f # Home(pos)
    <3>1. HasReturned(f) <=> f # Main /\ f < pos
      BY <1>1, <2>3 DEF BodiesInv, Home
    <3> QED BY <2>1, <2>3, <3>1
  <2> QED BY <2>2, <2>3
<1> QED BY <1>2, <1>3, <1>4 DEF GeneratedInv

\* Creating an operation on values that can be used, with the type that the
\* checker gave the node, does not crash and keeps GeneratedInv.
LEMMA CreateKeeps ==
    ASSUME AtNode, UNCHANGED <<ast, path, open, ty>>, ast[pos].k \notin {"fn", "test", "end"},
           NEW op, NEW args, NEW attr, NEW type, Create(op, args, attr, type),
           \A v \in Range(args) :
               v \in Value /\ v # NoValue /\ Dominates(v, Home(pos), Len(funcs[Home(pos)].ops) + 1),
           WellTyped(Home(pos), Operation(op, args, attr, type)),
           op = "return" <=> ast[pos].k = "return",
           ast[pos].k \in ValueKinds => type = ty[pos]
    PROVE  phase' = phase /\ why' = why /\ GeneratedInv'
<1> DEFINE f == Home(pos)
           l == Len(funcs[f].ops)
           o == Operation(op, args, attr, type)
           w == IF type = NoType THEN NoValue ELSE [fn |-> f, at |-> l + 1, type |-> type]
<1>1. /\ ip = [fn |-> f, block |-> 1] /\ f \in DOMAIN funcs /\ ModuleTyped /\ OperationsInv
      /\ pos \in Nat \ {0} /\ CheckedNode(pos) /\ pos \in Nodes
  <2>1. pos \in 1..pos
    BY GeneratingFacts
  <2> QED BY <2>1, GeneratingFacts, HomeExists
<1>2. /\ funcs' = [funcs EXCEPT ![f].ops = Append(@, o)] /\ vals' = Append(vals, w)
      /\ pos' = pos + 1 /\ UNCHANGED <<phase, why, ip, frames>>
  <2>1. NoValue \notin Range(args)
    OBVIOUS
  <2> QED BY <1>1, <2>1 DEF Create, Step
<1>3. o.block = 1 /\ o.op = op /\ o.args = args /\ o.type = type
  BY <1>1 DEF Operation
<1>4. ~HasReturned(f)
  BY NotReturned
<1> HIDE DEF f, o, w
<1>5. /\ Extends /\ OperationsInv' /\ DOMAIN funcs' = DOMAIN funcs
      /\ \A g \in DOMAIN funcs : funcs'[g].blocks = funcs[g].blocks
      /\ Len(funcs'[f].ops) = l + 1 /\ l \in Nat
      /\ funcs'[f].ops[l + 1] = o
      /\ \A g \in DOMAIN funcs : HasReturned(g)' <=> IF g = f THEN o.op = "return" ELSE HasReturned(g)
  <2>1. WellTyped(f, o) /\ \A v \in Range(o.args) : v \in Value /\ Dominates(v, f, l + 1)
    BY <1>3, Zenon DEF f, o
  <2> QED BY <1>1, <1>2, <1>3, <1>4, <2>1, OperationAppended
<1>6. PICK v : v = w
  OBVIOUS
<1>7. ASSUME ast[pos].k \in ValueKinds
      PROVE  /\ v.type = ty[pos]
             /\ \A g, j : g = f /\ j = Len(funcs'[g].ops) + 1 => Dominates(v, g, j)'
  <2>1. type = ty[pos] /\ type # NoType
    BY <1>1, <1>7 DEF CheckedNode, ScalarTypes, IntegerTypes, Floats, NoType
  <2>2. v = [fn |-> f, at |-> l + 1, type |-> type]
    BY <1>6, <2>1 DEF w
  <2>3. v.fn = f /\ v.at = l + 1 /\ v.type = type
    BY <2>2
  <2>4. ASSUME NEW g, g = f, NEW j, j = Len(funcs'[g].ops) + 1
        PROVE  Dominates(v, g, j)'
    <3>1. /\ v.fn = g /\ v.at < j /\ v.at > 0 /\ ~(v.at < 0)
          /\ funcs'[g].ops[v.at].type = v.type
      BY <1>3, <1>5, <2>3, <2>4
    <3> QED BY <3>1, Zenon DEF Dominates
  <2> QED BY <2>1, <2>3, <2>4, Zenon
<1>8. vals' = Append(vals, v)
  BY <1>2, <1>6
<1>9. \A g \in DOMAIN funcs :
         HasReturned(g)' <=> IF g = f THEN ast[pos].k = "return" ELSE HasReturned(g)
  BY <1>3, <1>5
<1> QED BY <1>1, <1>2, <1>5, <1>7, <1>8, <1>9, WalkKeepsGenerated DEF f

\* The literal, whose type the checker and the generator both know.
LEMMA GenIntLiteralKeeps ==
    ASSUME AtNode, UNCHANGED <<ast, path, open, ty>>, GenIntLiteral
    PROVE  phase' = phase /\ why' = why /\ GeneratedInv'
<1>1. ast[pos].k = "int" /\ Create("constant", <<>>, <<ast[pos].value>>, "i64")
  BY DEF GenIntLiteral, Generating, At
<1>2. CheckedNode(pos)
  BY GeneratingFacts DEF AtNode
<1>3. ty[pos] = "i64"
  BY <1>1, <1>2 DEF CheckedNode
<1>4. WellTyped(Home(pos), Operation("constant", <<>>, <<ast[pos].value>>, "i64"))
  BY DEF WellTyped, Operation, ArithOps, CmpOps, IntegerTypes
<1>5. Range(<<>>) = {}
  BY DEF Range
<1> QED BY <1>1, <1>3, <1>4, <1>5, CreateKeeps

\* Two operands of one integer type.
LEMMA BinaryCreated ==
    ASSUME AtNode, GenBinaryOperator
    PROVE  /\ ast[pos].k = "bin" /\ "kids" \in DOMAIN ast[pos] /\ Len(ast[pos].kids) = 2
           /\ CheckedNode(pos) /\ ast[pos].op \in ArithOps \cup CmpOps
           /\ TypesOf(Operands(pos, vals)) = <<ty[Kid(pos, 1)], ty[Kid(pos, 1)]>>
           /\ Create(ast[pos].op, Operands(pos, vals), <<>>, ty[pos])
<1> DEFINE o    == Operands(pos, vals)
           type == IF ast[pos].op \in CmpOps THEN "i1" ELSE o[1].type
<1>1. ast[pos].k = "bin" /\ Create(ast[pos].op, o, <<>>, type)
  BY DEF GenBinaryOperator, Generating, At
<1>2. /\ CheckedNode(pos) /\ Len(ast[pos].kids) = 2 /\ "kids" \in DOMAIN ast[pos]
      /\ ast[pos].op \in ArithOps \cup CmpOps
  <2>1. CheckedNode(pos) /\ OperandsPrecede(pos) /\ ast[pos] \in Node
    BY GeneratingFacts DEF AtNode, TreeInv, Nodes
  <2> QED BY <1>1, <2>1 DEF OperandsPrecede, Node, ExprNode
<1>3. DOMAIN o = 1..2 /\ DOMAIN ast[pos].kids = 1..2 /\ TypesOf(o) = KidTypes(pos)
  BY <1>2, OperandsUsable
<1>4. /\ ty[Kid(pos, 1)] \in IntegerTypes /\ ty[Kid(pos, 2)] = ty[Kid(pos, 1)]
      /\ ty[pos] = IF ast[pos].op \in CmpOps THEN "i1" ELSE ty[Kid(pos, 1)]
  BY <1>1, <1>2, Zenon DEF CheckedNode
<1>5. TypesOf(o) = <<ty[Kid(pos, 1)], ty[Kid(pos, 1)]>>
  BY <1>3, <1>4 DEF KidTypes
<1>6. TypesOf(o)[1] = o[1].type
  BY <1>3 DEF TypesOf
<1>7. type = ty[pos]
  BY <1>2, <1>4, <1>5, <1>6
<1> QED BY <1>1, <1>2, <1>5, <1>7

LEMMA GenBinaryOperatorKeeps ==
    ASSUME AtNode, UNCHANGED <<ast, path, open, ty>>, GenBinaryOperator
    PROVE  phase' = phase /\ why' = why /\ GeneratedInv'
<1> DEFINE o == Operands(pos, vals)
<1>1. /\ ast[pos].k = "bin" /\ "kids" \in DOMAIN ast[pos] /\ CheckedNode(pos)
      /\ ast[pos].op \in ArithOps \cup CmpOps
      /\ TypesOf(o) = <<ty[Kid(pos, 1)], ty[Kid(pos, 1)]>>
      /\ Create(ast[pos].op, o, <<>>, ty[pos])
  BY BinaryCreated
<1>2. \A v \in Range(o) :
         v \in Value /\ v # NoValue /\ Dominates(v, Home(pos), Len(funcs[Home(pos)].ops) + 1)
  BY <1>1, OperandsUsable
<1>3. /\ ty[Kid(pos, 1)] \in IntegerTypes
      /\ ty[pos] = IF ast[pos].op \in CmpOps THEN "i1" ELSE ty[Kid(pos, 1)]
  BY <1>1, Zenon DEF CheckedNode
<1>4. ast[pos].op \notin {"constant", "assert", "call", "return"} /\ ArithOps \cap CmpOps = {}
  BY <1>1 DEF ArithOps, CmpOps
<1> HIDE DEF o
<1>5. WellTyped(Home(pos), Operation(ast[pos].op, o, <<>>, ty[pos]))
  BY <1>1, <1>3, <1>4 DEF WellTyped, Operation
<1> QED BY <1>1, <1>2, <1>4, <1>5, CreateKeeps

\* The function that the checker looked up by name is the one that the generator
\* finds by symbol.
LEMMA CallCreated ==
    ASSUME AtNode, GenCall
    PROVE  /\ ast[pos].k = "call" /\ "kids" \in DOMAIN ast[pos]
           /\ \E g \in DOMAIN funcs :
                 /\ funcs[g].sym = Sym(ast[pos].name) /\ funcs[g].params = KidTypes(pos)
                 /\ ty[pos] = ResultType(g)
           /\ Create("call", Operands(pos, vals), Sym(ast[pos].name), ty[pos])
<1> DEFINE o   == Operands(pos, vals)
           sym == Sym(ast[pos].name)
<1>1. ast[pos].k = "call"
  BY DEF GenCall, Generating, At
<1>2. /\ CheckedNode(pos) /\ CallableNode(pos) /\ "kids" \in DOMAIN ast[pos]
      /\ FunctionsInv /\ SymbolsUnique /\ ModuleTyped /\ DeclarationsInv
  <2>1. ast[pos] \in Node
    BY GeneratingFacts DEF AtNode, TreeInv, Nodes
  <2> QED BY <1>1, <2>1, GeneratingFacts DEF AtNode, Node, ExprNode
<1>3. PICK g \in TopLevelFns :
         /\ ast[g].name = ast[pos].name
         /\ KidTypes(pos) = ParamList(g) /\ ty[pos] = Resolve(ast[g].ret)
  BY <1>1, <1>2, Zenon DEF CheckedNode
<1>4. /\ g \in DOMAIN funcs /\ funcs[g].sym = sym
      /\ funcs[g].params = ParamList(g) /\ funcs[g].rets = <<Resolve(ast[g].ret)>>
  <2>1. g \in DOMAIN funcs /\ funcs[g].sym = sym
    BY <1>2, <1>3 DEF FunctionsInv, Prototypes
  <2> QED BY <1>2, <2>1 DEF DeclarationsInv
<1>5. Declared(sym) /\ LookupSymbol(sym) = g
  BY <1>2, <1>4, LookupFinds
<1>6. ResultType(g) = ty[pos] /\ funcs[g].rets # <<>> /\ funcs[g].rets[1] = ty[pos]
  BY <1>3, <1>4 DEF ResultType
<1>7. Create("call", o, sym, ty[pos])
  <2>1. ast[pos].name # Indirect
    BY <1>1, <1>2 DEF CallableNode
  <2> QED BY <1>5, <1>6, <2>1 DEF GenCall
<1> QED BY <1>1, <1>2, <1>3, <1>4, <1>6, <1>7

LEMMA GenCallKeeps ==
    ASSUME AtNode, UNCHANGED <<ast, path, open, ty>>, GenCall
    PROVE  phase' = phase /\ why' = why /\ GeneratedInv'
<1> DEFINE o   == Operands(pos, vals)
           sym == Sym(ast[pos].name)
<1>1. /\ ast[pos].k = "call" /\ "kids" \in DOMAIN ast[pos]
      /\ Create("call", o, sym, ty[pos])
  BY CallCreated
<1>2. PICK g \in DOMAIN funcs :
         funcs[g].sym = sym /\ funcs[g].params = KidTypes(pos) /\ ty[pos] = ResultType(g)
  BY CallCreated
<1>3. /\ TypesOf(o) = KidTypes(pos)
      /\ \A v \in Range(o) :
            v \in Value /\ v # NoValue /\ Dominates(v, Home(pos), Len(funcs[Home(pos)].ops) + 1)
  BY <1>1, OperandsUsable
<1> HIDE DEF o, sym
<1>4. WellTyped(Home(pos), Operation("call", o, sym, ty[pos]))
  <2>1. "call" \notin ArithOps \cup CmpOps
    BY DEF ArithOps, CmpOps
  <2> QED BY <1>2, <1>3, <2>1 DEF WellTyped, Operation
<1> QED BY <1>1, <1>3, <1>4, CreateKeeps

\* The condition of an @assert is an i1.
LEMMA AssertCreated ==
    ASSUME AtNode, GenIntrinsicCall
    PROVE  /\ ast[pos].k = "intrinsic" /\ "kids" \in DOMAIN ast[pos] /\ Len(ast[pos].kids) = 1
           /\ CheckedNode(pos)
           /\ Create("assert", <<vals[Kid(pos, 1)]>>, <<>>, NoType)
<1>1. ast[pos].k = "intrinsic"
  BY DEF GenIntrinsicCall, Generating, At
<1>2. /\ CheckedNode(pos) /\ "kids" \in DOMAIN ast[pos]
      /\ ast[pos].name = "assert" /\ Len(ast[pos].kids) = 1
  <2>1. ast[pos] \in Node /\ CallableNode(pos) /\ CheckedNode(pos)
    BY GeneratingFacts DEF AtNode, TreeInv, Nodes
  <2> QED BY <1>1, <2>1 DEF Node, ExprNode, CallableNode
<1>3. Operands(pos, vals)[1] = vals[Kid(pos, 1)]
  BY <1>2 DEF Operands
<1>4. ast[pos].kids # <<>>
  BY <1>2
<1> QED BY <1>1, <1>2, <1>3, <1>4 DEF GenIntrinsicCall

LEMMA GenIntrinsicCallKeeps ==
    ASSUME AtNode, UNCHANGED <<ast, path, open, ty>>, GenIntrinsicCall
    PROVE  phase' = phase /\ why' = why /\ GeneratedInv'
<1> DEFINE o == Operands(pos, vals)
<1>1. /\ ast[pos].k = "intrinsic" /\ CheckedNode(pos) /\ "kids" \in DOMAIN ast[pos]
      /\ Len(ast[pos].kids) = 1 /\ Create("assert", <<vals[Kid(pos, 1)]>>, <<>>, NoType)
  BY AssertCreated
<1>2. /\ DOMAIN o = 1..1 /\ DOMAIN ast[pos].kids = 1..1 /\ TypesOf(o) = KidTypes(pos)
      /\ \A v \in Range(o) :
            v \in Value /\ v # NoValue /\ Dominates(v, Home(pos), Len(funcs[Home(pos)].ops) + 1)
  BY <1>1, OperandsUsable
<1>3. o[1] = vals[Kid(pos, 1)]
  BY <1>1 DEF Operands
<1>4. o[1].type = "i1" /\ o[1] \in Range(o)
  <2>1. TypesOf(o)[1] = o[1].type /\ o[1] \in Range(o)
    BY <1>2 DEF TypesOf, Range
  <2>2. KidTypes(pos) = <<"i1">>
    BY <1>1, Zenon DEF CheckedNode
  <2> QED BY <1>2, <2>1, <2>2
<1> HIDE DEF o
<1>5. WellTyped(Home(pos), Operation("assert", <<o[1]>>, <<>>, NoType))
  <2>1. "assert" \notin ArithOps \cup CmpOps
    BY DEF ArithOps, CmpOps
  <2>2. TypesOf(<<o[1]>>) = <<"i1">>
    BY <1>4 DEF TypesOf
  <2> QED BY <2>1, <2>2 DEF WellTyped, Operation
<1>6. Range(<<o[1]>>) = {o[1]}
  BY DEF Range
<1>7. ast[pos].k \notin ValueKinds
  BY <1>1 DEF ValueKinds, ExprKinds
<1> QED BY <1>1, <1>2, <1>3, <1>4, <1>5, <1>6, <1>7, CreateKeeps

\* A handler that creates no operation.
LEMMA QuietWalk ==
    ASSUME AtNode, UNCHANGED <<ast, path, open, ty, ip, frames, funcs>>, pos' = pos + 1,
           ast[pos].k \notin {"return", "fn", "test", "end"}, NEW w, vals' = Append(vals, w),
           ast[pos].k \in ValueKinds =>
               w.type = ty[pos] /\ Dominates(w, Home(pos), Len(funcs[Home(pos)].ops) + 1)
    PROVE  GeneratedInv'
<1>1. Extends
  <2>1. Grows
    BY ModuleGrows, GeneratingFacts
  <2>2. \A f \in DOMAIN funcs : Len(funcs[f].ops) \in Nat
    BY GeneratingFacts DEF ModuleTyped, FunctionTyped
  <2> QED BY <2>1, <2>2 DEF Extends
<1>2. OperationsInv'
  BY <1>1, OperationsKept, GeneratingFacts
<1>3. \A g \in DOMAIN funcs :
         HasReturned(g)' <=> IF g = Home(pos) THEN ast[pos].k = "return" ELSE HasReturned(g)
  BY NotReturned DEF HasReturned
<1>4. ASSUME NEW f, f = Home(pos), NEW j, j = Len(funcs'[f].ops) + 1, ast[pos].k \in ValueKinds
      PROVE  Dominates(w, f, j)'
  <2>1. Dominates(w, f, j)
    BY <1>4, Zenon
  <2> QED BY <2>1 DEF Dominates
<1>5. ast[pos].k \in ValueKinds =>
         /\ w.type = ty[pos]
         /\ \A f, j : f = Home(pos) /\ j = Len(funcs'[f].ops) + 1 => Dominates(w, f, j)'
  BY <1>4, Zenon
<1> QED BY <1>1, <1>2, <1>3, <1>5, WalkKeepsGenerated

LEMMA GenLetKeeps ==
    ASSUME AtNode, UNCHANGED <<ast, path, open, ty>>, GenLet
    PROVE  phase' = phase /\ why' = why /\ GeneratedInv'
<1>1. /\ ast[pos].k = "let" /\ pos' = pos + 1 /\ vals' = Append(vals, NoValue)
      /\ UNCHANGED <<phase, why, ip, frames, funcs>>
  BY DEF GenLet, Generating, At, Step
<1> QED BY <1>1, QuietWalk DEF ValueKinds, ExprKinds

\* The value that value_map has for a variable: that of the `let` that binds it,
\* or the parameter of the function at hand.
LEMMA IdentifierUsable ==
    ASSUME AtNode, GenIdentifier
    PROVE  /\ ast[pos].k = "ident" /\ pos' = pos + 1
           /\ UNCHANGED <<phase, why, ip, frames, funcs, test_symbols>>
           /\ \E v : /\ vals' = Append(vals, v) /\ v.type = ty[pos]
                     /\ Dominates(v, Home(pos), Len(funcs[Home(pos)].ops) + 1)
<1>1. ast[pos].k = "ident"
  BY DEF GenIdentifier, Generating, At
<1>2. /\ TreeInv /\ CheckedNode(pos) /\ ValueMapInv /\ PathAt(pos) = path[pos] /\ pos \in Nat \ {0}
      /\ pos \in 1..pos /\ \A n \in Nodes : CheckedNode(n) /\ OperandsPrecede(n)
      /\ SymbolsUnique /\ FunctionsInv /\ DeclarationsInv /\ ModuleTyped
  BY GeneratingFacts DEF AtNode
<1>3. PICK x, b : x = ast[pos].name /\ b = BinderIn(x, path[pos], pos)
  OBVIOUS
<1>4. x \in Scope(path[pos], pos) /\ x \in DOMAIN value_map
  <2>1. x \in ScopeAt(pos)
    BY <1>1, <1>3, GeneratingFacts DEF AtNode, WellScoped, WellScopedNode
  <2>2. DOMAIN value_map = Scope(path[pos], pos)
    BY <1>2 DEF AtNode, IInv, GenerateInv
  <2> QED BY <2>1, <2>2 DEF ScopeAt
<1>5. PICK v : v = value_map[x]
  OBVIOUS
<1>6. /\ vals' = Append(vals, v) /\ pos' = pos + 1
      /\ UNCHANGED <<phase, why, ip, frames, funcs, test_symbols>>
  BY <1>3, <1>4, <1>5 DEF GenIdentifier, Step
<1>7. Gives(b, x, v)
  BY <1>2, <1>3, <1>4, <1>5, Zenon DEF ValueMapInv, LexicalValue
<1>8. ty[pos] = TypeOf(b, x)
  BY <1>1, <1>2, <1>3, Zenon DEF CheckedNode, TypeIn
<1>9. CASE b \in Lets(path[pos], pos)
  <2>1. b \in Nodes /\ b < pos /\ ast[b].k = "let" /\ path[b] = path[pos]
    BY <1>9 DEF Lets
  <2>2. b - 1 \in 1..pos - 1
    BY <1>2, <2>1 DEF OperandsPrecede, Nodes
  <2>3. ast[b - 1].k \in ValueKinds /\ path[b - 1] = path[pos]
    <3>1. Shaped /\ ~AssertUsedAsValue
      BY DEF AtNode, Gap
    <3>2. ast[b - 1].k \in ValueKinds
      BY <2>1, <3>1, OperandsAreValues
    <3> QED BY <2>1, <3>1, <3>2 DEF Shaped, ShapedNode
  <2>4. v = vals[b - 1] /\ ty[b] = ty[b - 1] /\ ty[pos] = ty[b]
    <3>1. CheckedNode(b)
      BY <1>2, <2>1
    <3> QED BY <1>7, <1>8, <2>1, <3>1 DEF Gives, TypeOf, CheckedNode
  <2>5. \A m : m = b - 1 =>
           /\ vals[m].type = ty[m]
           /\ Dominates(vals[m], Home(pos), Len(funcs[Home(pos)].ops) + 1)
    BY <2>2, <2>3, OperandUsable
  <2>6. v.type = ty[pos] /\ Dominates(v, Home(pos), Len(funcs[Home(pos)].ops) + 1)
    BY <2>4, <2>5
  <2> QED BY <1>1, <1>6, <2>6
<1>10. CASE b \notin Lets(path[pos], pos)
  <2>1. path[pos] # <<>> /\ b = Last(path[pos]) /\ x \in ParamNames(b) /\ ast[b].k = "fn"
    BY <1>2, <1>3, <1>4, <1>10, BinderIsMember
  <2>2. b = Home(pos) /\ b \in TopLevelFns /\ b \in Nodes
    BY <1>2, <2>1, HomeExists DEF Home, FnOf, TopLevelFns
  <2>3. /\ b \in DOMAIN funcs /\ funcs[b].sym = Sym(ast[b].name) /\ funcs[b].params = ParamList(b)
        /\ Len(funcs[b].ops) \in Nat
    <3>1. b \in DOMAIN funcs /\ funcs[b].sym = Sym(ast[b].name)
      BY <1>2, <2>2 DEF FunctionsInv, Prototypes
    <3>2. funcs[b].ops \in Seq(Range(funcs[b].ops))
      BY <1>2, <3>1 DEF ModuleTyped, FunctionTyped
    <3> QED BY <1>2, <2>2, <3>1, <3>2 DEF DeclarationsInv
  <2> DEFINE named == {j \in DOMAIN ast[b].params : ast[b].params[j].name = x}
             i     == Max(named)
  <2>4. i \in DOMAIN ast[b].params /\ i \in Nat \ {0}
    <3>1. ast[b].params \in Params
      <4>1. ast[b] \in Node
        BY <1>2, <2>2 DEF TreeInv, Nodes
      <4> QED BY <2>1, <4>1 DEF Node, ExprNode
    <3>2. \E j \in DOMAIN ast[b].params : ast[b].params[j].name = x
      BY <2>1 DEF ParamNames, Range
    <3>3. named # {} /\ named \subseteq 1..Len(ast[b].params) /\ Len(ast[b].params) \in Nat
      BY <3>1, <3>2 DEF Params
    <3>4. i \in named
      BY <3>3, MaxIsMember
    <3> QED BY <3>3, <3>4
  <2>5. v = [fn |-> b, at |-> -i, type |-> funcs[b].params[i]]
    <3>1. PICK f \in DOMAIN funcs :
             /\ funcs[f].sym = Sym(ast[b].name)
             /\ v = [fn |-> f, at |-> -i, type |-> funcs[f].params[i]]
      BY <1>7, <2>1 DEF Gives
    <3>2. f = b
      BY <1>2, <2>3, <3>1 DEF SymbolsUnique
    <3> QED BY <3>1, <3>2
  <2>6. ty[pos] = Resolve(ast[b].params[i].type)
    BY <1>8, <2>1 DEF TypeOf, ParamTypes
  <2> HIDE DEF i
  <2>7. funcs[b].params[i] = ty[pos] /\ i \in DOMAIN funcs[b].params
    BY <2>3, <2>4, <2>6 DEF ParamList
  <2>8. v.type = ty[pos] /\ v.fn = b /\ v.at = -i
    BY <2>5, <2>7
  <2>9. Dominates(v, b, Len(funcs[b].ops) + 1)
    <3>1. -i < Len(funcs[b].ops) + 1 /\ -i < 0 /\ -(-i) = i
      BY <2>3, <2>4
    <3> QED BY <2>7, <2>8, <3>1 DEF Dominates
  <2> QED BY <1>1, <1>6, <2>2, <2>8, <2>9
<1> QED BY <1>9, <1>10

LEMMA GenIdentifierKeeps ==
    ASSUME AtNode, UNCHANGED <<ast, path, open, ty>>, GenIdentifier
    PROVE  phase' = phase /\ why' = why /\ GeneratedInv'
<1>1. PICK v : /\ vals' = Append(vals, v) /\ v.type = ty[pos]
               /\ Dominates(v, Home(pos), Len(funcs[Home(pos)].ops) + 1)
  BY IdentifierUsable
<1>2. ast[pos].k = "ident" /\ pos' = pos + 1 /\ UNCHANGED <<phase, why, ip, frames, funcs>>
  BY IdentifierUsable
<1> QED BY <1>1, <1>2, QuietWalk

\* A return has the type of its function.
LEMMA GenReturnKeeps ==
    ASSUME AtNode, UNCHANGED <<ast, path, open, ty>>, GenReturn
    PROVE  phase' = phase /\ why' = why /\ GeneratedInv'
<1> DEFINE args == IF ast[pos].expr THEN <<vals[pos - 1]>> ELSE <<>>
<1>1. ast[pos].k = "return" /\ Create("return", args, <<>>, NoType)
  BY DEF GenReturn, Generating, At
<1>2. /\ TreeInv /\ CheckedNode(pos) /\ pos \in Nat \ {0} /\ pos \in 1..pos /\ DeclarationsInv
      /\ pos \in Nodes /\ OperandsPrecede(pos)
  BY GeneratingFacts DEF AtNode
<1>3. path[pos] # <<>>
  BY <1>1, <1>2, ReturnEndsBody DEF AtNode, Gap
<1>4. PICK d : d = Home(pos)
  OBVIOUS
<1>5. /\ Last(path[pos]) = d /\ d \in DOMAIN funcs
      /\ ast[d].k = (IF d \in TopLevelFns THEN "fn" ELSE "test")
  BY <1>2, <1>3, <1>4, HomeExists
<1>6. CASE d \in TopLevelFns
  <2>1. ast[pos].expr /\ ty[pos - 1] = Resolve(ast[d].ret) /\ funcs[d].rets = <<Resolve(ast[d].ret)>>
    BY <1>1, <1>2, <1>3, <1>5, <1>6 DEF CheckedNode, DeclarationsInv
  <2>2. pos - 1 \in 1..pos - 1
    BY <1>1, <1>2, <2>1 DEF OperandsPrecede
  <2>3. ast[pos - 1].k \in ValueKinds /\ path[pos - 1] = path[pos]
    <3>1. Shaped /\ ~AssertUsedAsValue
      BY DEF AtNode, Gap
    <3>2. ast[pos - 1].k \in ValueKinds
      BY <1>1, <1>2, <2>1, <3>1, OperandsAreValues
    <3> QED BY <1>1, <1>2, <2>1, <3>1, <3>2 DEF Shaped, ShapedNode
  <2>4. PICK v : v = vals[pos - 1]
    OBVIOUS
  <2>5. /\ v \in Value /\ v.type = ty[pos - 1] /\ v # NoValue
        /\ Dominates(v, d, Len(funcs[d].ops) + 1)
    <3>1. \A m : m = pos - 1 =>
             /\ vals[m] \in Value /\ vals[m].type = ty[m] /\ vals[m] # NoValue
             /\ Dominates(vals[m], Home(pos), Len(funcs[Home(pos)].ops) + 1)
      BY <2>2, <2>3, OperandUsable
    <3> QED BY <1>4, <2>4, <3>1
  <2>6. args = <<v>>
    BY <2>1, <2>4
  <2>7. Range(<<v>>) = {v} /\ TypesOf(<<v>>) = <<v.type>>
    BY DEF Range, TypesOf
  <2>8. WellTyped(d, Operation("return", <<v>>, <<>>, NoType))
    <3>1. "return" \notin ArithOps \cup CmpOps
      BY DEF ArithOps, CmpOps
    <3> QED BY <2>1, <2>5, <2>7, <3>1 DEF WellTyped, Operation
  <2>9. Create("return", <<v>>, <<>>, NoType)
    BY <1>1, <2>6, Zenon
  <2>10. ast[pos].k \notin ValueKinds
    BY <1>1 DEF ValueKinds, ExprKinds
  <2> HIDE DEF args
  <2> QED BY <1>1, <1>4, <2>5, <2>7, <2>8, <2>9, <2>10, CreateKeeps
<1>7. CASE d \notin TopLevelFns
  <2>1. ~ast[pos].expr /\ funcs[d].rets = <<>>
    BY <1>1, <1>2, <1>3, <1>5, <1>7 DEF CheckedNode, DeclarationsInv
  <2>2. Create("return", <<>>, <<>>, NoType)
    BY <1>1, <2>1
  <2>3. Range(<<>>) = {} /\ TypesOf(<<>>) = <<>>
    BY DEF Range, TypesOf
  <2>4. WellTyped(d, Operation("return", <<>>, <<>>, NoType))
    <3>1. "return" \notin ArithOps \cup CmpOps
      BY DEF ArithOps, CmpOps
    <3> QED BY <2>1, <2>3, <3>1 DEF WellTyped, Operation
  <2>5. ast[pos].k \notin ValueKinds
    BY <1>1 DEF ValueKinds, ExprKinds
  <2> HIDE DEF args
  <2> QED BY <1>1, <1>4, <2>2, <2>3, <2>4, <2>5, CreateKeeps
<1> QED BY <1>6, <1>7

-----------------------------------------------------------------------------
\* A declaration at the top opens the body of its function, which has a block
\* from then on.
LEMMA OpeningKeepsGenerated ==
    ASSUME AtNode, UNCHANGED <<ast, path, open, ty>>, pos' = pos + 1,
           ast[pos].k \in {"fn", "test"}, Extends, DOMAIN funcs' = DOMAIN funcs \cup {pos},
           \A f \in DOMAIN funcs : funcs'[f].ops = funcs[f].ops,
           \A f \in DOMAIN funcs : f # pos => funcs'[f].blocks = funcs[f].blocks,
           pos \notin DOMAIN funcs => funcs'[pos].ops = <<>>, funcs'[pos].blocks = 1,
           IF pos \in TopLevelFns
             THEN funcs'[pos].params = ParamList(pos) /\ funcs'[pos].rets = <<Resolve(ast[pos].ret)>>
             ELSE funcs'[pos].params = <<>> /\ funcs'[pos].rets = <<>>,
           ip' = [fn |-> pos, block |-> 1],
           NEW values, frames' = Append(frames, [ip |-> ip, value_map |-> values]),
           vals' = Append(vals, NoValue)
    PROVE  GeneratedInv'
<1>1. /\ TreeInv /\ pos \in Nat \ {0} /\ pos + 1 - 1 = pos /\ pos \in Nodes /\ ModuleTyped
      /\ DeclarationsInv /\ BodiesInv /\ OperationsInv /\ PathAt(pos) = path[pos] /\ CheckedNode(pos)
      /\ ip = [fn |-> Home(pos), block |-> 1] /\ DOMAIN funcs \subseteq Nat
  BY GeneratingFacts DEF ModuleTyped, AtNode
<1>2. path[pos] = <<>> /\ Home(pos) = Main /\ pos # Main
  <2>1. path[pos] = <<>>
    BY <1>1 DEF AtNode, Shaped, ShapedNode, CheckedNode
  <2> QED BY <1>1, <2>1 DEF Home, FnOf, Main
<1>3. /\ PathAt(pos)' = <<pos>> /\ TopLevelFns' = TopLevelFns
      /\ \A f : ParamList(f)' = ParamList(f)
  <2>1. PathAt(pos + 1) = <<pos>>
    <3>1. PathAt(pos + 1) = Append(PathAt(pos), pos) /\ PathAt(pos) = <<>>
      BY <1>1, <1>2, ScopeStep
    <3> QED BY <3>1
  <2>2. PathAt(pos)' = PathAt(pos + 1) /\ TopLevelFns' = TopLevelFns
    BY TreeUnchanged
  <2> QED BY <2>1, <2>2 DEF ParamList
<1>4. <<pos>> # <<>> /\ Last(<<pos>>) = pos
  <2>1. \A d : <<d>> # <<>> /\ Last(<<d>>) = d
    BY DEF Last
  <2> QED BY <2>1
<1>5. ValuesInv'
  BY ValuesStay DEF ValueKinds, ExprKinds
<1>6. OperationsInv'
  <2>1. ASSUME NEW f \in DOMAIN funcs', NEW i \in DOMAIN funcs'[f].ops
        PROVE  f \in DOMAIN funcs /\ i \in DOMAIN funcs[f].ops
    <3>1. DOMAIN <<>> = {}
      OBVIOUS
    <3>2. f \in DOMAIN funcs
      BY <2>1, <3>1
    <3> QED BY <2>1, <3>2
  <2> QED BY <1>1, <2>1, OperationsKept
<1>7. DeclarationsInv'
  <2>1. ASSUME NEW f \in DOMAIN funcs \cup {pos}
        PROVE  IF f \in TopLevelFns'
                 THEN /\ funcs'[f].params = ParamList(f)' /\ funcs'[f].rets = <<Resolve(ast'[f].ret)>>
                      /\ funcs'[f].blocks = IF f < pos' THEN 1 ELSE 0
                 ELSE funcs'[f].params = <<>> /\ funcs'[f].rets = <<>> /\ funcs'[f].blocks = 1
    <3>1. CASE f = pos
      BY <1>1, <1>3, <3>1
    <3>2. CASE f # pos
      <4>1. /\ funcs'[f].params = funcs[f].params /\ funcs'[f].rets = funcs[f].rets
            /\ funcs'[f].blocks = funcs[f].blocks /\ f \in DOMAIN funcs
        BY <3>2 DEF Extends, Grows
      <4>2. f < pos <=> f < pos'
        BY <1>1, <3>2, <4>1
      <4> QED BY <1>1, <1>3, <4>1, <4>2 DEF DeclarationsInv
    <3> QED BY <3>1, <3>2
  <2>2. ip' = [fn |-> FnOf(PathAt(pos)'), block |-> 1]
    BY <1>3, <1>4 DEF FnOf
  <2>3. \A i \in DOMAIN frames' : frames'[i].ip = [fn |-> Main, block |-> 1]
    <3> DEFINE frame == [ip |-> ip, value_map |-> values]
    <3>1. frame.ip = [fn |-> Main, block |-> 1]
      BY <1>1, <1>2
    <3>2. frames \in Seq(Range(frames)) /\ \A i \in DOMAIN frames : frames[i].ip = [fn |-> Main, block |-> 1]
      BY <1>1 DEF AtNode, IInv, GenerateInv, DeclarationsInv
    <3> HIDE DEF frame
    <3> QED BY <3>1, <3>2 DEF frame
  <2> QED BY <2>1, <2>2, <2>3, Zenon DEF DeclarationsInv, FnOf, Main
<1>8. BodiesInv'
  <2> SUFFICES ASSUME NEW f \in DOMAIN funcs \cup {pos}
               PROVE  HasReturned(f)' <=>
                         /\ f # Main
                         /\ IF f = pos THEN ast[pos].k = "return" ELSE f < pos + 1
    <3>1. (IF PathAt(pos)' = <<>> THEN Main ELSE Last(PathAt(pos)')) = pos
      BY <1>3, <1>4
    <3>2. ast'[pos' - 1].k = ast[pos].k
      BY <1>1
    <3> QED BY <3>1, <3>2 DEF BodiesInv, FnOf, Main
  <2>1. CASE f = pos
    <3>1. pos \in DOMAIN funcs => ~HasReturned(pos)
      <4>1. FnOf(path[pos]) # pos /\ ~(pos < pos)
        BY <1>1, <1>2 DEF Home
      <4> QED BY <1>1, <4>1 DEF BodiesInv
    <3> QED BY <2>1, <3>1 DEF HasReturned
  <2>2. CASE f # pos
    <3>1. f \in DOMAIN funcs /\ (f < pos <=> f < pos + 1)
      BY <1>1, <2>2
    <3>2. HasReturned(f) <=> f # Main /\ f < pos
      BY <1>1, <1>2, <3>1 DEF BodiesInv, Home
    <3> QED BY <2>2, <3>1, <3>2 DEF HasReturned
  <2> QED BY <2>1, <2>2
<1> QED BY <1>5, <1>6, <1>7, <1>8 DEF GeneratedInv

\* The function that was declared under this name has no block yet.
LEMMA FnOpened ==
    ASSUME AtNode, GenFn
    PROVE  /\ ast[pos].k = "fn" /\ pos \in TopLevelFns /\ pos \in DOMAIN funcs
           /\ funcs[pos].params = ParamList(pos) /\ funcs[pos].rets = <<Resolve(ast[pos].ret)>>
           /\ funcs[pos].blocks = 0
           /\ funcs' = [funcs EXCEPT ![pos].blocks = @ + 1]
           /\ ip' = [fn |-> pos, block |-> funcs[pos].blocks + 1]
           /\ frames' = Append(frames, [ip |-> ip, value_map |-> value_map])
           /\ vals' = Append(vals, NoValue) /\ pos' = pos + 1
           /\ UNCHANGED <<phase, why, test_symbols>>
<1>1. ast[pos].k = "fn"
  BY DEF GenFn, Generating, At
<1>2. /\ CheckedNode(pos) /\ FunctionsInv /\ SymbolsUnique /\ ModuleTyped /\ DeclarationsInv
      /\ pos \in Nat \ {0} /\ pos \in Nodes /\ BodiesInv /\ PathAt(pos) = path[pos]
  BY GeneratingFacts DEF AtNode
<1>3. pos \in TopLevelFns /\ path[pos] = <<>>
  BY <1>1, <1>2 DEF CheckedNode, TopLevelFns
<1>4. pos \in DOMAIN funcs /\ funcs[pos].sym = Sym(ast[pos].name)
  BY <1>2, <1>3 DEF FunctionsInv, Prototypes
<1>5. Declared(Sym(ast[pos].name)) /\ LookupSymbol(Sym(ast[pos].name)) = pos
  BY <1>2, <1>4, LookupFinds
<1>6. /\ funcs[pos].params = ParamList(pos) /\ funcs[pos].rets = <<Resolve(ast[pos].ret)>>
      /\ funcs[pos].blocks = 0
  <2>1. ~(pos < pos)
    BY <1>2
  <2> QED BY <1>2, <1>3, <1>4, <2>1 DEF DeclarationsInv
<1>7. ~(funcs[pos].blocks > 0)
  BY <1>6
<1>8. /\ funcs' = [funcs EXCEPT ![pos].blocks = @ + 1]
      /\ EnterBody(pos, funcs[pos].blocks + 1, EntryArguments(pos))
      /\ UNCHANGED test_symbols
  BY <1>5, <1>7, Zenon DEF GenFn
<1> QED BY <1>1, <1>3, <1>4, <1>6, <1>8 DEF EnterBody, Step

LEMMA GenFnKeeps ==
    ASSUME AtNode, UNCHANGED <<ast, path, open, ty>>, GenFn
    PROVE  phase' = phase /\ why' = why /\ GeneratedInv'
<1>1. /\ ast[pos].k = "fn" /\ pos \in TopLevelFns /\ pos \in DOMAIN funcs
      /\ funcs[pos].params = ParamList(pos) /\ funcs[pos].rets = <<Resolve(ast[pos].ret)>>
      /\ funcs[pos].blocks = 0
  BY FnOpened
<1>2. ModuleTyped
  BY GeneratingFacts
<1>3. PICK values : values = value_map
  OBVIOUS
<1>4. /\ funcs' = [funcs EXCEPT ![pos].blocks = @ + 1]
      /\ ip' = [fn |-> pos, block |-> funcs[pos].blocks + 1]
      /\ frames' = Append(frames, [ip |-> ip, value_map |-> values])
      /\ vals' = Append(vals, NoValue) /\ pos' = pos + 1 /\ UNCHANGED <<phase, why>>
  BY <1>3, FnOpened
<1>5. /\ DOMAIN funcs' = DOMAIN funcs \cup {pos}
      /\ \A f \in DOMAIN funcs : funcs'[f].ops = funcs[f].ops
      /\ \A f \in DOMAIN funcs : f # pos => funcs'[f] = funcs[f]
      /\ funcs'[pos].blocks = 1 /\ funcs'[pos].params = funcs[pos].params
      /\ funcs'[pos].rets = funcs[pos].rets
  <2>1. \A f \in DOMAIN funcs : DOMAIN funcs[f] = {"sym", "params", "rets", "blocks", "ops"}
    BY <1>2 DEF ModuleTyped, FunctionTyped
  <2>2. funcs[pos].blocks + 1 = 1
    BY <1>1
  <2>3. funcs' = [funcs EXCEPT ![pos].blocks = 1]
    BY <1>4, <2>2
  <2>4. DOMAIN funcs \cup {pos} = DOMAIN funcs
    BY <1>1
  <2> QED BY <1>1, <2>1, <2>3, <2>4
<1>6. Extends
  <2>1. Grows
    BY <1>2, <1>4, ModuleGrows
  <2>2. \A f \in DOMAIN funcs : Len(funcs[f].ops) \in Nat
    BY <1>2 DEF ModuleTyped, FunctionTyped
  <2> QED BY <1>5, <2>1, <2>2 DEF Extends
<1>7. ip' = [fn |-> pos, block |-> 1]
  BY <1>1, <1>4
<1> QED
  BY <1>1, <1>4, <1>5, <1>6, <1>7, OpeningKeepsGenerated

\* A test gets a function of its own.
LEMMA GenTestKeeps ==
    ASSUME AtNode, UNCHANGED <<ast, path, open, ty>>, GenTest
    PROVE  phase' = phase /\ why' = why /\ GeneratedInv'
<1>1. ast[pos].k = "test"
  BY DEF GenTest, Generating, At
<1>2. /\ FunctionsInv /\ ModuleTyped /\ pos \in Nat \ {0} /\ Len(vals) = pos - 1 /\ vals \in Seq(Value)
  BY GeneratingFacts
<1>3. PICK values, F : /\ values = value_map
                       /\ F = Func(TestSym(Len(test_symbols)), <<>>, <<>>, 1)
  OBVIOUS
<1>4. /\ funcs' = Overwrite(funcs, Entry(pos, F)) /\ ip' = [fn |-> pos, block |-> 1]
      /\ frames' = Append(frames, [ip |-> ip, value_map |-> values])
      /\ vals' = Append(vals, NoValue) /\ pos' = pos + 1 /\ UNCHANGED <<phase, why>>
  BY <1>3 DEF GenTest, EnterBody, Step
<1>5. pos \notin DOMAIN funcs /\ pos \notin TopLevelFns
  BY <1>1, <1>2 DEF FunctionsInv, TopLevelFns, TestsSoFar, Main
<1>6. F.ops = <<>> /\ F.blocks = 1 /\ F.params = <<>> /\ F.rets = <<>>
  BY <1>3 DEF Func
<1>7. /\ DOMAIN funcs' = DOMAIN funcs \cup {pos} /\ funcs'[pos] = F
      /\ \A f \in DOMAIN funcs : funcs'[f] = funcs[f]
  BY <1>4, <1>5 DEF Overwrite, Entry
<1>8. Extends
  <2>1. Grows
    BY <1>2, <1>4, <1>5, ModuleGrows
  <2>2. \A f \in DOMAIN funcs : Len(funcs[f].ops) \in Nat
    BY <1>2 DEF ModuleTyped, FunctionTyped
  <2> QED BY <1>7, <2>1, <2>2 DEF Extends
<1> QED BY <1>1, <1>4, <1>5, <1>6, <1>7, <1>8, OpeningKeepsGenerated

\* A function has returned when its body ends; a test returns now, if it has not.
LEMMA ReturnAdded ==
    ASSUME AtNode, ast[pos].k = "end", CloseBody
    PROVE  LET d == Home(pos)
           IN  /\ d \in DOMAIN funcs
               /\ HasReturned(d) <=> ast[pos - 1].k = "return"
               /\ IF HasReturned(d)
                    THEN funcs' = funcs
                    ELSE /\ d \notin TopLevelFns
                         /\ funcs' = [funcs EXCEPT ![d].ops =
                                         Append(@, Operation("return", <<>>, <<>>, NoType))]
<1>1. /\ TreeInv /\ ModuleTyped /\ OperationsInv /\ BodiesInv /\ DeclarationsInv
      /\ PathAt(pos) = path[pos] /\ pos \in 1..pos /\ pos \in Nodes
      /\ ip = [fn |-> Home(pos), block |-> 1]
  BY GeneratingFacts DEF AtNode
<1>2. PICK d : d = Home(pos)
  OBVIOUS
<1>3. path[pos] # <<>>
  BY <1>1 DEF TreeInv
<1>4. /\ d \in DOMAIN funcs /\ Last(path[pos]) = d /\ d # Main
      /\ ast[d].k = (IF d \in TopLevelFns THEN "fn" ELSE "test")
  BY <1>1, <1>2, <1>3, HomeExists
<1>5. ip.fn = d /\ ip.block = 1
  BY <1>1, <1>2
<1>6. HasReturned(d) => Terminated(funcs[d].ops, 1)
  <2> SUFFICES ASSUME HasReturned(d) PROVE Last(funcs[d].ops).block = 1
    BY DEF HasReturned, Terminated
  <2>1. funcs[d].ops \in Seq(Range(funcs[d].ops)) /\ funcs[d].ops # <<>>
    BY <1>1, <1>4 DEF ModuleTyped, FunctionTyped, HasReturned
  <2>2. Len(funcs[d].ops) \in DOMAIN funcs[d].ops
    BY <2>1
  <2>3. \A i \in DOMAIN funcs[d].ops : funcs[d].ops[i].block = 1
    BY <1>1, <1>4 DEF OperationsInv, Verified
  <2> QED BY <2>2, <2>3 DEF Last
<1>7. HasReturned(d) <=> ast[pos - 1].k = "return"
  BY <1>1, <1>2, <1>4 DEF BodiesInv, Home
<1>8. HasReturned(d) => funcs' = funcs
  BY <1>5, <1>6 DEF CloseBody
<1>9. ASSUME ~HasReturned(d)
      PROVE  /\ d \notin TopLevelFns
             /\ funcs' = [funcs EXCEPT ![d].ops = Append(@, Operation("return", <<>>, <<>>, NoType))]
  <2>1. ast[d].k = "test" /\ d \notin TopLevelFns
    <3>1. ast[d].k = "fn" => ast[pos - 1].k = "return"
      BY <1>1, <1>4 DEF AtNode, Shaped, ShapedNode
    <3> QED BY <1>4, <1>7, <1>9, <3>1
  <2>2. ImplicitReturn = Operation("return", <<>>, <<>>, NoType)
    BY <1>4, <2>1 DEF ImplicitReturn
  <2>3. ~Terminated(funcs[d].ops, 1)
    BY <1>9 DEF HasReturned, Terminated
  <2> QED BY <1>5, <2>1, <2>2, <2>3 DEF CloseBody
<1> QED BY <1>2, <1>4, <1>7, <1>8, <1>9

LEMMA ClosedBody ==
    ASSUME AtNode, ast[pos].k = "end", CloseBody
    PROVE  /\ Extends /\ OperationsInv' /\ DOMAIN funcs' = DOMAIN funcs
           /\ \A g \in DOMAIN funcs : funcs'[g].blocks = funcs[g].blocks
           /\ \A g \in DOMAIN funcs : HasReturned(g)' <=> g = Home(pos) \/ HasReturned(g)
<1>1. ModuleTyped /\ OperationsInv /\ DeclarationsInv /\ ip = [fn |-> Home(pos), block |-> 1]
  BY GeneratingFacts
<1>2. PICK d : d = Home(pos)
  OBVIOUS
<1>3. /\ d \in DOMAIN funcs
      /\ IF HasReturned(d)
           THEN funcs' = funcs
           ELSE /\ d \notin TopLevelFns
                /\ funcs' = [funcs EXCEPT ![d].ops = Append(@, Operation("return", <<>>, <<>>, NoType))]
  BY <1>2, ReturnAdded
<1>4. CASE HasReturned(d)
  <2>1. funcs' = funcs
    BY <1>3, <1>4
  <2>2. Extends
    <3>1. Grows
      BY <1>1, <2>1, ModuleGrows
    <3>2. \A f \in DOMAIN funcs : Len(funcs[f].ops) \in Nat
      BY <1>1 DEF ModuleTyped, FunctionTyped
    <3> QED BY <2>1, <3>1, <3>2 DEF Extends
  <2>3. OperationsInv'
    BY <1>1, <2>1, <2>2, OperationsKept
  <2> QED BY <1>2, <1>4, <2>1, <2>2, <2>3 DEF HasReturned
<1>5. CASE ~HasReturned(d)
  <2> DEFINE o == Operation("return", <<>>, <<>>, NoType)
  <2>1. d \notin TopLevelFns /\ funcs' = [funcs EXCEPT ![d].ops = Append(@, o)]
    BY <1>3, <1>5
  <2>2. o.block = 1 /\ o.op = "return" /\ o.args = <<>>
    BY <1>1 DEF Operation
  <2>3. Range(<<>>) = {} /\ TypesOf(<<>>) = <<>>
    BY DEF Range, TypesOf
  <2> HIDE DEF o
  <2>4. WellTyped(d, o)
    <3>1. "return" \notin ArithOps \cup CmpOps
      BY DEF ArithOps, CmpOps
    <3>2. funcs[d].rets = <<>>
      BY <1>1, <1>3, <2>1 DEF DeclarationsInv
    <3> QED BY <2>2, <2>3, <3>1, <3>2 DEF WellTyped
  <2>5. /\ Extends /\ OperationsInv' /\ DOMAIN funcs' = DOMAIN funcs
        /\ \A g \in DOMAIN funcs : funcs'[g].blocks = funcs[g].blocks
        /\ \A g \in DOMAIN funcs : HasReturned(g)' <=> IF g = d THEN o.op = "return" ELSE HasReturned(g)
    <3>1. \A v \in Range(o.args) : v \in Value /\ Dominates(v, d, Len(funcs[d].ops) + 1)
      BY <2>2, <2>3
    <3> QED BY <1>1, <1>3, <1>5, <2>1, <2>2, <2>4, <3>1, OperationAppended
  <2> QED BY <1>2, <2>2, <2>5
<1> QED BY <1>4, <1>5

LEMMA GenEndKeeps ==
    ASSUME AtNode, UNCHANGED <<ast, path, open, ty>>, GenEnd
    PROVE  phase' = phase /\ why' = why /\ GeneratedInv'
<1>1. /\ ast[pos].k = "end" /\ CloseBody /\ ip' = Last(frames).ip /\ frames' = Front(frames)
      /\ vals' = Append(vals, NoValue) /\ pos' = pos + 1 /\ UNCHANGED <<phase, why>>
  BY DEF GenEnd, Generating, At, Step
<1>2. /\ TreeInv /\ pos \in Nat \ {0} /\ pos \in Nodes /\ DeclarationsInv /\ BodiesInv
      /\ PathAt(pos) = path[pos] /\ pos \in 1..pos /\ FunctionsInv /\ ModuleTyped
      /\ DOMAIN vals = 1..pos - 1 /\ DOMAIN funcs \subseteq Nat
  BY GeneratingFacts DEF AtNode, ModuleTyped
<1>3. /\ Extends /\ OperationsInv' /\ DOMAIN funcs' = DOMAIN funcs
      /\ \A g \in DOMAIN funcs : funcs'[g].blocks = funcs[g].blocks
      /\ \A g \in DOMAIN funcs : HasReturned(g)' <=> g = Home(pos) \/ HasReturned(g)
  BY <1>1, ClosedBody
<1>4. path[pos] # <<>>
  BY <1>1, <1>2 DEF TreeInv
<1>5. path[pos] = <<Home(pos)>> /\ Home(pos) < pos /\ Home(pos) # Main
  BY <1>2, <1>4, HomeExists
<1>6. PathAt(pos)' = <<>> /\ TopLevelFns' = TopLevelFns
  <2>1. PathAt(pos + 1) = Front(path[pos])
    BY <1>1, <1>2, ScopeStep
  <2>2. \A d : Front(<<d>>) = <<>>
    BY DEF Front
  <2>3. PathAt(pos)' = PathAt(pos + 1) /\ TopLevelFns' = TopLevelFns
    BY <1>1, TreeUnchanged
  <2> QED BY <1>5, <2>1, <2>2, <2>3
<1>7. pos \notin DOMAIN funcs
  BY <1>1, <1>2 DEF FunctionsInv, TopLevelFns, TestsSoFar, Main
<1>8. \A f \in DOMAIN funcs : f < pos <=> f < pos + 1
  BY <1>2, <1>7
<1>9. ValuesInv'
  BY <1>1, <1>3, ValuesStay DEF ValueKinds, ExprKinds
<1>10. frames \in Seq(Range(frames)) /\ Len(frames) = 1
  <2>1. frames \in Seq(Range(frames)) /\ Len(frames) = Len(PathAt(pos))
    BY <1>2 DEF AtNode, IInv, GenerateInv
  <2>2. \A d : Len(<<d>>) = 1
    OBVIOUS
  <2> QED BY <1>2, <1>5, <2>1, <2>2
<1>11. ip' = [fn |-> Main, block |-> 1] /\ DOMAIN frames' = {}
  <2>1. 1 \in DOMAIN frames /\ Last(frames) = frames[1] /\ frames # <<>>
    BY <1>10 DEF Last
  <2>2. Len(frames') = 0 /\ frames' \in Seq(Range(frames'))
    BY <1>1, <1>10, <2>1, SeqFront
  <2>3. frames[1].ip = [fn |-> Main, block |-> 1]
    BY <1>2, <2>1 DEF DeclarationsInv
  <2> QED BY <1>1, <2>1, <2>2, <2>3
<1>12. DeclarationsInv'
  <2>1. \A f \in DOMAIN funcs : ParamList(f)' = ParamList(f)
    BY DEF ParamList
  <2>2. ASSUME NEW f \in DOMAIN funcs
        PROVE  IF f \in TopLevelFns'
                 THEN /\ funcs'[f].params = ParamList(f)' /\ funcs'[f].rets = <<Resolve(ast'[f].ret)>>
                      /\ funcs'[f].blocks = IF f < pos' THEN 1 ELSE 0
                 ELSE funcs'[f].params = <<>> /\ funcs'[f].rets = <<>> /\ funcs'[f].blocks = 1
    <3>1. /\ funcs'[f].params = funcs[f].params /\ funcs'[f].rets = funcs[f].rets
          /\ funcs'[f].blocks = funcs[f].blocks
      BY <1>3 DEF Extends, Grows
    <3> QED BY <1>1, <1>2, <1>6, <1>8, <2>1, <3>1 DEF DeclarationsInv
  <2>3. ip' = [fn |-> FnOf(PathAt(pos)'), block |-> 1]
    BY <1>6, <1>11 DEF FnOf
  <2>4. \A i \in DOMAIN frames' : frames'[i].ip = [fn |-> Main, block |-> 1]
    BY <1>11
  <2> QED BY <1>3, <2>2, <2>3, <2>4, Zenon DEF DeclarationsInv, FnOf, Main
<1>13. BodiesInv'
  <2> SUFFICES ASSUME NEW f \in DOMAIN funcs
               PROVE  HasReturned(f)' <=> f # Main /\ f < pos + 1
    <3>1. (IF PathAt(pos)' = <<>> THEN Main ELSE Last(PathAt(pos)')) = Main
      BY <1>6
    <3> QED BY <1>1, <1>3, <3>1 DEF BodiesInv, FnOf, Main
  <2>1. CASE f = Home(pos)
    BY <1>3, <1>5, <1>8, <2>1
  <2>2. CASE f # Home(pos)
    <3>1. HasReturned(f) <=> f # Main /\ f < pos
      BY <1>2, <2>2 DEF BodiesInv, Home
    <3> QED BY <1>3, <1>8, <2>2, <3>1
  <2> QED BY <2>1, <2>2
<1> QED BY <1>1, <1>3, <1>9, <1>12, <1>13 DEF GeneratedInv

-----------------------------------------------------------------------------
\* Before the first node, no body has returned and no function has a block but
\* __main.
LEMMA GenBeginKeeps ==
    ASSUME IInv, TypeInv, CheckedInv, UNCHANGED <<ast, path, open, ty>>, GenBegin
    PROVE  phase' = phase /\ why' = why /\ GeneratedInv'
<1>1. /\ phase = "generate" /\ pos' = 1 /\ ip' = [fn |-> Main, block |-> 1]
      /\ funcs' = [n \in {Main} \cup TopLevelFns |->
                      IF n = Main THEN Func(Sym("__main"), <<>>, <<>>, 1) ELSE FuncType(n)]
      /\ pos = 0 /\ UNCHANGED <<phase, why, frames, vals>>
  BY DEF GenBegin, Step
<1>2. /\ TreeInv /\ frames = <<>> /\ vals = <<>> /\ SignaturesKnown
  BY <1>1, Zenon DEF IInv, GenerateInv, TypeInv, GenerateTypes, CheckedInv
<1>3. PathAt(pos)' = <<>> /\ TopLevelFns' = TopLevelFns /\ \A f : ParamList(f)' = ParamList(f)
  <2>1. PathAt(1) = <<>> /\ PathAt(1)' = PathAt(1) /\ TopLevelFns' = TopLevelFns
    BY <1>2, TreeUnchanged DEF TreeInv
  <2> QED BY <1>1, <2>1 DEF ParamList, PathAt
<1>4. \A f \in TopLevelFns : f \in Nat \ {0}
  BY DEF TopLevelFns, Nodes
<1>5. /\ DOMAIN funcs' = {Main} \cup TopLevelFns
      /\ funcs'[Main] = Func(Sym("__main"), <<>>, <<>>, 1)
      /\ \A f \in TopLevelFns :
            /\ funcs'[f].params = ParamList(f) /\ funcs'[f].rets = <<Resolve(ast[f].ret)>>
            /\ funcs'[f].blocks = 0 /\ funcs'[f].ops = <<>>
  <2>1. ASSUME NEW f \in TopLevelFns
        PROVE  /\ funcs'[f].params = ParamList(f) /\ funcs'[f].rets = <<Resolve(ast[f].ret)>>
               /\ funcs'[f].blocks = 0 /\ funcs'[f].ops = <<>>
    <3>1. funcs'[f] = FuncType(f)
      BY <1>1, <1>4 DEF Main
    <3>2. Resolve(ast[f].ret) # NoType
      BY <1>2 DEF SignaturesKnown, ScalarTypes, IntegerTypes, Floats, NoType
    <3> QED BY <3>1, <3>2 DEF FuncType, Func, ParamList
  <2> QED BY <1>1, <2>1
<1>6. /\ funcs'[Main].params = <<>> /\ funcs'[Main].rets = <<>> /\ funcs'[Main].blocks = 1
      /\ \A f \in DOMAIN funcs' : funcs'[f].ops = <<>>
  BY <1>5 DEF Func
<1>7. DeclarationsInv'
  <2>1. ASSUME NEW f \in DOMAIN funcs'
        PROVE  IF f \in TopLevelFns'
                 THEN /\ funcs'[f].params = ParamList(f)' /\ funcs'[f].rets = <<Resolve(ast'[f].ret)>>
                      /\ funcs'[f].blocks = IF f < pos' THEN 1 ELSE 0
                 ELSE funcs'[f].params = <<>> /\ funcs'[f].rets = <<>> /\ funcs'[f].blocks = 1
    BY <1>1, <1>3, <1>4, <1>5, <1>6
  <2>2. ip' = [fn |-> FnOf(PathAt(pos)'), block |-> 1]
    BY <1>1, <1>3 DEF FnOf
  <2>3. \A i \in DOMAIN frames' : frames'[i].ip = [fn |-> Main, block |-> 1]
    BY <1>1, <1>2
  <2> QED BY <2>1, <2>2, <2>3, Zenon DEF DeclarationsInv, FnOf, Main
<1>8. ValuesInv' /\ OperationsInv'
  <2>1. DOMAIN <<>> = {}
    OBVIOUS
  <2>2. DOMAIN vals' = {} /\ \A f \in DOMAIN funcs' : DOMAIN funcs'[f].ops = {}
    BY <1>1, <1>2, <1>6, <2>1, Zenon
  <2> QED BY <2>2, Zenon DEF ValuesInv, OperationsInv
<1>9. BodiesInv'
  <2> SUFFICES ASSUME NEW f \in DOMAIN funcs'
               PROVE  HasReturned(f)' <=> f # Main /\ f < 1
    <3>1. (IF PathAt(pos)' = <<>> THEN Main ELSE Last(PathAt(pos)')) = Main
      BY <1>3
    <3> QED BY <1>1, <3>1 DEF BodiesInv, FnOf, Main
  <2>1. ~HasReturned(f)'
    BY <1>6 DEF HasReturned
  <2> QED BY <1>4, <1>5, <2>1
<1> QED BY <1>1, <1>7, <1>8, <1>9 DEF GeneratedInv

\* The calls of the tests that end __main, and the return after them.
FinalCalls ==
    IF run_tests
      THEN [i \in DOMAIN test_symbols |-> Operation("call", <<>>, test_symbols[i], NoType)]
      ELSE <<>>

FinalReturn == Operation("return", <<>>, <<>>, NoType)

\* Sequence s is r, followed by the k elements of t, and e.
Continues(s, r, l, t, k, e) ==
    /\ DOMAIN r = 1..l /\ DOMAIN s = 1..l + k + 1 /\ Len(s) = l + k + 1
    /\ \A i \in 1..l : s[i] = r[i]
    /\ \A i \in 1..k : s[l + i] = t[i]
    /\ s[l + k + 1] = e

\* They follow the operations that __main has, and nothing else changes.
LEMMA ModuleFinished ==
    ASSUME IInv, TypeInv, GeneratorInv, DeclarationsInv, GenFinish(run_tests),
           NEW l, l = Len(funcs[Main].ops), NEW k, k = Len(FinalCalls)
    PROVE  /\ phase = "generate" /\ phase' = "lower" /\ why' = why
           /\ pos = Len(ast) + 1 /\ Len(ast) \in Nat /\ open = <<>> /\ FnOf(PathAt(pos)) = Main
           /\ ModuleTyped /\ vals \in Seq(Value) /\ Len(vals) = Len(ast) /\ FunctionsInv
           /\ Main \in DOMAIN funcs /\ l \in Nat /\ k \in Nat
           /\ Grows
           /\ \A f \in DOMAIN funcs : f # Main => f \in Nodes
           /\ DOMAIN funcs' = DOMAIN funcs
           /\ \A f \in DOMAIN funcs :
                 /\ funcs'[f].sym = funcs[f].sym /\ funcs'[f].blocks = funcs[f].blocks
                 /\ f # Main => funcs'[f].ops = funcs[f].ops
           /\ Continues(funcs'[Main].ops, funcs[Main].ops, l, FinalCalls, k, FinalReturn)
           /\ k = IF run_tests THEN Len(test_symbols) ELSE 0
           /\ \A i \in 1..k :
                 /\ FinalCalls[i].op = "call" /\ FinalCalls[i].args = <<>>
                 /\ FinalCalls[i].type = NoType /\ FinalCalls[i].block = 1
                 /\ i \in DOMAIN test_symbols /\ FinalCalls[i].attr = test_symbols[i]
<1> DEFINE F == funcs[Main].ops
           C == FinalCalls
           R == FinalReturn
           ops == F \o Append(C, R)
<1>1. /\ phase = "generate" /\ pos = Len(ast) + 1 /\ phase' = "lower" /\ why' = why
      /\ funcs' = [funcs EXCEPT ![ip.fn].ops = @ \o Append(C, R)]
  BY DEF GenFinish, Enter, FinalCalls, FinalReturn
<1>2. pos > 0 /\ Len(ast) \in Nat /\ pos \notin Nodes /\ open = <<>>
  <2>1. Len(ast) \in Nat
    BY DEF IInv, TreeInv
  <2> QED BY <1>1, <2>1 DEF Nodes, IInv, QuietInv
<1>3. /\ ModuleTyped /\ vals \in Seq(Value) /\ Len(vals) = Len(ast) /\ FunctionsInv
      /\ test_symbols \in Seq(Range(test_symbols))
  BY <1>1, <1>2 DEF TypeInv, TypeOK, GenerateTypes, GeneratorInv
<1>4. FnOf(PathAt(pos)) = Main /\ ip = [fn |-> Main, block |-> 1]
  <2>1. FnOf(PathAt(pos)) = Main
    BY <1>2 DEF PathAt, FnOf
  <2> QED BY <2>1 DEF DeclarationsInv
<1>5. /\ Main \in DOMAIN funcs /\ F \in Seq(Range(F))
      /\ \A f \in DOMAIN funcs : DOMAIN funcs[f] = {"sym", "params", "rets", "blocks", "ops"}
      /\ \A f \in DOMAIN funcs : f # Main => f \in Nodes
  <2>1. \A f \in DOMAIN funcs : f # Main => f \in Nodes
    BY <1>3 DEF FunctionsInv, TopLevelFns, TestsSoFar, Nodes
  <2> QED BY <1>3, <2>1 DEF ModuleTyped, FunctionTyped
<1>6. /\ DOMAIN funcs' = DOMAIN funcs /\ funcs'[Main].ops = ops
      /\ \A f \in DOMAIN funcs :
            /\ funcs'[f].sym = funcs[f].sym /\ funcs'[f].blocks = funcs[f].blocks
            /\ f # Main => funcs'[f].ops = funcs[f].ops
  BY <1>1, <1>4, <1>5
<1>7. /\ C \in Seq(Range(C)) /\ k \in Nat /\ k = IF run_tests THEN Len(test_symbols) ELSE 0
      /\ \A i \in 1..k :
            /\ C[i].op = "call" /\ C[i].args = <<>> /\ C[i].type = NoType /\ C[i].block = 1
            /\ i \in DOMAIN test_symbols /\ C[i].attr = test_symbols[i]
  <2>1. CASE run_tests
    <3>1. C = [i \in 1..Len(test_symbols) |-> Operation("call", <<>>, test_symbols[i], NoType)]
      BY <1>3, <2>1 DEF FinalCalls
    <3>2. Len(test_symbols) \in Nat /\ DOMAIN test_symbols = 1..Len(test_symbols)
      BY <1>3
    <3> HIDE DEF C
    <3>3. C \in Seq(Range(C)) /\ Len(C) = Len(test_symbols)
      BY <3>1, <3>2 DEF Range
    <3>4. k = Len(C)
      BY DEF C
    <3> QED BY <1>4, <2>1, <3>1, <3>2, <3>3, <3>4 DEF Operation
  <2>2. CASE ~run_tests
    BY <2>2 DEF FinalCalls
  <2> QED BY <2>1, <2>2
<1>8. /\ l \in Nat /\ DOMAIN F = 1..l /\ DOMAIN ops = 1..l + k + 1 /\ Len(ops) = l + k + 1
      /\ \A i \in 1..l : ops[i] = F[i]
      /\ \A i \in 1..k : ops[l + i] = C[i]
      /\ ops[l + k + 1] = R
  <2>1. l = Len(F) /\ k = Len(C)
    OBVIOUS
  <2> HIDE DEF F, C, R
  <2>2. l \in Nat /\ DOMAIN F = 1..l
    BY <1>5, <2>1
  <2> HIDE DEF ops
  <2>3. /\ Len(ops) = Len(F) + Len(C) + 1 /\ DOMAIN ops = 1..Len(F) + Len(C) + 1
        /\ \A i \in 1..Len(F) : ops[i] = F[i]
        /\ \A i \in 1..Len(C) : ops[Len(F) + i] = C[i]
        /\ ops[Len(F) + Len(C) + 1] = R
    BY <1>5, <1>7, SeqJoined DEF ops
  <2> QED BY <2>1, <2>2, <2>3
<1> HIDE DEF C, R, ops
<1>9. Continues(funcs'[Main].ops, F, l, C, k, R)
  <2>1. Continues(ops, F, l, C, k, R)
    BY <1>8 DEF Continues
  <2> QED BY <1>6, <2>1
<1>10. Grows
  BY <1>1, <1>3, ModuleGrows
<1> QED BY <1>1, <1>2, <1>3, <1>4, <1>5, <1>6, <1>7, <1>8, <1>9, <1>10 DEF C, R

\* The module is valid once __main has called the tests and returns.
LEMMA GenFinishKeeps ==
    ASSUME IInv, TypeInv, GeneratorInv, GeneratedInv, ~Gap, GenFinish(run_tests)
    PROVE  phase' = "lower" /\ why' = why /\ IRValid'
<1> DEFINE F == funcs[Main].ops
           C == FinalCalls
           R == FinalReturn
           ops == funcs'[Main].ops
<1>1. PICK l, k : l = Len(funcs[Main].ops) /\ k = Len(FinalCalls)
  OBVIOUS
<1>2. phase = "generate" /\ pos = Len(ast) + 1 /\ phase' = "lower" /\ why' = why
  BY DEF GenFinish, Enter
<1>3. pos > 0
  <2>1. Len(ast) \in Nat
    BY DEF IInv, TreeInv
  <2> QED BY <1>2, <2>1
<1>4. DeclarationsInv /\ OperationsInv /\ BodiesInv
  BY <1>2, <1>3, Zenon DEF GeneratedInv
<1>5. /\ Len(ast) \in Nat /\ FnOf(PathAt(pos)) = Main
      /\ ModuleTyped /\ FunctionsInv /\ vals \in Seq(Value) /\ Main \in DOMAIN funcs /\ Grows
      /\ \A f \in DOMAIN funcs : f # Main => f \in Nodes
      /\ DOMAIN funcs' = DOMAIN funcs
      /\ \A f \in DOMAIN funcs :
            /\ funcs'[f].sym = funcs[f].sym /\ funcs'[f].blocks = funcs[f].blocks
            /\ f # Main => funcs'[f].ops = funcs[f].ops
  BY <1>1, <1>4, ModuleFinished
<1>6. /\ l \in Nat /\ k \in Nat /\ DOMAIN F = 1..l
      /\ DOMAIN ops = 1..l + k + 1 /\ Len(ops) = l + k + 1
      /\ \A i \in 1..l : ops[i] = F[i]
      /\ \A i \in 1..k : ops[l + i] = C[i]
      /\ ops[l + k + 1] = R
      /\ \A i \in 1..k :
            /\ C[i].op = "call" /\ C[i].args = <<>> /\ C[i].type = NoType /\ C[i].block = 1
            /\ i \in DOMAIN test_symbols /\ C[i].attr = test_symbols[i]
  <2>1. /\ l \in Nat /\ k \in Nat /\ Continues(ops, F, l, C, k, R)
        /\ \A i \in 1..k :
             /\ C[i].op = "call" /\ C[i].args = <<>> /\ C[i].type = NoType /\ C[i].block = 1
             /\ i \in DOMAIN test_symbols /\ C[i].attr = test_symbols[i]
    BY <1>1, <1>4, ModuleFinished
  <2> HIDE DEF C, R, F, ops
  <2> QED BY <2>1 DEF Continues
<1>7. /\ \A f \in DOMAIN funcs :
            funcs[f].ops \in Seq(Range(funcs[f].ops)) /\ Len(funcs[f].ops) \in Nat
      /\ \A f \in DOMAIN funcs : f # Main => f < pos
  <2>1. ASSUME NEW f \in DOMAIN funcs
        PROVE  funcs[f].ops \in Seq(Range(funcs[f].ops)) /\ Len(funcs[f].ops) \in Nat
    <3>1. funcs[f].ops \in Seq(Range(funcs[f].ops))
      BY <1>5 DEF ModuleTyped, FunctionTyped
    <3> QED BY <3>1
  <2>2. \A f \in Nodes : f < pos
    BY <1>2, <1>5 DEF Nodes
  <2> QED BY <1>5, <2>1, <2>2
<1>8. R.op = "return" /\ R.args = <<>> /\ R.type = NoType
  BY DEF Operation, FinalReturn
<1>9. \A i \in DOMAIN ops : i \in 1..l \/ (\E j \in 1..k : i = l + j) \/ i = l + k + 1
  <2> SUFFICES ASSUME NEW i \in 1..l + k + 1, i \notin 1..l, i # l + k + 1
               PROVE  \E j \in 1..k : i = l + j
    BY <1>6
  <2>1. i - l \in 1..k /\ i = l + (i - l)
    BY <1>6
  <2> QED BY <2>1
<1> HIDE DEF C, R, ops
<1>10. Extends
  <2>1. Grows
    BY <1>5
  <2>2. ASSUME NEW f \in DOMAIN funcs
        PROVE  /\ Len(funcs[f].ops) <= Len(funcs'[f].ops)
               /\ \A i \in DOMAIN funcs[f].ops : funcs'[f].ops[i] = funcs[f].ops[i]
    <3>1. CASE f = Main
      <4>1. l <= l + k + 1
        <5> QED BY <1>6
      <4> QED BY <1>1, <1>6, <3>1, <4>1 DEF ops
    <3>2. CASE f # Main
      BY <1>5, <1>7, <3>2
    <3> QED BY <3>1, <3>2
  <2> QED BY <2>1, <2>2 DEF Extends
<1>11. \A f \in DOMAIN funcs : HasReturned(f) <=> f # Main
  BY <1>4, <1>5, <1>7 DEF BodiesInv
<1>12. SymbolsUnique'
  <2>1. SymbolsUnique
    BY <1>5, FunctionsUnique DEF Gap
  <2> QED BY <1>5, <2>1 DEF SymbolsUnique
<1>13. \A f \in DOMAIN funcs : OneBlock(f)'
  BY <1>4, <1>5, <1>7 DEF DeclarationsInv, OneBlock, TopLevelFns, Main, Nodes
<1>14. ASSUME NEW f \in DOMAIN funcs PROVE ReturnsLast(f)'
  <2>1. \A i \in DOMAIN funcs[f].ops : funcs[f].ops[i].op = "return" => i = Len(funcs[f].ops)
    BY <1>4 DEF OperationsInv, Verified
  <2>2. CASE f # Main
    <3>1. funcs[f].ops # <<>> /\ Last(funcs[f].ops).op = "return"
      BY <1>11, <2>2 DEF HasReturned
    <3>2. funcs[f].ops[Len(funcs[f].ops)].op = "return"
      BY <3>1 DEF Last
    <3>3. \A i \in DOMAIN funcs[f].ops : funcs[f].ops[i].op = "return" <=> i = Len(funcs[f].ops)
      BY <2>1, <3>2, Zenon
    <3>4. funcs'[f].ops = funcs[f].ops
      BY <1>5, <2>2
    <3> QED BY <3>1, <3>3, <3>4 DEF ReturnsLast
  <2>3. CASE f = Main
    <3>1. \A i \in 1..l : F[i].op # "return"
      <4> SUFFICES ASSUME NEW i \in 1..l, F[i].op = "return" PROVE FALSE
        OBVIOUS
      <4>1. i = l /\ F # <<>>
        BY <1>1, <1>6, <2>1, <2>3
      <4>2. HasReturned(Main)
        BY <1>1, <4>1 DEF HasReturned, Last
      <4> QED BY <1>5, <1>11, <4>2
    <3>2. \A i \in DOMAIN ops : ops[i].op = "return" <=> i = l + k + 1
      <4> SUFFICES ASSUME NEW i \in DOMAIN ops
                   PROVE  ops[i].op = "return" <=> i = l + k + 1
        OBVIOUS
      <4>1. CASE i \in 1..l
        <5>1. i # l + k + 1
          <6> QED BY <1>6, <4>1
        <5> QED BY <1>6, <3>1, <4>1, <5>1
      <4>2. ASSUME NEW j \in 1..k, i = l + j PROVE ops[i].op = "call" /\ i # l + k + 1
        <5>1. i # l + k + 1
          <6> QED BY <1>6, <4>2
        <5> QED BY <1>6, <4>2, <5>1
      <4>3. CASE i = l + k + 1
        BY <1>8, <1>6, <4>3
      <4> QED BY <1>9, <4>1, <4>2, <4>3
    <3>3. ops # <<>> /\ DOMAIN ops = 1..l + k + 1 /\ Len(ops) = l + k + 1
      <4>1. l + k + 1 \in 1..l + k + 1
        BY <1>6
      <4> QED BY <1>6, <4>1
    <3>4. funcs'[f].ops = ops
      BY <2>3 DEF ops
    <3> QED BY <3>2, <3>3, <3>4, Zenon DEF ReturnsLast
  <2> QED BY <2>2, <2>3
<1>15. ASSUME NEW f \in DOMAIN funcs, NEW i \in DOMAIN funcs[f].ops, NEW o, o = funcs[f].ops[i]
       PROVE  WellTyped(f, o)' /\ \A v \in Range(o.args) : Dominates(v, f, i)'
  <2>1. Verified(f, i) /\ o.args \in Seq(Value) /\ i \in Nat /\ i <= Len(funcs[f].ops) + 1
    <3>1. o.args \in Seq(Value)
      BY <1>5, <1>15 DEF ModuleTyped, FunctionTyped, OperationTyped
    <3>2. i \in 1..Len(funcs[f].ops)
      BY <1>7
    <3> QED BY <1>4, <1>7, <3>1, <3>2 DEF OperationsInv
  <2>2. WellTyped(f, o)'
    BY <1>10, <1>15, <2>1, WellTypedKept DEF Verified, Extends
  <2>3. ASSUME NEW v \in Range(o.args) PROVE Dominates(v, f, i)'
    <3>1. v \in Value /\ Dominates(v, f, i)
      BY <1>15, <2>1, <2>3 DEF Verified, Range
    <3>2. i <= i
      BY <2>1
    <3> QED BY <1>5, <1>10, <2>1, <3>1, <3>2, DominatesKept
  <2> QED BY <2>2, <2>3
<1>16. Range(<<>>) = {} /\ TypesOf(<<>>) = <<>>
  BY DEF Range, TypesOf
<1>17. /\ \A f \in DOMAIN funcs :
             /\ f \in DOMAIN funcs' /\ funcs'[f].sym = funcs[f].sym
             /\ funcs'[f].params = funcs[f].params /\ funcs'[f].rets = funcs[f].rets
       /\ funcs[Main].rets = <<>>
       /\ \A f \in TestsSoFar : f \in DOMAIN funcs /\ funcs[f].params = <<>> /\ funcs[f].rets = <<>>
  <2>1. Main \notin TopLevelFns /\ \A f \in TestsSoFar : f \notin TopLevelFns /\ f \in DOMAIN funcs
    BY <1>5 DEF TestsSoFar, TopLevelFns, Main, Nodes, FunctionsInv
  <2> QED BY <1>4, <1>5, <1>10, <2>1 DEF DeclarationsInv, Extends, Grows
<1>18. ASSUME NEW j \in 1..k, NEW o, o = C[j] PROVE WellTyped(Main, o)' /\ o.args = <<>>
  <2>1. /\ o.op = "call" /\ o.args = <<>> /\ o.type = NoType
        /\ \E m \in DOMAIN test_symbols : o.attr = test_symbols[m]
    BY <1>6, <1>18
  <2>2. PICK g \in TestsSoFar : funcs[g].sym = o.attr
    BY <1>5, <2>1 DEF FunctionsInv
  <2>3. /\ g \in DOMAIN funcs' /\ funcs'[g].sym = o.attr /\ funcs'[g].params = <<>>
        /\ ResultType(g)' = NoType
    BY <1>17, <2>2 DEF ResultType
  <2>4. "call" \notin ArithOps \cup CmpOps /\ TypesOf(o.args)' = <<>>
    BY <2>1 DEF ArithOps, CmpOps, TypesOf
  <2> QED BY <2>1, <2>3, <2>4 DEF WellTyped
<1>19. ASSUME NEW o, o = R PROVE WellTyped(Main, o)' /\ o.args = <<>>
  <2>1. "return" \notin ArithOps \cup CmpOps /\ TypesOf(o.args)' = <<>>
    BY <1>8, <1>19 DEF ArithOps, CmpOps, TypesOf
  <2>2. funcs'[Main].rets = <<>>
    BY <1>5, <1>17
  <2> QED BY <1>8, <1>19, <2>1, <2>2 DEF WellTyped, Main
<1>20. ASSUME NEW f \in DOMAIN funcs, NEW i \in DOMAIN funcs'[f].ops, NEW o, o = funcs'[f].ops[i]
       PROVE  WellTyped(f, o)' /\ \A v \in Range(o.args) : Dominates(v, f, i)'
  <2>1. CASE f # Main
    BY <1>5, <1>15, <1>20, <2>1
  <2>2. CASE f = Main
    <3>1. i \in DOMAIN ops /\ o = ops[i]
      BY <1>20, <2>2 DEF ops
    <3>2. CASE i \in 1..l
      BY <1>6, <1>15, <2>2, <3>1, <3>2
    <3>3. ASSUME NEW j \in 1..k, i = l + j PROVE WellTyped(Main, o)' /\ o.args = <<>>
      <4>1. o = C[j]
        BY <1>6, <3>1, <3>3
      <4> QED BY <1>18, <4>1
    <3>4. ASSUME i = l + k + 1 PROVE WellTyped(Main, o)' /\ o.args = <<>>
      BY <1>6, <1>19, <3>1, <3>4
    <3> QED BY <1>9, <1>16, <2>2, <3>1, <3>2, <3>3, <3>4
  <2> QED BY <2>1, <2>2
<1>21. ASSUME NEW f \in DOMAIN funcs, NEW i \in DOMAIN funcs'[f].ops
       PROVE  /\ WellTyped(f, funcs[f].ops[i])'
              /\ \A v \in Range(funcs'[f].ops[i].args) : Dominates(v, f, i)'
  <2>1. \A o : o = funcs'[f].ops[i] =>
            WellTyped(f, o)' /\ \A v \in Range(o.args) : Dominates(v, f, i)'
    BY <1>20
  <2> QED BY <2>1 DEF WellTyped, TypesOf, ResultType
<1> HIDE DEF F
<1> QED BY <1>2, <1>5, <1>12, <1>13, <1>14, <1>21, Zenon DEF IRValid
-----------------------------------------------------------------------------
\* What the checker made sure of, the generator leaves as it is.
LEMMA CheckedAtRest ==
    ASSUME IInv, TypeInv, CheckedInv, phase = "generate", phase' # "check",
           UNCHANGED <<ast, path, open, ty>>
    PROVE  CheckedInv'
<1>1. TreeInv /\ WellScoped /\ \A n \in Nodes : OperandsPrecede(n)
  BY DEF IInv, AcceptInv, TypeInv
<1>2. SignaturesKnown /\ \A n \in Nodes : CheckedNode(n)
  BY Zenon DEF CheckedInv
<1>3. Nodes' = Nodes /\ TopLevelFns' = TopLevelFns
  BY <1>1, TreeUnchanged
<1>4. \A n \in Nodes : CheckedNode(n)'
  BY <1>1, <1>2, CheckedKept
<1>5. SignaturesKnown'
  BY <1>2, <1>3 DEF SignaturesKnown
<1> QED BY <1>3, <1>4, <1>5 DEF CheckedInv

\* Without a gap the generator goes on to a valid module, and every value that it
\* makes has the type of its expression.
LEMMA GeneratorKeepsSound ==
    ASSUME IInv, TypeInv, TypeInv', GeneratorInv, SoundnessInv, ~Gap, GenNext(run_tests),
           UNCHANGED <<ast, path, open, ty>>
    PROVE  /\ phase = "generate" /\ phase' \in {"generate", "lower"} /\ why' = "none"
           /\ CheckedInv' /\ GeneratedInv' /\ TypesAgree' /\ (phase' = "lower" => IRValid')
<1>1. /\ phase = "generate" /\ why = "none" /\ Shaped /\ CheckedInv /\ GeneratedInv /\ TypesAgree
  <2>1. phase = "generate"
    BY DEF GenNext, GenBegin, GenIntLiteral, GenIdentifier, GenBinaryOperator, GenCall,
       GenIntrinsicCall, GenLet, GenReturn, GenFn, GenTest, GenEnd, GenFinish, Generating
  <2> QED BY <2>1 DEF SoundnessInv
<1>2. ASSUME pos \in Nodes PROVE AtNode
  BY <1>1, <1>2 DEF AtNode
<1>3. CASE GenFinish(run_tests)
  <2>1. phase' = "lower" /\ why' = why /\ IRValid'
    BY <1>1, <1>3, GenFinishKeeps
  <2>2. CheckedInv'
    BY <1>1, <2>1, CheckedAtRest
  <2>3. GeneratedInv'
    BY <2>1 DEF GeneratedInv
  <2>4. vals' = vals
    BY <1>3 DEF GenFinish
  <2>5. TypesAgree'
    <3>1. \A n \in DOMAIN vals :
             ast[n].k \in {"int", "ident", "bin", "call"} => vals[n].type = ty[n]
      BY <1>1, Zenon DEF TypesAgree
    <3> QED BY <2>4, <3>1 DEF TypesAgree
  <2> QED BY <1>1, <2>1, <2>2, <2>3, <2>5
<1>4. ASSUME phase' = phase, why' = why, GeneratedInv'
      PROVE  /\ phase' \in {"generate", "lower"} /\ why' = "none"
             /\ CheckedInv' /\ GeneratedInv' /\ TypesAgree' /\ (phase' = "lower" => IRValid')
  <2>1. CheckedInv'
    BY <1>1, <1>4, CheckedAtRest
  <2>2. pos' \in Nat
    BY DEF TypeInv, TypeOK
  <2>3. CASE pos' = 0
    <3>1. vals' = <<>>
      BY <1>1, <1>4, <2>3 DEF TypeInv, GenerateTypes
    <3>2. DOMAIN vals' = {}
      BY <3>1
    <3> QED BY <1>1, <1>4, <2>1, <3>2 DEF TypesAgree
  <2>4. CASE pos' > 0
    <3>1. ValuesInv'
      BY <1>1, <1>4, <2>4, Zenon DEF GeneratedInv
    <3>2. TypesAgree'
      BY <3>1 DEF ValuesInv, TypesAgree, ValueKinds, ExprKinds
    <3> QED BY <1>1, <1>4, <2>1, <3>2
  <2> QED BY <2>2, <2>3, <2>4
<1>5. CASE GenBegin
  BY <1>1, <1>4, <1>5, GenBeginKeeps
<1>6. CASE GenIntLiteral
  BY <1>1, <1>2, <1>4, <1>6, GenIntLiteralKeeps DEF GenIntLiteral, Generating, At
<1>7. CASE GenIdentifier
  BY <1>1, <1>2, <1>4, <1>7, GenIdentifierKeeps DEF GenIdentifier, Generating, At
<1>8. CASE GenBinaryOperator
  BY <1>1, <1>2, <1>4, <1>8, GenBinaryOperatorKeeps DEF GenBinaryOperator, Generating, At
<1>9. CASE GenCall
  BY <1>1, <1>2, <1>4, <1>9, GenCallKeeps DEF GenCall, Generating, At
<1>10. CASE GenIntrinsicCall
  BY <1>1, <1>2, <1>4, <1>10, GenIntrinsicCallKeeps DEF GenIntrinsicCall, Generating, At
<1>11. CASE GenLet
  BY <1>1, <1>2, <1>4, <1>11, GenLetKeeps DEF GenLet, Generating, At
<1>12. CASE GenReturn
  BY <1>1, <1>2, <1>4, <1>12, GenReturnKeeps DEF GenReturn, Generating, At
<1>13. CASE GenFn
  BY <1>1, <1>2, <1>4, <1>13, GenFnKeeps DEF GenFn, Generating, At
<1>14. CASE GenTest
  BY <1>1, <1>2, <1>4, <1>14, GenTestKeeps DEF GenTest, Generating, At
<1>15. CASE GenEnd
  BY <1>1, <1>2, <1>4, <1>15, GenEndKeeps DEF GenEnd, Generating, At
<1> QED
  BY <1>1, <1>3, <1>5, <1>6, <1>7, <1>8, <1>9, <1>10, <1>11, <1>12, <1>13, <1>14, <1>15
  DEF GenNext

-----------------------------------------------------------------------------
\* Whether the module is valid depends on its functions alone.
LEMMA ValidAtRest == ASSUME funcs' = funcs, IRValid PROVE IRValid'
<1>1. \A f, o : WellTyped(f, o) => WellTyped(f, o)'
  BY DEF WellTyped, TypesOf, ResultType
<1>2. \A v, f, i : Dominates(v, f, i) => Dominates(v, f, i)'
  BY DEF Dominates
<1>3. ASSUME NEW f \in DOMAIN funcs, NEW i \in DOMAIN funcs[f].ops, NEW o, o = funcs[f].ops[i],
             WellTyped(f, o)
      PROVE  WellTyped(f, funcs[f].ops[i])'
  BY <1>3 DEF WellTyped, TypesOf, ResultType
<1>4. SymbolsUnique' /\ \A f \in DOMAIN funcs : OneBlock(f)' /\ ReturnsLast(f)'
  BY DEF IRValid, SymbolsUnique, OneBlock, ReturnsLast
<1>5. \A f \in DOMAIN funcs :
         \A i \in DOMAIN funcs[f].ops : WellTyped(f, funcs[f].ops[i])'
  BY <1>3 DEF IRValid
<1>6. \A f \in DOMAIN funcs :
         \A i \in DOMAIN funcs[f].ops :
            \A v \in Range(funcs[f].ops[i].args) : Dominates(v, f, i)'
  BY <1>2 DEF IRValid
<1> QED BY <1>4, <1>5, <1>6, Zenon DEF IRValid

\* The shape of the tree is that of its nodes.
LEMMA ShapeAtRest == ASSUME UNCHANGED <<ast, path>>, Shaped PROVE Shaped'
BY DEF Shaped, ShapedNode, Nodes, Kid

\* A step that leaves tree, types and module alone, and leads to no pass that
\* works on them, keeps what it finds.
LEMMA SoundAtRest ==
    ASSUME TypeInv, SoundnessInv, UNCHANGED <<ast, path, ty, genVars>>,
           phase' # "check", phase' = "generate" => pos' = 0,
           phase' = "generate" /\ ~Gap => CheckedInv',
           phase' # "done" => why' = "none",
           why' \in InvalidModule => why' = why \/ Gap,
           phase' \in {"lower", "execute"} => phase \in {"lower", "execute"}
    PROVE  SoundnessInv'
<1>1. Shaped'
  BY ShapeAtRest DEF SoundnessInv
<1>2. Gap => Gap'
  BY GapStays
<1>3. ~Gap' => CheckedInv' /\ GeneratedInv'
  <2>1. GeneratedInv'
    BY DEF GeneratedInv
  <2>2. ASSUME ~Gap, phase' # "generate" PROVE CheckedInv'
    BY <2>2 DEF CheckedInv
  <2> QED BY <1>2, <2>1, <2>2, Zenon
<1>4. vals' = vals /\ funcs' = funcs
  BY DEF genVars
<1>5. TypesAgree'
  <2>1. ~Gap' => \A n \in DOMAIN vals :
           ast[n].k \in {"int", "ident", "bin", "call"} => vals[n].type = ty[n]
    BY <1>2 DEF SoundnessInv, TypesAgree
  <2> QED BY <1>4, <2>1 DEF TypesAgree
<1>6. AcceptedIsSound'
  <2>1. phase' \in {"lower", "execute"} /\ ~Gap' => IRValid'
    BY <1>2, <1>4, ValidAtRest DEF SoundnessInv, AcceptedIsSound
  <2>2. why' \in InvalidModule => Gap'
    BY <1>2 DEF SoundnessInv, AcceptedIsSound
  <2> QED BY <2>1, <2>2 DEF AcceptedIsSound
<1> QED BY <1>1, <1>3, <1>5, <1>6 DEF SoundnessInv

\* So does a step that does nothing.
LEMMA CheckedStutter ==
    ASSUME IInv, TypeInv, CheckedInv, UNCHANGED vars
    PROVE  CheckedInv'
<1>1. UNCHANGED <<ast, path, open, ty, symbol_types, function_signatures, phase, pos, has_errors>>
  BY DEF vars, parserVars, checkerVars, runVars
<1>2. CASE phase = "generate"
  BY <1>1, <1>2, CheckedAtRest
<1>3. CASE phase = "check" /\ pos > 0 /\ ~has_errors
  <2>1. TreeInv /\ WellScoped /\ \A n \in Nodes : OperandsPrecede(n)
    BY <1>3 DEF IInv, AcceptInv, TypeInv
  <2>2. /\ SignaturesKnown /\ SymbolsMirrorScope
        /\ DOMAIN function_signatures = NamesOf(TopLevelFns)
        /\ \A f \in NamesOf(TopLevelFns) : \E g \in TopLevelFns :
              ast[g].name = f /\ function_signatures[f] = FunctionSignature(g)
        /\ \A n \in Nodes : n < pos => CheckedNode(n)
    BY <1>3, Zenon DEF CheckedInv
  <2>3. Nodes' = Nodes /\ TopLevelFns' = TopLevelFns /\ PathAt(pos)' = PathAt(pos)
        /\ \A p, n : Scope(p, n)' = Scope(p, n)
    BY <1>1, TreeUnchanged DEF PathAt
  <2>4. \A n \in Nodes : n < pos => CheckedNode(n)'
    BY <1>1, <2>1, <2>2, CheckedKept
  <2>5. SignaturesKnown'
    BY <1>1, <2>2, <2>3 DEF SignaturesKnown
  <2>6. SymbolsMirrorScope'
    <3> SUFFICES ASSUME NEW p \in {<<>>, PathAt(pos)}, NEW x \in Scope(p, pos)
                 PROVE  x \in DOMAIN symbol_types' /\ symbol_types'[x] = TypeIn(x, p, pos)'
      <4>1. Scope(<<>>, pos)' = Scope(<<>>, pos) /\ Scope(PathAt(pos), pos)' = Scope(PathAt(pos), pos)
        BY <1>1, <2>3
      <4> QED BY <1>1, <2>3, <4>1 DEF SymbolsMirrorScope
    <3>1. TypeIn(x, p, pos)' = TypeIn(x, p, pos)
      BY <1>1, <2>1, TypeInKept
    <3> QED BY <1>1, <2>2, <3>1 DEF SymbolsMirrorScope
  <2>7. /\ NamesOf(TopLevelFns)' = NamesOf(TopLevelFns)
        /\ \A g : FunctionSignature(g)' = FunctionSignature(g)
    BY <1>1, <2>3 DEF NamesOf, FunctionSignature
  <2> QED BY <1>1, <1>3, <2>2, <2>3, <2>4, <2>5, <2>6, <2>7 DEF CheckedInv
<1>4. CASE phase # "generate" /\ ~(phase = "check" /\ pos > 0 /\ ~has_errors)
  BY <1>1, <1>4 DEF CheckedInv
<1> QED BY <1>2, <1>3, <1>4

LEMMA GeneratedStutter ==
    ASSUME IInv, GeneratedInv, UNCHANGED vars
    PROVE  GeneratedInv'
<1>1. UNCHANGED <<ast, path, open, ty, phase, pos, funcs, ip, frames, vals>>
  BY DEF vars, parserVars, checkerVars, genVars, runVars
<1>2. CASE phase = "generate" /\ pos > 0
  <2>1. DeclarationsInv /\ ValuesInv /\ OperationsInv /\ BodiesInv
    BY <1>2, Zenon DEF GeneratedInv
  <2>2. TopLevelFns' = TopLevelFns /\ PathAt(pos)' = PathAt(pos)
        /\ \A f : ParamList(f)' = ParamList(f)
    BY <1>1, TreeUnchanged DEF PathAt, ParamList
  <2>3. DeclarationsInv'
    BY <1>1, <2>1, <2>2 DEF DeclarationsInv, FnOf, Main
  <2>4. /\ \A f, o : WellTyped(f, o) => WellTyped(f, o)'
        /\ \A v, f, i : Dominates(v, f, i) => Dominates(v, f, i)'
    BY <1>1 DEF WellTyped, TypesOf, ResultType, Dominates
  <2>5. ValuesInv'
    <3> SUFFICES ASSUME NEW n \in DOMAIN vals, ast[n].k \in ValueKinds, NEW v, v = vals[n],
                        NEW f, f = FnOf(path[n]), NEW l, l = Len(funcs[f].ops) + 1
                 PROVE  vals[n].type = ty[n] /\ Dominates(v, f, l)'
      BY <1>1 DEF ValuesInv, FnOf, Main, Dominates
    <3>1. v.type = ty[n] /\ Dominates(v, f, l)
      BY <2>1 DEF ValuesInv
    <3> QED BY <2>4, <3>1
  <2>6. OperationsInv'
    <3>1. \A f \in DOMAIN funcs : \A i \in DOMAIN funcs[f].ops : Verified(f, i)'
      <4> SUFFICES ASSUME NEW f \in DOMAIN funcs, NEW i \in DOMAIN funcs[f].ops,
                          NEW o, o = funcs[f].ops[i]
                   PROVE  Verified(f, i)'
        OBVIOUS
      <4>1. Verified(f, i)
        BY <2>1 DEF OperationsInv
      <4>2. /\ WellTyped(f, o)' /\ o.block = 1 /\ (o.op = "return" => i = Len(funcs[f].ops))
            /\ \A v \in Range(o.args) : Dominates(v, f, i)'
        BY <2>4, <4>1 DEF Verified
      <4>3. WellTyped(f, funcs[f].ops[i])'
        BY <1>1, <4>2, SMTT(20) DEF WellTyped, TypesOf, ResultType
      <4> QED BY <1>1, <4>2, <4>3 DEF Verified
    <3> QED BY <1>1, <3>1 DEF OperationsInv
  <2>7. BodiesInv'
    BY <1>1, <2>1, <2>2 DEF BodiesInv, HasReturned, FnOf, Main
  <2> QED BY <2>3, <2>5, <2>6, <2>7 DEF GeneratedInv
<1>3. CASE ~(phase = "generate" /\ pos > 0)
  BY <1>1, <1>3 DEF GeneratedInv
<1> QED BY <1>2, <1>3

LEMMA SoundStutter ==
    ASSUME IInv, TypeInv, SoundnessInv, UNCHANGED vars
    PROVE  SoundnessInv'
<1>1. UNCHANGED <<ast, path, ty, vals, funcs, phase, why>>
  BY DEF vars, parserVars, checkerVars, genVars, runVars
<1>2. Gap => Gap'
  BY <1>1, GapStays
<1>3. Shaped' /\ (phase' # "done" => why' = "none")
  BY <1>1, ShapeAtRest DEF SoundnessInv
<1>4. ~Gap' => CheckedInv' /\ GeneratedInv'
  BY <1>2, CheckedStutter, GeneratedStutter DEF SoundnessInv
<1>5. TypesAgree'
  <2>1. ~Gap' => \A n \in DOMAIN vals :
           ast[n].k \in {"int", "ident", "bin", "call"} => vals[n].type = ty[n]
    BY <1>2 DEF SoundnessInv, TypesAgree
  <2> QED BY <1>1, <2>1 DEF TypesAgree
<1>6. AcceptedIsSound'
  BY <1>1, <1>2, ValidAtRest DEF SoundnessInv, AcceptedIsSound
<1> QED BY <1>3, <1>4, <1>5, <1>6 DEF SoundnessInv

-----------------------------------------------------------------------------
\* Every step of the compiler keeps SoundnessInv.
LEMMA StepSoundnessInv ==
    IInv /\ TypeInv /\ GeneratorInv /\ SoundnessInv /\ [Next]_vars => SoundnessInv'
<1> SUFFICES ASSUME IInv, TypeInv, GeneratorInv, SoundnessInv, [Next]_vars PROVE SoundnessInv'
  OBVIOUS
<1>1. IInv' /\ TypeInv'
  BY StepIInv, StepTypeInv
<1>2. CASE UNCHANGED vars
  BY <1>2, SoundStutter
<1>3. CASE Driver /\ UNCHANGED <<parserVars, resolverVars, checkerVars, genVars, argv, stack>>
  <2>1. /\ phase' \in {"done", "parse", "execute"}
        /\ phase' = "execute" => phase = "lower"
        /\ phase \in {"start", "lower", "execute"}
        /\ \/ why' = why /\ phase' # "done"
           \/ phase' = "done" /\ why' \in {"usage", "--emit-mlir", "--emit-llvm"}
           \/ phase' = "done" /\ why' = "lower" /\ phase = "lower" /\ ~IRValid
    BY <1>3 DEF Driver, Usage, Start, EmitMLIR, Lower, EmitLLVM, Stop, Enter
  <2>2. UNCHANGED <<ast, path, ty, genVars>>
    BY <1>3 DEF parserVars, checkerVars
  <2>3. why = "none" /\ (phase = "lower" /\ ~IRValid => Gap)
    BY <2>1 DEF SoundnessInv, AcceptedIsSound
  <2> QED BY <2>1, <2>2, <2>3, SoundAtRest DEF InvalidModule
<1>4. CASE ParserNext /\ UNCHANGED <<resolverVars, checkerVars, genVars, argv, stack>>
  <2>1. /\ phase = "parse" /\ phase' \in {"parse", "resolve", "done"}
        /\ \/ why' = why /\ phase' # "done"
           \/ phase' = "done" /\ why' \in {"parser", "std::stoi"}
    BY <1>4 DEF ParserNext, ParseLet, ParseReturn, ParseExpressionStmt, ParseFn, ParseTest,
       ParseTailExpression, ParseClose, ParseEof, ParseUnreadable, ParseSyntaxError,
       ParseHugeInteger, Reading, Stop, Enter, runVars
  <2>2. Shaped'
    BY <1>4, ParserKeepsShape DEF SoundnessInv
  <2>3. CheckedInv' /\ GeneratedInv'
    BY <2>1 DEF CheckedInv, GeneratedInv
  <2>4. TypesAgree'
    <3>1. vals' = <<>>
      BY <1>4, <2>1 DEF TypeInv, GenerateTypes, genVars
    <3>2. DOMAIN vals' = {}
      BY <3>1
    <3> QED BY <3>2 DEF TypesAgree
  <2>5. AcceptedIsSound'
    BY <2>1 DEF SoundnessInv, AcceptedIsSound, InvalidModule
  <2> QED BY <2>1, <2>2, <2>3, <2>4, <2>5 DEF SoundnessInv
<1>5. CASE ResolverNext /\ UNCHANGED <<parserVars, checkerVars, genVars, argv, stack>>
  <2>1. /\ phase = "resolve" /\ phase' \in {"resolve", "check", "done"}
        /\ \/ why' = why /\ phase' # "done"
           \/ phase' = "done" /\ why' = "resolver"
        /\ phase' = "check" => pos' = 0
    BY <1>5 DEF ResolverNext, ResolverBegin, ResolveChildren, ResolveIdentifier, ResolveCall,
       ResolveLet, ResolveBody, ResolveEnd, ResolverReturn, Resolving, Verdict, Stop, Enter,
       Step
  <2>2. UNCHANGED <<ast, path, ty, genVars>> /\ why = "none"
    BY <1>5, <2>1 DEF parserVars, checkerVars, SoundnessInv
  <2>3. CASE phase' # "check"
    BY <2>1, <2>2, <2>3, SoundAtRest DEF InvalidModule
  <2>4. CASE phase' = "check"
    <3>1. Shaped'
      BY <2>2, ShapeAtRest DEF SoundnessInv
    <3>2. CheckedInv' /\ GeneratedInv'
      BY <2>1, <2>4 DEF CheckedInv, GeneratedInv
    <3>3. TypesAgree'
      <4>1. vals' = <<>>
        BY <2>1, <2>2 DEF TypeInv, GenerateTypes, genVars
      <4>2. DOMAIN vals' = {}
        BY <4>1
      <4> QED BY <4>2 DEF TypesAgree
    <3>4. AcceptedIsSound' /\ why' = "none"
      BY <2>1, <2>4 DEF SoundnessInv, AcceptedIsSound, InvalidModule
    <3> QED BY <3>1, <3>2, <3>3, <3>4 DEF SoundnessInv
  <2> QED BY <2>3, <2>4
<1>6. CASE CheckerNext /\ UNCHANGED <<parserVars, resolverVars, genVars, argv, stack>>
  <2>1. /\ phase = "check" /\ phase' \in {"check", "generate", "done"}
        /\ \/ why' = why /\ phase' # "done"
           \/ phase' = "done" /\ why' \in {"checker", "return_type.top", "functions.at"}
        /\ phase' = "generate" => pos' = 0
        /\ ty' = ty \/ \E t : ty' = Append(ty, t)
    BY <1>6 DEF CheckerNext, CheckerBegin, CheckIntLiteral, CheckIdentifier,
       CheckBinaryOperator, CheckCall, CheckIntrinsicCall, CheckLet, CheckReturn,
       CheckModuleReturn, CheckFn, CheckNestedFn, CheckTest, CheckEnd, CheckerReturn,
       Checking, Infer, Verdict, Stop, Enter, Step, checkerVars
  <2>2. UNCHANGED <<ast, path, open, vals>>
    BY <1>6 DEF parserVars, genVars
  <2>3. Gap => Gap'
    BY <2>1, <2>2, GapStays
  <2>4. Shaped'
    BY <2>2, ShapeAtRest DEF SoundnessInv
  <2>5. ASSUME ~Gap' PROVE CheckedInv' /\ GeneratedInv'
    <3>1. CheckedInv'
      BY <1>6, <2>2, <2>3, <2>5, CheckerKeepsChecked DEF SoundnessInv
    <3>2. GeneratedInv'
      BY <2>1 DEF GeneratedInv
    <3> QED BY <3>1, <3>2
  <2>6. TypesAgree'
    <3>1. vals' = <<>>
      BY <2>1, <2>2 DEF TypeInv, GenerateTypes
    <3>2. DOMAIN vals' = {}
      BY <3>1
    <3> QED BY <3>2 DEF TypesAgree
  <2>7. AcceptedIsSound' /\ (phase' # "done" => why' = "none")
    BY <2>1 DEF SoundnessInv, AcceptedIsSound, InvalidModule
  <2> QED BY <2>4, <2>5, <2>6, <2>7 DEF SoundnessInv
<1>7. CASE /\ GenNext(run_tests)
           /\ UNCHANGED <<parserVars, resolverVars, checkerVars, argv, stack>>
  <2>1. UNCHANGED <<ast, path, open, ty>>
    BY <1>7 DEF parserVars, checkerVars
  <2>2. Shaped' /\ (Gap => Gap')
    BY <2>1, ShapeAtRest, GapStays DEF SoundnessInv
  <2>3. CASE ~Gap
    <3>1. /\ phase' \in {"generate", "lower"} /\ why' = "none"
          /\ CheckedInv' /\ GeneratedInv' /\ TypesAgree' /\ (phase' = "lower" => IRValid')
      BY <1>1, <1>7, <2>1, <2>3, GeneratorKeepsSound
    <3>2. AcceptedIsSound'
      BY <3>1 DEF AcceptedIsSound, InvalidModule
    <3> QED BY <2>2, <3>1, <3>2 DEF SoundnessInv
  <2>4. CASE Gap
    <3>1. phase' # "done" => why' = "none"
      <4>1. \/ why' = why
            \/ phase' = "done"
        BY <1>7 DEF GenNext, GenBegin, GenIntLiteral, GenIdentifier, GenBinaryOperator,
           GenCall, GenIntrinsicCall, GenLet, GenReturn, GenFn, GenTest, GenEnd, GenFinish,
           Create, EnterBody, Stop, Enter, Step
      <4>2. phase # "done"
        BY <1>7 DEF GenNext, GenBegin, GenIntLiteral, GenIdentifier, GenBinaryOperator,
           GenCall, GenIntrinsicCall, GenLet, GenReturn, GenFn, GenTest, GenEnd, GenFinish,
           Generating
      <4> QED BY <4>1, <4>2 DEF SoundnessInv
    <3>2. TypesAgree' /\ AcceptedIsSound'
      BY <2>2, <2>4, Zenon DEF TypesAgree, AcceptedIsSound
    <3> QED BY <2>2, <2>4, <3>1, <3>2 DEF SoundnessInv
  <2> QED BY <2>3, <2>4
<1>8. CASE Execute /\ UNCHANGED <<parserVars, resolverVars, checkerVars, genVars, argv>>
  <2>1. /\ phase \in {"execute", "run"}
        /\ \/ UNCHANGED runVars
           \/ Enter("run")
           \/ \E code :
                 \E reason \in {"jit", "ill-formed", "division", "abort", "stack", "returned"} :
                    Stop(code, reason)
           \/ phase = "execute" /\ ~IRValid /\ \E code : Stop(code, "invalid")
    BY <1>8 DEF Execute, ExecNext, JITFails, RunInvalid, Invoke, RunIllFormed, RunConstant,
                RunArith, RunUndefined, RunCompare, RunAssert, RunCall, RunReturn, RunEnd, Result, Running
  <2>2. /\ phase' \in {"execute", "run", "done"} /\ (phase' = "execute" => phase = "execute")
        /\ \/ why' = why /\ phase' # "done"
           \/ phase' = "done" /\ (why' \in InvalidModule => phase = "execute" /\ ~IRValid)
    BY <2>1 DEF runVars, Enter, Stop, InvalidModule
  <2>3. /\ UNCHANGED <<ast, path, ty, genVars>> /\ why = "none"
        /\ phase = "execute" /\ ~IRValid => Gap
    BY <1>8, <2>1 DEF parserVars, checkerVars, SoundnessInv, AcceptedIsSound
  <2> QED BY <2>2, <2>3, SoundAtRest
<1>9. CASE Ended /\ UNCHANGED <<parserVars, resolverVars, checkerVars, argv, stack>>
  <2>1. phase' = "done" /\ why' = why /\ UNCHANGED <<ast, path, ty, genVars>>
    BY <1>9 DEF Ended, runVars, parserVars, checkerVars
  <2> QED BY <2>1, SoundAtRest
<1> QED BY <1>2, <1>3, <1>4, <1>5, <1>6, <1>7, <1>8, <1>9, Zenon DEF Next

LEMMA InitSoundnessInv == Init => GeneratorInv /\ SoundnessInv
<1> SUFFICES ASSUME Init PROVE GeneratorInv /\ SoundnessInv
  OBVIOUS
<1>1. phase = "start" /\ why = "none" /\ vals = <<>> /\ ast = <<>>
  BY DEF Init, GenInit, ParserInit
<1>2. DOMAIN vals = {} /\ Nodes = {}
  BY <1>1 DEF Nodes
<1>3. GeneratorInv
  BY <1>1, <1>2 DEF GeneratorInv, LexicalValues, TestsRunInOrder
<1>4. Shaped /\ CheckedInv /\ GeneratedInv
  BY <1>1, <1>2 DEF Shaped, CheckedInv, GeneratedInv
<1>5. TypesAgree /\ AcceptedIsSound
  BY <1>1, <1>2 DEF TypesAgree, AcceptedIsSound, InvalidModule
<1> QED BY <1>1, <1>3, <1>4, <1>5 DEF SoundnessInv

\* For every source without a gap: the checker's types, the shape of the tree and
\* the module agree, at each step of the generator.
THEOREM Soundness == Spec => []SoundnessInv
<1>1. Init => IInv /\ TypeInv /\ GeneratorInv /\ SoundnessInv
  BY InitIInv, InitTypeInv, InitSoundnessInv
<1>2. IInv /\ TypeInv /\ GeneratorInv /\ SoundnessInv /\ [Next]_vars
         => (IInv /\ TypeInv /\ GeneratorInv /\ SoundnessInv)'
  BY StepIInv, StepTypeInv, StepGeneratorInv, StepSoundnessInv
<1> QED BY <1>1, <1>2, PTL DEF Spec

\* The type that the checker gave an expression is the type of the value that the
\* generator made for it, though each computes it on its own, from tables of its own.
THEOREM CheckerAndGeneratorAgree == Spec => []TypesAgree
<1>1. SoundnessInv => TypesAgree
  BY DEF SoundnessInv
<1> QED BY <1>1, Soundness, PTL

\* What resolver and checker accept becomes a module that MLIR's verifier accepts:
\* operands dominate their uses and have the types that operations ask for, and
\* every function has one block that ends with its only return.  Only a source with
\* one of the gaps that are listed can make generator or lowering fail.
THEOREM AcceptedSourcesAreSound == Spec => []AcceptedIsSound
<1>1. SoundnessInv => AcceptedIsSound
  BY DEF SoundnessInv
<1> QED BY <1>1, Soundness, PTL
=============================================================================
