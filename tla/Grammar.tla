------------------------------ MODULE Grammar ------------------------------
(***************************************************************************)
(* The expressions of kGrammar (include/forge/Frontend/Parser.h) and        *)
(* convert() (lib/Frontend/Parser.cpp): from characters to flattened nodes  *)
(* and the source range of each.  Parsing is by ordered choice, as in       *)
(* peglib: an alternative or an option that fails is given up, and what was *)
(* read for it is read again.                                              *)
(*                                                                         *)
(* A rule read from position p of t gives the position after it, which is   *)
(* after the whitespace that follows, and the nodes and their ranges; a     *)
(* rule that fails gives position 0.                                        *)
(***************************************************************************)
EXTENDS ForgeNodes

CONSTANT IntMax  \* bound: INT_MAX, scaled down

ASSUME IntMaxAssumption == IntMax \in Nat

Digits     == {"0", "1", "2", "3", "4", "5", "6", "7", "8", "9"}
Letters    == {"a", "l", "r", "x"}
Whitespace == {" ", "\t", "\r", "\n"}

\* The keywords, each one letter long.
Let      == "l"
Return   == "r"
Keywords == {Let, Return}

\* add_op, mul_op and cmp_op, lowest precedence first; in a row, the choices
\* in their order.
Operators == <<<<"==", "!=", "<=", ">=", "<", ">">>, <<"+", "-">>, <<"*", "/">>>>

Spelling(o) ==
    CASE o = "==" -> <<"=", "=">>
      [] o = "!=" -> <<"!", "=">>
      [] o = "<=" -> <<"<", "=">>
      [] o = ">=" -> <<">", "=">>
      [] OTHER    -> <<o>>

Fail  == [next |-> 0, nodes |-> <<>>, locs |-> <<>>]
Ok(r) == r.next # 0

-----------------------------------------------------------------------------
\* Whether t has the characters s at p, and the end of the longest run of
\* characters of `set` from p on.
Has(t, p, s)      == p + Len(s) - 1 <= Len(t) /\ SubSeq(t, p, p + Len(s) - 1) = s
RunEnd(t, p, set) == Min({q \in p..Len(t) + 1 : q = Len(t) + 1 \/ t[q] \notin set})

\* %whitespace <- ([ \t\r\n] / '//' (!'\n' .)* '\n'?)*
RECURSIVE Skip(_, _)
Skip(t, p) ==
    LET q       == RunEnd(t, p, Whitespace)
        newline == Min({r \in q..Len(t) + 1 : r = Len(t) + 1 \/ t[r] = "\n"})
    IN  IF Has(t, q, <<"/", "/">>) THEN Skip(t, newline) ELSE q

\* A leaf of the tree read from p up to `end`.
Leaf(t, p, end, node) ==
    [next |-> Skip(t, end), nodes |-> <<node>>, locs |-> <<[start |-> p, stop |-> Skip(t, end)]>>]

\* A literal: what follows it in a word does not matter.
Literal(t, p, s) == IF p # 0 /\ Has(t, p, s) THEN [Fail EXCEPT !.next = Skip(t, p + Len(s))] ELSE Fail

Decimal(digits) ==
    FoldLeft(LAMBDA n, d : 10 * n + (CHOOSE v \in 0..9 : ToString(v) = d), 0, digits)

Integer(t, p) ==
    LET end == RunEnd(t, p, Digits)
    IN  IF p = 0 \/ end = p
          THEN Fail ELSE Leaf(t, p, end, IntLiteral(Decimal(SubSeq(t, p, end - 1))))

\* ident <- !keyword < [a-zA-Z_][a-zA-Z0-9_]* >
Ident(t, p) ==
    LET end  == RunEnd(t, p, Letters \cup Digits)
        name == FoldLeft(LAMBDA s, c : s \o c, "", SubSeq(t, p, end - 1))
    IN  IF p = 0 \/ end = p \/ t[p] \in Digits \/ name \in Keywords
          THEN Fail ELSE Leaf(t, p, end, Identifier(name))

\* An operator of row `level`; its node is not converted, but named.
ReadOperator(t, p, level) ==
    LET ops     == Operators[level]
        matches == {i \in DOMAIN ops : Has(t, p, Spelling(ops[i]))}
        o       == ops[Min(matches)]
    IN  IF matches = {} THEN [next |-> 0, op |-> ""]
                        ELSE [next |-> Skip(t, p + Len(Spelling(o))), op |-> o]

-----------------------------------------------------------------------------
\* What convert() makes of the parts: a BinaryOperator ranges from its first to
\* its last operand, a Call from its callee to its suffix.
Root(r) == Last(r.locs)

\* Mutant of Binary: the ends of the range are swapped.
BinaryBackwards(o, lhs, rhs) ==
    [next  |-> rhs.next,
     nodes |-> lhs.nodes \o rhs.nodes \o <<BinaryOperator(o, Len(rhs.nodes) + 1, 1)>>,
     locs  |-> lhs.locs \o rhs.locs \o <<[start |-> Root(rhs).stop, stop |-> Root(lhs).start]>>]

\* Mutant of Binary: the range ends where the right operand starts.
BinaryToOperand(o, lhs, rhs) ==
    [next  |-> rhs.next,
     nodes |-> lhs.nodes \o rhs.nodes \o <<BinaryOperator(o, Len(rhs.nodes) + 1, 1)>>,
     locs  |-> lhs.locs \o rhs.locs \o <<[start |-> Root(lhs).start, stop |-> Root(rhs).start]>>]

Binary(o, lhs, rhs) ==
    [next  |-> rhs.next,
     nodes |-> lhs.nodes \o rhs.nodes \o <<BinaryOperator(o, Len(rhs.nodes) + 1, 1)>>,
     locs  |-> lhs.locs \o rhs.locs \o <<[start |-> Root(lhs).start, stop |-> Root(rhs).stop]>>]

\* Arguments one after the other, and how far back each is from their parent.
ArgNodes(args) == FlattenSeq([i \in DOMAIN args |-> args[i].nodes])
ArgLocs(args)  == FlattenSeq([i \in DOMAIN args |-> args[i].locs])
Backs(args)    == [i \in DOMAIN args |-> 1 + Len(ArgNodes(SubSeq(args, i + 1, Len(args))))]

\* A callee that is an Identifier is part of the Call.  A suffix is its
\* arguments and the position after it.
CallOn(callee, suffix) ==
    LET direct == callee.nodes[1].k = "ident" /\ Len(callee.nodes) = 1
        before == IF direct THEN Fail ELSE callee
        name   == IF direct THEN callee.nodes[1].name ELSE Indirect
    IN  [next  |-> suffix.next,
         nodes |-> before.nodes \o ArgNodes(suffix.args) \o <<Call(name, Backs(suffix.args))>>,
         locs  |-> before.locs \o ArgLocs(suffix.args)
                       \o <<[start |-> Root(callee).start, stop |-> suffix.next]>>]

IntrinsicOn(p, name, suffix) ==
    [next  |-> suffix.next,
     nodes |-> ArgNodes(suffix.args) \o <<IntrinsicCall(name, Backs(suffix.args))>>,
     locs  |-> ArgLocs(suffix.args) \o <<[start |-> p, stop |-> suffix.next]>>]

\* Mutant of Grouped: from right to left.
GroupedRight(first, rest) ==
    LET operand(i) == IF i = 0 THEN first ELSE rest[i].rhs
    IN  FoldLeft(LAMBDA r, i : Binary(rest[i].op, operand(i - 1), r),
                 operand(Len(rest)), Reverse([i \in DOMAIN rest |-> i]))

\* A row of operands, all of one level: from left to right.
Grouped(first, rest) == FoldLeft(LAMBDA l, r : Binary(r.op, l, r.rhs), first, rest)

-----------------------------------------------------------------------------
\* What each rule reads at a position, from what they read further on.  The
\* chart of t has these for every position from the end of t backwards, as
\* many as are known; `rows` are the three levels of operators and postfix.
Nothing(p) ==
    [rows |-> <<Fail, Fail, Fail, Fail>>, operators |-> <<<<>>, <<>>, <<>>>>,
     commas |-> <<>>, suffixes |-> <<>>, stmts |-> <<>>, end |-> p]

At(t, chart, p)         == IF p = 0 THEN Nothing(0) ELSE chart[Len(t) + 2 - p]
Expression(t, chart, p) == At(t, chart, p).rows[1]

\* X then S, if X could be read.
More(ok, x, s) == IF ok THEN <<x>> \o s ELSE <<>>

\* The rest of a row: (op operand)*
RestAfter(t, chart, o, rhs, level) ==
    More(o.next # 0 /\ Ok(rhs), [op |-> o.op, rhs |-> rhs],
         At(t, chart, rhs.next).operators[level])

RestFrom(t, chart, o, level) ==
    RestAfter(t, chart, o, At(t, chart, o.next).rows[level + 1], level)

Rest(t, chart, p, level) == RestFrom(t, chart, ReadOperator(t, p, level), level)

\* (',' expression)*
CommasAfter(t, chart, e) == More(Ok(e), e, At(t, chart, e.next).commas)

Commas(t, chart, p) ==
    CommasAfter(t, chart, Expression(t, chart, Literal(t, p, <<",">>).next))

\* call_suffix <- '(' arg_list? ')', and a row of them.
Closed(t, args, p) ==
    [args |-> args, next |-> Literal(t, IF args = <<>> THEN p ELSE Last(args).next, <<")">>).next]

Suffix(t, chart, opening) ==
    Closed(t, CommasAfter(t, chart, Expression(t, chart, opening.next)), opening.next)

SuffixesAfter(t, chart, s) == More(Ok(s), s, At(t, chart, s.next).suffixes)

CallSuffixes(t, chart, p) == SuffixesAfter(t, chart, Suffix(t, chart, Literal(t, p, <<"(">>)))

\* intrinsic_call <- '@' ident '(' arg_list? ')'
IntrinsicNamed(t, chart, p, name) ==
    IF At(t, chart, name.next).suffixes = <<>> THEN Fail
    ELSE IntrinsicOn(p, name.nodes[1].name, Head(At(t, chart, name.next).suffixes))

Intrinsic(t, chart, p) ==
    IntrinsicNamed(t, chart, p, Ident(t, Literal(t, p, <<"@">>).next))

\* '(' expression ')'
ClosedAfter(t, e) == [e EXCEPT !.next = Literal(t, e.next, <<")">>).next]

Parenthesized(t, chart, p) ==
    ClosedAfter(t, Expression(t, chart, Literal(t, p, <<"(">>).next))

Choice(r, alternative) == IF Ok(r) THEN r ELSE alternative

Primary(t, chart, p) ==
    Choice(Intrinsic(t, chart, p),
           Choice(Parenthesized(t, chart, p), Choice(Integer(t, p), Ident(t, p))))

\* postfix <- primary call_suffix*
Postfix(t, chart, e) == FoldLeft(CallOn, e, At(t, chart, e.next).suffixes)

\* The operators that follow; of comparisons, one.
RestOf(t, chart, p, level) ==
    LET rest == At(t, chart, p).operators[level]
    IN  IF level = 1 THEN SubSeq(rest, 1, Min({1, Len(rest)})) ELSE rest

Row(t, chart, first, level) == Grouped(first, RestOf(t, chart, first.next, level))

Rows(t, chart, p) ==
    FoldLeft(LAMBDA rows, level : <<Row(t, chart, Head(rows), level)>> \o rows,
             <<Postfix(t, chart, Primary(t, chart, p))>>, <<3, 2, 1>>)

-----------------------------------------------------------------------------
\* expression_stmt <- expression ';' and what ends with it.
ExpressionStatement(t, e) == [e EXCEPT !.next = Literal(t, e.next, <<";">>).next]

StatementOf(p, e, node) ==
    IF Ok(e) THEN [next  |-> e.next,
                   nodes |-> Append(e.nodes, node),
                   locs  |-> Append(e.locs, [start |-> p, stop |-> e.next])]
             ELSE Fail

ReturnStatement(t, chart, p) ==
    StatementOf(p, ExpressionStatement(t, Expression(t, chart, Literal(t, p, <<Return>>).next)),
                ReturnStmt(TRUE))

\* let_binding <- 'let' ident (':' ident)? '=' expression ';'
LetBound(t, chart, p, equals, name, type) ==
    StatementOf(p, ExpressionStatement(t, Expression(t, chart, Literal(t, equals, <<"=">>).next)),
                LetBinding([name |-> name, type |-> type]))

LetTyped(t, chart, p, name, type) ==
    IF Ok(type) THEN LetBound(t, chart, p, type.next, name, type.nodes[1].name) ELSE Fail

LetNamed(t, chart, p, x) ==
    IF ~Ok(x) THEN Fail
    ELSE Choice(LetTyped(t, chart, p, x.nodes[1].name, Ident(t, Literal(t, x.next, <<":">>).next)),
                LetBound(t, chart, p, x.next, x.nodes[1].name, NoAnnotation))

LetStatement(t, chart, p) == LetNamed(t, chart, p, Ident(t, Literal(t, p, <<Let>>).next))

Statement(t, chart, p, e) ==
    Choice(LetStatement(t, chart, p),
           Choice(ReturnStatement(t, chart, p), ExpressionStatement(t, e)))

-----------------------------------------------------------------------------
\* The entry of position p, and the chart of t.
EntryWith(t, chart, p, rows, s) ==
    [rows      |-> rows,
     operators |-> <<Rest(t, chart, p, 1), Rest(t, chart, p, 2), Rest(t, chart, p, 3)>>,
     commas    |-> Commas(t, chart, p),
     suffixes  |-> CallSuffixes(t, chart, p),
     stmts     |-> More(Ok(s), s, At(t, chart, s.next).stmts),
     end       |-> IF Ok(s) THEN At(t, chart, s.next).end ELSE p]

EntryOf(t, chart, p, rows) == EntryWith(t, chart, p, rows, Statement(t, chart, p, rows[1]))

Extended(t, chart, p) == Append(chart, EntryOf(t, chart, p, Rows(t, chart, p)))

Chart(t) ==
    FoldLeft(LAMBDA chart, p : Extended(t, chart, p), <<Nothing(Len(t) + 1)>>,
             [i \in 1..Len(t) |-> Len(t) + 1 - i])

\* A module of statements, and where it ends; the text is accepted if that is
\* all of it.
Parsed(t)      == At(t, Chart(t), Skip(t, 1))
Accepted(t, m) == m.end = Len(t) + 1

\* Mutant of Huge: a literal that is too large is converted to some int.
HugeUnchecked(m) == FALSE

\* std::stoi throws.
Huge(m) == \E s \in Range(m.stmts) : \E n \in Range(s.nodes) : n.k = "int" /\ n.value > IntMax
=============================================================================
