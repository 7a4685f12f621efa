----------------------------- MODULE Precedence -----------------------------
(***************************************************************************)
(* Which texts are Forge expressions, and how their operators group, said   *)
(* without a parser: a text is cut into its longest lexemes, and the root   *)
(* of an expression is the last of its loosest operators that is not inside *)
(* parentheses.                                                             *)
(***************************************************************************)
EXTENDS Grammar

AllOperators == UNION {Range(Operators[level]) : level \in DOMAIN Operators}

\* The end of the longest lexeme at p: a word, a number, an operator or one
\* other character.
LexemeEnd(t, p) ==
    IF t[p] \in Letters THEN RunEnd(t, p, Letters \cup Digits)
    ELSE IF t[p] \in Digits THEN RunEnd(t, p, Digits)
    ELSE p + Max({1} \cup {Len(Spelling(o)) : o \in {o \in AllOperators : Has(t, p, Spelling(o))}})

\* The lexemes of t from p on, without blanks and comments.
RECURSIVE Lexemes(_, _)
Lexemes(t, p) ==
    LET q   == Skip(t, p)
        end == LexemeEnd(t, q)
    IN  IF q > Len(t) THEN <<>> ELSE <<SubSeq(t, q, end - 1)>> \o Lexemes(t, end)

\* How many parentheses are open before lexeme i.
Depth(w, i) ==
    Cardinality({j \in 1..i - 1 : w[j] = <<"(">>}) - Cardinality({j \in 1..i - 1 : w[j] = <<")">>})

Outside(w, set) == {i \in DOMAIN w : w[i] \in set /\ Depth(w, i) = 0}

IsWord(s)   == s[1] \in Letters /\ s \notin {<<k>> : k \in Keywords}
IsNumber(s) == s[1] \in Digits
Spelled(s)  == FoldLeft(LAMBDA n, c : n \o c, "", s)

\* The pieces of w between the commas at no depth.
Pieces(w) ==
    LET cuts == SetToSortSeq({0, Len(w) + 1} \cup Outside(w, {<<",">>}), <)
    IN  IF w = <<>> THEN <<>>
        ELSE [i \in 1..Len(cuts) - 1 |-> SubSeq(w, cuts[i] + 1, cuts[i + 1] - 1)]

\* No tree: w is not an expression.
None == <<>>

\* The nodes of a call of f with arguments `trees`, where `before` is a callee
\* that is not a name.
CallTree(node, trees) ==
    Append(FlattenSeq(trees),
           [node EXCEPT !.kids =
               [i \in DOMAIN trees |-> 1 + Len(FlattenSeq(SubSeq(trees, i + 1, Len(trees))))]])

RECURSIVE TreeOf(_)

\* w is a call: its last lexeme closes the parenthesis at `open`.
CallOf(w, open) ==
    LET callee == SubSeq(w, 1, open - 1)
        trees  == [i \in DOMAIN Pieces(SubSeq(w, open + 1, Len(w) - 1)) |->
                      TreeOf(Pieces(SubSeq(w, open + 1, Len(w) - 1))[i])]
        tree   == TreeOf(callee)
        named  == Len(tree) = 1 /\ tree[1].k = "ident"
    IN  IF None \in Range(trees) THEN None
        ELSE IF callee[1] = <<"@">> /\ Len(callee) = 2 /\ IsWord(callee[2])
          THEN CallTree(IntrinsicCall(Spelled(callee[2]), <<>>), trees)
        ELSE IF tree = None THEN None
        ELSE IF named THEN CallTree(Call(tree[1].name, <<>>), trees)
        ELSE tree \o CallTree(Call(Indirect, <<>>), trees)

\* The tree of the lexemes w.  A comparison is not one of another's operands.
TreeOf(w) ==
    LET levels == {l \in DOMAIN Operators : Outside(w, {Spelling(o) : o \in Range(Operators[l])}) # {}}
        ops    == Outside(w, {Spelling(o) : o \in Range(Operators[Min(levels)])})
        root   == Max(ops)
        o      == CHOOSE o \in AllOperators : Spelling(o) = w[root]
        lhs    == TreeOf(SubSeq(w, 1, root - 1))
        rhs    == TreeOf(SubSeq(w, root + 1, Len(w)))
        opens  == Outside(w, {<<"(">>})
    IN  CASE w = <<>> -> None
          [] w # <<>> /\ levels # {} ->
                IF lhs = None \/ rhs = None \/ (Min(levels) = 1 /\ Cardinality(ops) > 1)
                  THEN None ELSE lhs \o rhs \o <<BinaryOperator(o, Len(rhs) + 1, 1)>>
          [] levels = {} /\ Len(w) = 1 ->
                IF IsNumber(w[1]) THEN <<IntLiteral(Decimal(w[1]))>>
                ELSE IF IsWord(w[1]) THEN <<Identifier(Spelled(w[1]))>> ELSE None
          [] levels = {} /\ Len(w) > 1 ->
                IF Last(w) # <<")">> \/ opens = {} THEN None
                ELSE IF Max(opens) = 1 THEN TreeOf(SubSeq(w, 2, Len(w) - 1))
                ELSE CallOf(w, Max(opens))

\* The statements of lexemes w: what lies between its semicolons, all of which
\* end a statement.
Ended(e, node) == IF e = None THEN None ELSE Append(e, node)

StatementTree(w) ==
    LET first    == IF w = <<>> THEN <<>> ELSE w[1]
        isTyped  == Len(w) >= 4 /\ w[3] = <<":">>
        equals   == IF isTyped THEN 5 ELSE 3
        type     == IF isTyped THEN w[4] ELSE <<NoAnnotation>>
        isHeader == /\ Len(w) >= equals /\ w[equals] = <<"=">> /\ IsWord(w[2])
                    /\ isTyped => IsWord(type)
    IN  IF first = <<Return>> THEN Ended(TreeOf(Tail(w)), ReturnStmt(TRUE))
        ELSE IF first # <<Let>> THEN TreeOf(w)
        ELSE IF ~isHeader THEN None
        ELSE Ended(TreeOf(SubSeq(w, equals + 1, Len(w))),
                   LetBinding([name |-> Spelled(w[2]), type |-> Spelled(type)]))

StatementTrees(w) ==
    LET ends == SetToSortSeq({0} \cup {i \in DOMAIN w : w[i] = <<";">>}, <)
    IN  [i \in 1..Len(ends) - 1 |-> StatementTree(SubSeq(w, ends[i] + 1, ends[i + 1] - 1))]

IsModule(t) ==
    LET w == Lexemes(t, 1)
    IN  (w = <<>> \/ Last(w) = <<";">>) /\ None \notin Range(StatementTrees(w))

\* A word that starts with a keyword, where a statement starts: `returned`.
KeywordPrefix(t) ==
    LET w == Lexemes(t, 1)
    IN  \E i \in DOMAIN w : /\ w[i][1] \in Keywords /\ IsWord(w[i])
                            /\ i = 1 \/ w[i - 1] = <<";">>
=============================================================================
