---------------------------- MODULE MCSourceText ----------------------------
(***************************************************************************)
(* Values for the constants of SourceText: every text of a few lexemes that *)
(* may begin a row of statements, the same with a blank or a comment put    *)
(* in, and what one lexeme too many makes of them.                          *)
(***************************************************************************)
EXTENDS SourceText

CONSTANTS
    MaxLength,  \* bound: the characters of a text
    MaxSpaced   \* bound: those of a text with a blank, or with a lexeme too many

Values   == {<<"1">>, <<"x">>}
Infixes  == {<<"-">>, <<"/">>, <<"<">>, <<"<", "=">>}
Openers  == {<<"(">>, <<"@", "a", "(">>}
Starters ==
    {<<"r">>, <<"r", "x">>, <<"1", "6">>, <<"l", "x", "=">>, <<"l", "\t", "x", "=">>,
     <<"l", "\t", "x", ":", "x", "=", "1">>}
Blanks   == {<<" ">>, <<"\n">>, <<"\r", "\n">>, <<"\r">>, <<"/", "/", "x", "\n">>}

Short(t) == Len(t) < MaxSpaced

\* The blanks end with one of these, which nothing else holds.
HasBlank(t) == \E p \in DOMAIN t : t[p] \in {" ", "\r", "\n"}

\* The character that was written last, but for blanks and comments.
LastVisible(t) == LET w == Lexemes(t, 1) IN IF w = <<>> THEN ";" ELSE Last(Last(w))

Opened(t) ==
    Cardinality({p \in DOMAIN t : t[p] = "("}) - Cardinality({p \in DOMAIN t : t[p] = ")"})

\* An operand, or what may follow one.
Lexicon(t) ==
    LET c == LastVisible(t)
    IN  CASE c = ";" -> Values \cup Openers \cup Starters
          [] c = "(" -> Values \cup Openers \cup {<<")">>}
          [] c \in {"-", "/", "<", "=", ",", "r", "l"} -> Values \cup Openers
          [] OTHER ->
                Infixes \cup (IF c \in Digits THEN {} ELSE {<<"(">>})
                    \cup (IF Opened(t) > 0 THEN {<<")">>, <<",">>} ELSE {<<";">>})

Lengthened(t) ==
    IF HasBlank(t) THEN IF Short(t) THEN Lexicon(t) ELSE {}
    ELSE (IF Len(t) < MaxLength THEN Lexicon(t) ELSE {}) \cup (IF Short(t) THEN Blanks ELSE {})

Misplaced(t) ==
    {<<>>, <<";">>} \cup IF Short(t) THEN {<<")">>, <<",">>, <<"-">>, <<"1">>, <<"=">>, <<"@">>} ELSE {}

-----------------------------------------------------------------------------
\* An assertion, and every text of a few lexemes as its predicate.
Asserted(t) ==
    IF t = <<>> THEN {<<"@", "a", "(">>}
    ELSE IF Len(t) < MaxLength THEN {<<"(">>, <<"1">>, <<"-">>, <<")">>, <<";">>} ELSE {}

Unchanged(t) == {<<>>}
=============================================================================
