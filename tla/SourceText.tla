----------------------------- MODULE SourceText -----------------------------
(***************************************************************************)
(* Parser::parse (lib/Frontend/Parser.cpp) on the characters of a file:     *)
(* acceptance, the tree with its source ranges, the position at which a     *)
(* syntax error is reported, and the diagnostics that later passes report   *)
(* at the nodes of the tree.                                                *)
(***************************************************************************)
EXTENDS Emitter, Precedence

CONSTANTS
    Following(_),  \* the lexemes that may be written after a text
    Ending(_),     \* those that may be written last
    MaxReports     \* bound: how many diagnostics later passes report

ASSUME ReportAssumption == MaxReports \in Nat

VARIABLES
    stage,  \* "edit" and "parse", then "tree", "failed" or "crashed"
    stmts   \* the tree: the statements of the module, with their ranges

textVars == <<emitterVars, stage, stmts>>

TextInit == EmitterInit /\ text = <<>> /\ stage = "edit" /\ stmts = <<>>

\* peglib's line and column of position p, 1-based; a line ends with a newline.
PegColumn(p) == p - Max({0} \cup {q \in 1..p - 1 : text[q] = "\n"})

\* Mutant of Logged: a position past the end is not clamped.
LoggedUnclamped(loc) == loc

\* The position the logger uses for the one SourceMgr found: past the end, or
\* where it found none, the last character.
Logged(loc) == IF Len(text) > 0 /\ (loc = NoLoc \/ loc > Len(text)) THEN Len(text) ELSE loc

-----------------------------------------------------------------------------
\* The file is written, lexeme by lexeme, and given to the compiler.
Write ==
    /\ stage = "edit"
    /\ \E l \in Following(text) : text' = text \o l
    /\ UNCHANGED <<error_count, reports, stage, stmts>>

Save ==
    /\ stage = "edit"
    /\ \E l \in Ending(text) : text' = text \o l
    /\ stage' = "parse"
    /\ UNCHANGED <<error_count, reports, stmts>>

\* What PEG parsing read, m, is all of the text.
ParseTree(m) ==
    /\ Accepted(text, m) /\ ~Huge(m)
    /\ stmts' = m.stmts
    /\ stage' = "tree"
    /\ UNCHANGED emitterVars

ParseHuge(m) ==
    /\ Accepted(text, m) /\ Huge(m)
    /\ stage' = "crashed"
    /\ UNCHANGED <<emitterVars, stmts>>

\* peglib calls the logger with the line and column of a position of its
\* choice, at most the end of the text.
ParseError(m) ==
    /\ ~Accepted(text, m)
    /\ \E p \in 1..Len(text) + 1 :
           LET loc == Logged(FindLoc(Line(p), PegColumn(p)))
               end == Min({loc + 1, Len(text) + 1})
           IN  IF loc = NoLoc THEN UNCHANGED emitterVars
                              ELSE Error([start |-> loc, stop |-> end])
    /\ stage' = "failed"
    /\ UNCHANGED stmts

Parse ==
    /\ stage = "parse"
    /\ \E m \in {Parsed(text)} : ParseTree(m) \/ ParseHuge(m) \/ ParseError(m)

\* A later pass reports a diagnostic at a node.
ReportNode ==
    /\ stage = "tree"
    /\ error_count < MaxReports
    /\ \E i \in DOMAIN stmts : \E n \in DOMAIN stmts[i].locs : Error(stmts[i].locs[n])
    /\ UNCHANGED <<stage, stmts>>

TextNext == Write \/ Save \/ Parse \/ ReportNode

TextSpec == TextInit /\ [][TextNext]_textVars

-----------------------------------------------------------------------------
\* Precedence, associativity and parentheses, and the order of operands and of
\* arguments, survive the grammar's climb and convert()'s walk: a text is
\* accepted if and only if it is a row of statements, and its nodes are those
\* of the reference.  Not so where a statement starts with a word that starts
\* with a keyword: the literals of the grammar do not end words.
TreeFollowsPrecedence ==
    stage \in {"failed", "tree", "crashed"} /\ ~KeywordPrefix(text) =>
        /\ stage = "failed" => ~IsModule(text)
        /\ stage \in {"tree", "crashed"} => IsModule(text)
        /\ stage = "tree" =>
              [i \in DOMAIN stmts |-> stmts[i].nodes] = StatementTrees(Lexemes(text, 1))

\* The expressions of an accepted text are what Parser.tla takes them for, and
\* of the width of an int.
ExpressionsOf(s) == IF Last(s.nodes).k \in {"let", "return"} THEN Front(s.nodes) ELSE s.nodes

TreesAreWellFormed ==
    \A i \in DOMAIN stmts :
        LET e == ExpressionsOf(stmts[i])
        IN  /\ WellFormed(e)
            /\ \A n \in DOMAIN e : e[n].k = "int" => e[n].value <= IntMax
            /\ Len(stmts[i].locs) = Len(stmts[i].nodes)

\* The range of a node holds those of its children, one after the other.
RangesNest ==
    \A i \in DOMAIN stmts : \A n \in DOMAIN stmts[i].nodes :
        LET node == stmts[i].nodes[n]
            loc  == stmts[i].locs
            kid(j) == loc[n - node.kids[j]]
        IN  "kids" \in DOMAIN node =>
                \A j \in DOMAIN node.kids :
                    /\ loc[n].start <= kid(j).start /\ kid(j).stop <= loc[n].stop
                    /\ j > 1 => kid(j - 1).stop <= kid(j).start

-----------------------------------------------------------------------------
\* Where a reader of the file sees character p, and what a span underlines.
Cell(p) == <<Cardinality({q \in 1..p - 1 : text[q] = "\n"}), PegColumn(p) - 1>>

Underlined(span) == {<<span.line, c>> : c \in span.column..span.endColumn - 1}

\* A carriage return inside a line: columns are counted from it.
LoneReturn == \E p \in DOMAIN text : text[p] = "\r" /\ (p = Len(text) \/ text[p + 1] # "\n")

\* A diagnostic of a node underlines the node's first character and nothing
\* outside the node, whatever lines the node spans and where it ends.
DiagnosticsUnderlineNodes ==
    stage = "tree" /\ ~LoneReturn =>
        \A i \in DOMAIN reports :
            LET r == reports[i].range
            IN  /\ Cell(r.start) \in Underlined(reports[i].span)
                /\ Underlined(reports[i].span) \subseteq {Cell(p) : p \in r.start..r.stop - 1}

\* A text that is rejected is reported, and at a character of the file, also
\* where the file ends too early.
SyntaxErrorsAreReported ==
    /\ stage = "failed" => reports # <<>>
    /\ stage = "failed" /\ ~LoneReturn =>
           \A i \in DOMAIN reports : \E p \in DOMAIN text : Underlined(reports[i].span) = {Cell(p)}

\* The parser reports through the emitter only, and valid ranges only, which
\* make_span asserts.
UsesEmitter == EmitterSpec

\* assert_mlir.fg:4-5, the message of an assertion is "synthesized from the
\* predicate's source text": the text from which it is cut reads as the
\* predicate.
MessageIsPredicate ==
    \A s \in Range(stmts) : \A n \in DOMAIN s.nodes :
        s.nodes[n].k = "intrinsic" /\ Len(s.nodes[n].kids) = 1 =>
            LET loc     == s.locs[n - s.nodes[n].kids[1]]
                message == SubSeq(text, loc.start, loc.stop - 1)
                e       == Parsed(message).rows[1]
            IN  e.next = Len(message) + 1 /\ IsSuffix(e.nodes, SubSeq(s.nodes, 1, n - 1))
=============================================================================
