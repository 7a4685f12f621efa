------------------------------- MODULE Parser -------------------------------
(***************************************************************************)
(* Parser::parse and convert_stmt (lib/Frontend/Parser.cpp): the source     *)
(* text is the environment's choice, and one action adds to the tree what   *)
(* convert_stmt builds for one production of the grammar.                   *)
(***************************************************************************)
EXTENDS ForgeAST

VARIABLES
    open,  \* the declarations whose block is being read, outermost first
    tail   \* the block has had its trailing expression: only '}' may follow

parserVars == <<ast, path, open, tail>>

ParserInit == ast = <<>> /\ path = <<>> /\ open = <<>> /\ tail = FALSE

\* Mutant of Put: a production counts as one node.
PutAsOne(nodes) ==
    /\ Len(ast) + Len(nodes) <= MaxNodes
    /\ ast' = ast \o nodes
    /\ path' = Append(path, open)

\* Nodes joined to the tree, in the block being read.
Put(nodes) ==
    /\ Len(ast) + Len(nodes) <= MaxNodes
    /\ ast' = ast \o nodes
    /\ path' = path \o [i \in 1..Len(nodes) |-> open]

InFn == open # <<>> /\ ast[Last(open)].k = "fn"

\* The parser stands where the grammar allows a statement.
Reading == phase = "parse" /\ ~tail

-----------------------------------------------------------------------------
ParseLet ==
    /\ Reading
    /\ \E e \in Expressions, b \in Bindings : Put(Append(e, LetBinding(b)))
    /\ UNCHANGED <<runVars, open, tail>>

ParseReturn ==
    /\ Reading
    /\ \E e \in Expressions : Put(Append(e, ReturnStmt(TRUE)))
    /\ UNCHANGED <<runVars, open, tail>>

\* expression_stmt <- expression ';'  adds no node of its own.
ParseExpressionStmt ==
    /\ Reading
    /\ \E e \in Expressions : Put(e)
    /\ UNCHANGED <<runVars, open, tail>>

\* fn_definition may also stand in a block, test_definition may not.
ParseFn ==
    /\ Reading
    /\ Len(open) < MaxNesting
    /\ \E s \in Signatures : Put(<<FunctionDecl(s)>>)
    /\ open' = Append(open, Len(ast) + 1)
    /\ UNCHANGED <<runVars, tail>>

ParseTest ==
    /\ Reading
    /\ open = <<>>
    /\ Put(<<TestDecl>>)
    /\ open' = <<Len(ast) + 1>>
    /\ UNCHANGED <<runVars, tail>>

\* block <- '{' stmt* expression? '}' : the tail of a function is returned,
\* the tail of a test is a statement.
ParseTailExpression ==
    /\ Reading
    /\ open # <<>>
    /\ \E e \in Expressions : Put(IF InFn THEN Append(e, ReturnStmt(TRUE)) ELSE e)
    /\ tail' = TRUE
    /\ UNCHANGED <<runVars, open>>

\* '}' : a function body whose last statement is not a return gets one.
ParseClose ==
    /\ phase = "parse"
    /\ open # <<>>
    /\ Put(IF InFn /\ ast[Len(ast)].k # "return"
             THEN <<ReturnStmt(FALSE), End>>
             ELSE <<End>>)
    /\ open' = Front(open)
    /\ tail' = FALSE
    /\ UNCHANGED runVars

ParseEof ==
    /\ phase = "parse"
    /\ open = <<>>
    /\ Enter("resolve")
    /\ UNCHANGED parserVars

\* The file cannot be opened, and nothing was read: no diagnostic.
ParseUnreadable ==
    /\ phase = "parse"
    /\ ast = <<>>
    /\ Stop("failure", "parser")
    /\ UNCHANGED parserVars

\* peg.parse_n fails; its logger reports through the emitter.
ParseSyntaxError ==
    /\ phase = "parse"
    /\ phase' = "done"
    /\ exit' = "failure"
    /\ why' = "parser"
    /\ has_errors' = TRUE
    /\ UNCHANGED <<parserVars, pos>>

\* std::stoi throws on a literal beyond int, and nothing catches it.
ParseHugeInteger ==
    /\ Reading
    /\ Stop("crash", "std::stoi")
    /\ UNCHANGED parserVars

ParserNext ==
    \/ ParseLet
    \/ ParseReturn
    \/ ParseExpressionStmt
    \/ ParseFn
    \/ ParseTest
    \/ ParseTailExpression
    \/ ParseClose
    \/ ParseEof
    \/ ParseUnreadable
    \/ ParseSyntaxError
    \/ ParseHugeInteger
=============================================================================
