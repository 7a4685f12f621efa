------------------------------ MODULE Emitter ------------------------------
(***************************************************************************)
(* DiagnosticEmitter (lib/Diagnostics/Emitter.cpp) over one source buffer:  *)
(* which line and columns of the file a diagnostic underlines.  Rendering   *)
(* is a library's; it loops up to the end column minus 1, unsigned.         *)
(*                                                                         *)
(* A pointer into the buffer is a position of `text` from 1 to Len(text)+1, *)
(* and a range stops before `stop`.                                         *)
(***************************************************************************)
EXTENDS Integers, SequencesExt

VARIABLES
    text,         \* the source buffer: a sequence of characters
    error_count,
    reports       \* the ranges reported and the spans rendered, in order

emitterVars == <<text, error_count, reports>>

EmitterInit == error_count = 0 /\ reports = <<>>

\* A position before the first, and a range of no position, are not valid.
NoLoc  == 0
Ranges == {r \in [start : 1..Len(text) + 1, stop : 1..Len(text) + 1] : r.start <= r.stop}

-----------------------------------------------------------------------------
\* SourceMgr::getLineAndColumn, 1-based: a line ends with a newline, but a
\* column is counted from the last newline or carriage return.
Line(p)   == 1 + Cardinality({q \in 1..p - 1 : text[q] = "\n"})
Column(p) == Cardinality({q \in 1..p : \A r \in q..p - 1 : text[r] \notin {"\n", "\r"}})

\* SourceMgr::FindLocForLineAndColumn: no position if the line or the column is
\* not there, or a newline or carriage return is in the way.
FindLoc(line, column) ==
    LET starts == {p \in 1..Len(text) + 1 : Line(p) = line /\ (p = 1 \/ text[p - 1] = "\n")}
        start  == CHOOSE p \in starts : TRUE
        loc    == start + column - 1
    IN  IF /\ starts # {}
           /\ loc <= Len(text) + 1
           /\ \A p \in start..loc - 1 : text[p] \notin {"\n", "\r"}
          THEN loc ELSE NoLoc

\* A span of the file, 0-based; the end column is the one after the last.
Span(sl, sc, el, ec) ==
    [line |-> sl - 1, column |-> sc - 1, endLine |-> el - 1, endColumn |-> ec - 1]

\* Mutant of MakeSpan: only a range of several lines is collapsed.
MakeSpanOfWidth(range) ==
    LET sl == Line(range.start)
        sc == Column(range.start)
        el == Line(range.stop)
        ec == Column(range.stop)
    IN  IF sl # el THEN Span(sl, sc, sl, sc + 1) ELSE Span(sl, sc, el, ec)

\* Mutant of MakeSpan: the columns stay 1-based.
MakeSpanOneBased(range) ==
    LET sl == Line(range.start)
        sc == Column(range.start)
        el == Line(range.stop)
        ec == Column(range.stop)
    IN  IF sl # el \/ sc >= ec THEN Span(sl, sc + 1, sl, sc + 2)
                               ELSE Span(sl, sc + 1, el, ec + 1)

\* A range that ends on another line, or is empty, is collapsed to one column.
MakeSpan(range) ==
    LET sl == Line(range.start)
        sc == Column(range.start)
        el == Line(range.stop)
        ec == Column(range.stop)
    IN  IF sl # el \/ sc >= ec THEN Span(sl, sc, sl, sc + 1) ELSE Span(sl, sc, el, ec)

\* DiagnosticEmitter::error
Error(range) ==
    /\ error_count' = error_count + 1
    /\ reports' = Append(reports, [range |-> range, span |-> MakeSpan(range)])
    /\ UNCHANGED text

\* A buffer is loaded before anything is reported of it, and does not change.
Load == error_count = 0 /\ UNCHANGED <<error_count, reports>>

\* make_span asserts that a range is valid, which is up to the passes.
EmitterNext == Load \/ \E range \in Ranges : Error(range)

EmitterSpec == EmitterInit /\ [][EmitterNext]_emitterVars

-----------------------------------------------------------------------------
\* The renderer's loop over the columns of a label is safe: a span lies on one
\* line, starts at a column of it and is at least one column wide, so that the
\* end column minus 1 does not underflow.  make_span collapses the ranges that
\* would break this: empty ones, and those that end at the start of a line.
Renderable(span) ==
    /\ span.line \in Nat /\ span.column \in Nat
    /\ span.endLine = span.line
    /\ span.column < span.endColumn

SpansAreRenderable == \A i \in DOMAIN reports : Renderable(reports[i].span)
=============================================================================
