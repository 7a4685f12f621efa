--------------------------- MODULE EmitterProofs ---------------------------
(***************************************************************************)
(* Whatever the file and whatever ranges of it are reported, the renderer   *)
(* gets spans that it can render.                                           *)
(***************************************************************************)
EXTENDS Emitter, FiniteSetTheorems, TLAPS

\* A part of a finite range of positions has a size.
LEMMA PositionsAreFinite ==
    ASSUME NEW p \in Nat, NEW S, S \subseteq 1..p
    PROVE  IsFiniteSet(S) /\ Cardinality(S) \in Nat
<1>1. IsFiniteSet(1..p)
  BY FS_Interval
<1>2. IsFiniteSet(S)
  BY <1>1, FS_Subset
<1> QED
  BY <1>2, FS_CardinalityType

\* Lines and columns are counted from 1, as LLVM counts them: so that what is
\* left after the conversion to 0-based ones does not underflow.
LEMMA LinesAreCounted ==
    ASSUME NEW p \in Nat \ {0}
    PROVE  Line(p) \in Nat \ {0}
<1> DEFINE S == {q \in 1..p - 1 : text[q] = "\n"}
<1>1. p - 1 \in Nat /\ S \subseteq 1..p - 1
  OBVIOUS
<1>2. Cardinality(S) \in Nat
  BY <1>1, PositionsAreFinite
<1>3. Line(p) = 1 + Cardinality(S)
  BY DEF Line
<1> HIDE DEF S
<1> QED
  BY <1>2, <1>3

\* A column counts the position itself, so that none is 0.
LEMMA ColumnsAreCounted ==
    ASSUME NEW p \in Nat \ {0}
    PROVE  Column(p) \in Nat \ {0}
<1> DEFINE S == {q \in 1..p : \A r \in q..p - 1 : text[r] \notin {"\n", "\r"}}
<1>1. S \subseteq 1..p
  OBVIOUS
<1>2. p \in S
  OBVIOUS
<1>3. Column(p) = Cardinality(S)
  BY DEF Column
<1> HIDE DEF S
<1>4. IsFiniteSet(S) /\ Cardinality(S) \in Nat
  BY <1>1, PositionsAreFinite
<1>5. Cardinality(S) # 0
  BY <1>2, <1>4, FS_EmptySet
<1> QED
  BY <1>3, <1>4, <1>5

\* What is rendered is renderable.
Spans ==
    {s \in [line : Nat, column : Nat, endLine : Int, endColumn : Int] : Renderable(s)}

Report == [range : [start : Nat, stop : Nat], span : Spans]

EmitterInv == reports \in Seq(Report)

\* make_span, for any range of the buffer: also an empty one, one over several
\* lines and one that ends at the start of a line.
LEMMA MakeSpanIsRenderable ==
    ASSUME NEW range \in Ranges
    PROVE  MakeSpan(range) \in Spans
<1> DEFINE sl == Line(range.start)
           sc == Column(range.start)
           el == Line(range.stop)
           ec == Column(range.stop)
<1>1. range.start \in Nat \ {0} /\ range.stop \in Nat \ {0}
  BY DEF Ranges
<1>2. sl \in Nat \ {0} /\ sc \in Nat \ {0} /\ el \in Nat \ {0} /\ ec \in Nat \ {0}
  BY <1>1, LinesAreCounted, ColumnsAreCounted
<1>3. MakeSpan(range) = IF sl # el \/ sc >= ec THEN Span(sl, sc, sl, sc + 1)
                                              ELSE Span(sl, sc, el, ec)
  BY DEF MakeSpan
<1> HIDE DEF sl, sc, el, ec
<1>4. CASE sl # el \/ sc >= ec
  BY <1>2, <1>3, <1>4 DEF Span, Spans, Renderable
<1>5. CASE ~(sl # el \/ sc >= ec)
  BY <1>2, <1>3, <1>5 DEF Span, Spans, Renderable
<1> QED
  BY <1>4, <1>5

-----------------------------------------------------------------------------
\* An error appends one report, of a range that the caller has made sure is
\* one of the buffer.
LEMMA ErrorKeepsEmitterInv ==
    ASSUME EmitterInv, NEW range \in Ranges, Error(range)
    PROVE  EmitterInv'
<1> DEFINE r == [range |-> range, span |-> MakeSpan(range)]
<1>1. range \in [start : Nat, stop : Nat]
  BY DEF Ranges
<1>2. r \in Report
  BY <1>1, MakeSpanIsRenderable DEF Report
<1>3. reports' = Append(reports, r)
  BY DEF Error
<1> QED
  BY <1>2, <1>3 DEF EmitterInv

\* A list of such reports has only spans that can be rendered.
LEMMA EmitterInvImplies == EmitterInv => SpansAreRenderable
<1> SUFFICES ASSUME EmitterInv, NEW i \in DOMAIN reports
             PROVE  Renderable(reports[i].span)
  BY DEF SpansAreRenderable
<1>1. reports[i] \in Report
  BY DEF EmitterInv
<1>2. reports[i].span \in Spans
  BY <1>1 DEF Report
<1> QED
  BY <1>2 DEF Spans

\* The renderer's loop never underflows: every span that any sequence of
\* diagnostics hands to it lies on one line and is at least one column wide,
\* for every file and all valid ranges of it.  With UsesEmitter, which the run
\* source_text checks, this covers what the parser reports.
THEOREM Rendering == EmitterSpec => []SpansAreRenderable
<1>1. EmitterInit => EmitterInv
  BY DEF EmitterInit, EmitterInv
<1>2. EmitterInv /\ [EmitterNext]_emitterVars => EmitterInv'
  <2> SUFFICES ASSUME EmitterInv, [EmitterNext]_emitterVars
               PROVE  EmitterInv'
    OBVIOUS
  <2>1. CASE Load
    BY <2>1 DEF Load, EmitterInv
  <2>2. CASE \E range \in Ranges : Error(range)
    BY <2>2, ErrorKeepsEmitterInv
  <2>3. CASE UNCHANGED emitterVars
    BY <2>3 DEF emitterVars, EmitterInv
  <2> QED
    BY <2>1, <2>2, <2>3 DEF EmitterNext
<1> QED
  BY <1>1, <1>2, EmitterInvImplies, PTL DEF EmitterSpec
=============================================================================
