---------------------------- MODULE ForgeProofs ----------------------------
(***************************************************************************)
(* What the front end's verdict is worth, whatever the program, the bounds  *)
(* and the command line.                                                   *)
(* First, the generator's lookups succeed: IInv is inductive.  One lemma    *)
(* says each component keeps it; each has a step for each of its actions.   *)
(* Second, name resolution is lexical scoping: the compiler, seen through   *)
(* its verdict on names, implements LexicalScoping, every step of it being  *)
(* a step of that specification or one that changes nothing it sees.        *)
(* Third, a diagnostic is fatal: only the parser, the resolver and the      *)
(* checker report, and none of them lets the command go on.                 *)
(***************************************************************************)
EXTENDS ScopingInvariant, SequenceTheorems, TLAPS

\* A step that leaves the tree alone leaves everything read off it alone.
LEMMA TreeUnchanged ==
    ASSUME UNCHANGED <<ast, path, open>>
    PROVE  /\ Nodes' = Nodes /\ TopLevelFns' = TopLevelFns
           /\ \A n : PathAt(n)' = PathAt(n)
           /\ \A p, n : Scope(p, n)' = Scope(p, n)
           /\ \A n : OuterScopes(n)' = OuterScopes(n)
           /\ \A n : WellScopedNode(n) <=> WellScopedNode(n)'
           /\ WellScoped <=> WellScoped'
           /\ \A n : CallableNode(n) <=> CallableNode(n)'
           /\ TreeInv => TreeInv'
<1>1. \A p, n : Scope(p, n)' = Scope(p, n)
  BY DEF Scope, ParamsOf, ParamNames, NamesOf, Lets, Nodes
<1>2. \A n : PathAt(n)' = PathAt(n)
  BY DEF PathAt, Nodes
<1>3. \A n : OuterScopes(n)' = OuterScopes(n)
  BY <1>1, <1>2 DEF OuterScopes, ScopeAt
<1>4. Nodes' = Nodes /\ TopLevelFns' = TopLevelFns
  BY DEF Nodes, TopLevelFns
<1>5. \A n : WellScopedNode(n) <=> WellScopedNode(n)'
  BY <1>1, <1>4 DEF WellScopedNode, ScopeAt, NamesOf
<1>6. WellScoped <=> WellScoped'
  BY <1>5, <1>4 DEF WellScoped
<1>7. \A n : CallableNode(n) <=> CallableNode(n)'
  BY DEF CallableNode
<1>8. ASSUME TreeInv PROVE TreeInv'
  <2>1. \A n : Nested(n) => Nested(n)'
    BY <1>2, <1>4 DEF Nested
  <2>2. \A n : PathAfter(n)' = PathAfter(n)
    BY DEF PathAfter
  <2>3. PathAt(1)' = <<>>
    BY <1>2, <1>8 DEF TreeInv
  <2>4. \A n \in Nodes' : PathAt(n + 1)' = PathAfter(n)'
    BY <1>2, <1>4, <1>8, <2>2 DEF TreeInv
  <2> QED BY <1>4, <1>8, <2>1, <2>3, <2>4 DEF TreeInv
<1> QED BY <1>1, <1>2, <1>3, <1>4, <1>5, <1>6, <1>7, <1>8

\* The `let`s that precede the next node.
LEMMA LetsStep ==
    ASSUME TreeInv, NEW n \in Nodes
    PROVE  /\ PathAt(n + 1) = PathAfter(n) /\ PathAt(n) = path[n] /\ PathAt(n) \in Seq(Nat)
           /\ \A p : Lets(p, n + 1) =
                  Lets(p, n) \cup (IF ast[n].k = "let" /\ path[n] = p THEN {n} ELSE {})
           /\ ast[n].k \in {"fn", "test"} => Lets(Append(PathAt(n), n), n + 1) = {}
           /\ ast[n].k = "end" =>
                LET d == Last(PathAt(n))
                    q == Front(PathAt(n))
                IN  /\ PathAt(n) # <<>>
                    /\ d \in Nodes /\ d < n /\ path[d] = q /\ ast[d].k \in {"fn", "test"}
                    /\ Lets(q, n + 1) = Lets(q, d)
<1> DEFINE p == PathAt(n)
<1>1. PathAt(n + 1) = PathAfter(n) /\ p = path[n] /\ p \in Seq(Nat) /\ n \in Nat /\ Nested(n)
      /\ Nested(n + 1)
  <2>1. n \in Nat /\ n \in 1..Len(ast) + 1 /\ n + 1 \in 1..Len(ast) + 1 /\ n \in 1..Len(path)
    BY DEF TreeInv, Nodes
  <2>2. p = path[n] /\ path[n] \in Seq(Nat)
    BY <2>1 DEF PathAt, TreeInv
  <2> QED BY <2>1, <2>2 DEF TreeInv
<1>2. \A q : Lets(q, n + 1) =
          Lets(q, n) \cup (IF ast[n].k = "let" /\ path[n] = q THEN {n} ELSE {})
  BY <1>1 DEF Lets, Nodes
<1>3. ASSUME ast[n].k \in {"fn", "test"} PROVE Lets(Append(p, n), n + 1) = {}
  <2> SUFFICES ASSUME NEW m \in Nodes, m < n + 1, path[m] = Append(p, n)
               PROVE  FALSE
    BY DEF Lets
  <2>1. PathAt(m) = Append(p, n)
    BY DEF PathAt
  <2>2. Nested(m)
    BY <1>1 DEF TreeInv, Nodes
  <2>3. Len(Append(p, n)) = Len(p) + 1 /\ Append(p, n)[Len(p) + 1] = n
    BY <1>1
  <2>4. Len(p) + 1 \in 1..Len(Append(p, n))
    BY <1>1, <2>3
  <2>5. n < m
    BY <2>1, <2>2, <2>3, <2>4 DEF Nested
  <2> QED BY <1>1, <2>5 DEF Nodes
<1>4. ASSUME ast[n].k = "end"
      PROVE  LET d == Last(p)
                 q == Front(p)
             IN  /\ p # <<>>
                 /\ d \in Nodes /\ d < n /\ path[d] = q /\ ast[d].k \in {"fn", "test"}
                 /\ Lets(q, n + 1) = Lets(q, d)
  <2> DEFINE d == p[Len(p)]
             q == Front(p)
  <2>1. p # <<>>
    BY <1>1, <1>4 DEF TreeInv
  <2>2. /\ d \in Nodes /\ d < n /\ path[d] = q /\ ast[d].k \in {"fn", "test"}
        /\ \A m \in Nodes : d < m /\ m < n => Len(path[m]) >= Len(p)
    <3>1. Len(p) \in 1..Len(p)
      BY <1>1, <2>1
    <3> QED BY <1>1, <3>1 DEF Nested, Front
  <2>3. Lets(q, n + 1) = Lets(q, d)
    <3>1. ASSUME NEW m \in Nodes, m < n + 1, path[m] = q, ast[m].k = "let"
          PROVE  m < d
      <4>1. Len(q) = Len(p) - 1
        BY <1>1, <2>1 DEF Front
      <4>2. m # n /\ m # d
        BY <1>4, <2>2, <3>1
      <4>3. m \in Nat /\ d \in Nat /\ m < n /\ Len(p) \in Nat /\ Len(path[m]) = Len(p) - 1
        BY <1>1, <2>2, <3>1, <4>1, <4>2 DEF Nodes
      <4>4. ~(d < m)
        BY <2>2, <3>1, <4>3
      <4> QED BY <4>2, <4>3, <4>4
    <3>2. d < n /\ d \in Nat /\ \A m \in Nodes : m \in Nat
      BY <2>2 DEF Nodes
    <3> HIDE DEF d, q
    <3>3. \A m \in Nodes : path[m] = q /\ ast[m].k = "let" => (m < n + 1 <=> m < d)
      BY <1>1, <3>1, <3>2
    <3> QED BY <3>3 DEF Lets
  <2> QED BY <2>1, <2>2, <2>3 DEF Last
<1> QED BY <1>1, <1>2, <1>3, <1>4

\* Scopes at the next node.
LEMMA ScopeStep ==
    ASSUME TreeInv, NEW n \in Nodes
    PROVE  /\ ast[n].k \notin {"let", "fn", "test", "end"} =>
                /\ PathAt(n + 1) = PathAt(n)
                /\ Scope(PathAt(n + 1), n + 1) = Scope(PathAt(n), n)
                /\ OuterScopes(n + 1) = OuterScopes(n)
           /\ ast[n].k = "let" =>
                /\ PathAt(n + 1) = PathAt(n)
                /\ Scope(PathAt(n + 1), n + 1) = Scope(PathAt(n), n) \cup {ast[n].name}
                /\ OuterScopes(n + 1) = OuterScopes(n)
           /\ ast[n].k \in {"fn", "test"} =>
                /\ PathAt(n + 1) = Append(PathAt(n), n)
                /\ Scope(PathAt(n + 1), n + 1) = ParamNames(n)
                /\ OuterScopes(n + 1) = Append(OuterScopes(n), Scope(PathAt(n), n))
           /\ ast[n].k = "end" =>
                /\ PathAt(n) # <<>> /\ PathAt(n + 1) = Front(PathAt(n))
                /\ Scope(PathAt(n + 1), n + 1) = OuterScopes(n)[Len(PathAt(n))]
                /\ OuterScopes(n + 1) = Front(OuterScopes(n))
<1> DEFINE p == PathAt(n)
<1>1. PathAt(n + 1) = PathAfter(n) /\ p = path[n] /\ p \in Seq(Nat)
  BY LetsStep
<1>2. CASE ast[n].k \notin {"fn", "test", "end"}
  <2>1. PathAt(n + 1) = p
    BY <1>1, <1>2 DEF PathAfter
  <2>2. OuterScopes(n + 1) = OuterScopes(n)
    BY <2>1 DEF OuterScopes
  <2>3. Lets(p, n + 1) = Lets(p, n) \cup (IF ast[n].k = "let" THEN {n} ELSE {})
    BY <1>1, LetsStep
  <2>4. Scope(p, n + 1) = Scope(p, n) \cup (IF ast[n].k = "let" THEN {ast[n].name} ELSE {})
    BY <2>3 DEF Scope, NamesOf
  <2> QED BY <1>2, <2>1, <2>2, <2>4
<1>3. CASE ast[n].k \in {"fn", "test"}
  <2>1. PathAt(n + 1) = Append(p, n)
    BY <1>1, <1>3 DEF PathAfter
  <2>2. Lets(Append(p, n), n + 1) = {}
    BY <1>3, LetsStep
  <2>3. Scope(Append(p, n), n + 1) = ParamNames(n)
    BY <1>1, <2>2 DEF Scope, NamesOf, ParamsOf, Last
  <2>4. OuterScopes(n + 1) = Append(OuterScopes(n), Scope(p, n))
    BY <1>1, <2>1 DEF OuterScopes, ScopeAt
  <2> QED BY <1>3, <2>1, <2>3, <2>4
<1>4. CASE ast[n].k = "end"
  <2> DEFINE d == p[Len(p)]
             q == Front(p)
  <2>1. /\ PathAt(n + 1) = q /\ p # <<>> /\ path[d] = q
        /\ Lets(q, n + 1) = Lets(q, d)
    BY <1>1, <1>4, LetsStep DEF PathAfter, Last
  <2>2. Scope(q, n + 1) = ScopeAt(d)
    BY <2>1 DEF Scope, ScopeAt
  <2>3. OuterScopes(n)[Len(p)] = ScopeAt(d)
    BY <1>1, <2>1 DEF OuterScopes
  <2>4. OuterScopes(n + 1) = Front(OuterScopes(n))
    BY <1>1, <2>1 DEF OuterScopes, Front
  <2> QED BY <1>4, <2>1, <2>2, <2>3, <2>4
<1> QED BY <1>2, <1>3, <1>4

\* At the first node of a tree that has been read, nothing is in scope.
LEMMA ScopeStart ==
    ASSUME TreeInv
    PROVE  Scope(PathAt(1), 1) = {} /\ OuterScopes(1) = <<>>
<1>1. PathAt(1) = <<>>
  BY DEF TreeInv
<1>2. Lets(<<>>, 1) = {}
  BY DEF Lets, Nodes
<1> QED BY <1>1, <1>2 DEF Scope, ParamsOf, NamesOf, OuterScopes

\* What a step keeps when it stays in its pass and leaves the tree alone.
LEMMA SamePass ==
    ASSUME IInv, UNCHANGED <<ast, path, open, phase, why>>, pos \in Nodes, pos' = pos + 1,
           phase \in {"resolve", "check", "generate"}
    PROVE  /\ TreeInv' /\ CursorInv' /\ QuietInv' /\ AcceptInv' /\ LookupsSucceed'
           /\ pos' # 0
<1>1. TreeInv' /\ (WellScoped => WellScoped')
  BY TreeUnchanged DEF IInv
<1>2. CursorInv' /\ pos' # 0
  BY DEF CursorInv, Nodes, IInv, TreeInv
<1>3. QuietInv' /\ AcceptInv' /\ LookupsSucceed'
  BY <1>1 DEF QuietInv, AcceptInv, LookupsSucceed, IInv
<1> QED BY <1>1, <1>2, <1>3

\* The process may end at any time, but for the three crashes.
LEMMA StopPreservesIInv ==
    ASSUME IInv, UNCHANGED <<ast, path, open>>, NEW code, NEW reason, Stop(code, reason),
           reason \notin {"value_map.at", "callee", "intrinsic"}
    PROVE  IInv'
<1>1. phase' = "done" /\ why' = reason /\ UNCHANGED pos
  BY DEF Stop
<1>2. TreeInv' /\ CursorInv'
  BY <1>1, TreeUnchanged DEF CursorInv, IInv
<1> QED
  BY <1>1, <1>2 DEF IInv, QuietInv, ResolveInv, AcceptInv, CheckInv, GenerateInv,
     LookupsSucceed

\* A sequence of anything, one longer and one shorter.
LEMMA SeqAppend ==
    ASSUME NEW s, s \in Seq(Range(s)), NEW e
    PROVE  /\ Append(s, e) \in Seq(Range(Append(s, e)))
           /\ Len(Append(s, e)) = Len(s) + 1
           /\ \A i \in 1..Len(s) : Append(s, e)[i] = s[i]
           /\ Append(s, e)[Len(s) + 1] = e
<1> DEFINE t == Append(s, e)
<1>1. s \in Seq(Range(s) \cup {e}) /\ e \in Range(s) \cup {e}
  OBVIOUS
<1>2. /\ t \in Seq(Range(s) \cup {e}) /\ Len(t) = Len(s) + 1
      /\ \A i \in 1..Len(s) : t[i] = s[i]
      /\ t[Len(s) + 1] = e
  BY <1>1
<1>3. t \in Seq(Range(t))
  BY <1>2 DEF Range
<1> QED BY <1>2, <1>3

\* Leaving a body pops one entry and keeps those under it (pop_back).
LEMMA SeqFront ==
    ASSUME NEW s, s \in Seq(Range(s)), s # <<>>
    PROVE  /\ Front(s) \in Seq(Range(Front(s)))
           /\ Len(Front(s)) = Len(s) - 1 /\ Len(s) \in Nat \ {0}
           /\ \A i \in 1..Len(s) - 1 : Front(s)[i] = s[i]
<1>1. Len(s) \in Nat \ {0}
  OBVIOUS
<1>2. /\ Front(s) \in Seq(Range(s)) /\ Len(Front(s)) = Len(s) - 1
      /\ \A i \in 1..Len(s) - 1 : Front(s)[i] = s[i]
  <2>1. Front(s) = SubSeq(s, 1, Len(s) - 1)
    BY DEF Front
  <2>2. \A i \in 1..Len(s) - 1 : s[i] \in Range(s)
    BY <1>1 DEF Range
  <2>3. 1 \in Int /\ Len(s) - 1 \in Int
    BY <1>1
  <2>4. /\ SubSeq(s, 1, Len(s) - 1) \in Seq(Range(s))
        /\ Len(SubSeq(s, 1, Len(s) - 1)) = IF 1 <= Len(s) - 1 THEN Len(s) - 1 - 1 + 1 ELSE 0
        /\ \A i \in 1..Len(s) - 1 - 1 + 1 : SubSeq(s, 1, Len(s) - 1)[i] = s[1 + i - 1]
    <3> HIDE <2>1
    <3> QED BY <2>2, <2>3, SubSeqProperties
  <2>5. Front(s) \in Seq(Range(s))
    BY <2>1, <2>4
  <2>6. Len(Front(s)) = Len(s) - 1
    <3>1. \A l \in Nat \ {0} : (IF 1 <= l - 1 THEN l - 1 - 1 + 1 ELSE 0) = l - 1
      OBVIOUS
    <3>2. (IF 1 <= Len(s) - 1 THEN Len(s) - 1 - 1 + 1 ELSE 0) = Len(s) - 1
      BY <1>1, <3>1, Zenon
    <3> QED BY <2>1, <2>4, <3>2, Zenon
  <2>7. ASSUME NEW i \in 1..Len(s) - 1 PROVE Front(s)[i] = s[i]
    BY <1>1, <2>1, <2>4
  <2> QED BY <2>5, <2>6, <2>7
<1>3. Front(s) \in Seq(Range(Front(s)))
  BY <1>2 DEF Range
<1> QED BY <1>1, <1>2, <1>3

\* A node with children has a sequence of them, and so has their results.
LEMMA OperandsLen ==
    ASSUME TreeInv, NEW n \in Nodes, ast[n].k \in {"bin", "call", "intrinsic"}, NEW results
    PROVE  Len(Operands(n, results)) = Len(ast[n].kids)
<1>1. ast[n] \in Node
  BY DEF TreeInv, Nodes
<1>2. ast[n].kids \in Seq(Nat \ {0})
  BY <1>1 DEF Node, ExprNode, Kids
<1> QED BY <1>2 DEF Operands

-----------------------------------------------------------------------------
\* Each callback of the symbol resolver keeps IInv: variables and saved follow
\* the lexical scopes of the tree.
LEMMA ResolverPreservesIInv ==
    ASSUME IInv, ResolverNext, UNCHANGED <<parserVars, checkerVars, genVars, argv>>
    PROVE  IInv'
<1>1. phase = "resolve" /\ TreeInv /\ UNCHANGED <<ast, path, open, value_map, frames>>
  BY DEF IInv, ResolverNext, ResolverBegin, ResolveChildren, ResolveIdentifier, ResolveCall,
     ResolveLet, ResolveBody, ResolveEnd, ResolverReturn, Resolving, parserVars, genVars
<1>2. ASSUME pos \in Nodes, pos' = pos + 1, UNCHANGED <<phase, why>>, ResolveInv'
      PROVE  IInv'
  <2>1. CheckInv' /\ GenerateInv'
    BY <1>1, <1>2 DEF CheckInv, GenerateInv, IInv
  <2> QED BY <1>1, <1>2, <2>1, SamePass DEF IInv
<1>3. ASSUME pos \in Nodes, pos' = pos + 1, phase' = phase,
             variables' = Scope(PathAt(pos + 1), pos + 1),
             saved' = OuterScopes(pos + 1), functions' = functions,
             ~has_errors' => ~has_errors /\ WellScopedNode(pos)
      PROVE  ResolveInv'
  <2>1. variables' = (Scope(PathAt(pos), pos))' /\ saved' = OuterScopes(pos)'
    BY <1>1, <1>3, TreeUnchanged
  <2>2. functions' = NamesOf(TopLevelFns)'
    <3>1. pos # 0
      BY <1>3 DEF Nodes
    <3>2. NamesOf(TopLevelFns)' = NamesOf(TopLevelFns)
      BY <1>1, TreeUnchanged DEF NamesOf
    <3> QED BY <1>1, <1>3, <3>1, <3>2 DEF ResolveInv, IInv
  <2>3. ~has_errors' => (\A n \in Nodes : n < pos => WellScopedNode(n))'
    <3> SUFFICES ASSUME ~has_errors', NEW n \in Nodes, n < pos'
                 PROVE  WellScopedNode(n)'
      BY <1>1, TreeUnchanged
    <3>1. CASE n = pos
      BY <1>1, <1>3, <3>1, TreeUnchanged
    <3>2. CASE n < pos
      <4>1. pos # 0 /\ ~has_errors
        BY <1>3 DEF Nodes
      <4>2. WellScopedNode(n)
        BY <1>1, <3>2, <4>1 DEF ResolveInv, IInv
      <4> QED BY <1>1, <4>2, TreeUnchanged
    <3>3. n = pos \/ n < pos
      BY <1>3 DEF Nodes
    <3> QED BY <3>1, <3>2, <3>3
  <2>4. pos' # 0
    BY <1>3 DEF Nodes
  <2> QED BY <2>1, <2>2, <2>3, <2>4 DEF ResolveInv
<1>4. ASSUME pos \in Nodes
      PROVE  /\ variables = Scope(PathAt(pos), pos) /\ saved = OuterScopes(pos)
             /\ functions = NamesOf(TopLevelFns)
             /\ PathAt(pos) = path[pos]
  BY <1>1, <1>4 DEF ResolveInv, IInv, Nodes, PathAt
<1>5. CASE ResolverBegin
  <2>1. /\ pos = 0 /\ pos' = 1 /\ variables = {} /\ saved = <<>>
        /\ UNCHANGED <<phase, why, has_errors, variables, saved>>
        /\ functions' = NamesOf(TopLevelFns)
    BY <1>1, <1>5 DEF ResolverBegin, Step, ResolveInv, IInv
  <2>2. functions' = NamesOf(TopLevelFns)'
    BY <1>1, <2>1, TreeUnchanged DEF NamesOf
  <2>3. variables' = Scope(PathAt(1), 1)' /\ saved' = OuterScopes(1)'
    BY <1>1, <2>1, ScopeStart, TreeUnchanged
  <2>4. ResolveInv'
    BY <1>1, <2>1, <2>2, <2>3 DEF ResolveInv, Nodes
  <2>5. CursorInv' /\ AcceptInv' /\ QuietInv' /\ LookupsSucceed'
    BY <1>1, <2>1 DEF CursorInv, AcceptInv, QuietInv, LookupsSucceed, IInv, TreeInv
  <2>6. CheckInv' /\ GenerateInv'
    BY <1>1, <2>1 DEF CheckInv, GenerateInv, IInv
  <2> QED BY <1>1, <2>4, <2>5, <2>6, TreeUnchanged DEF IInv
<1>6. CASE ResolveChildren
  <2>1. /\ pos \in Nodes /\ ast[pos].k \in {"int", "bin", "intrinsic", "return"}
        /\ pos' = pos + 1 /\ UNCHANGED <<phase, why, has_errors, resolverVars>>
    BY <1>6 DEF ResolveChildren, Resolving, At, Step
  <2>2. WellScopedNode(pos)
    BY <2>1 DEF WellScopedNode
  <2>3. ResolveInv'
    BY <1>1, <1>3, <1>4, <2>1, <2>2, ScopeStep DEF resolverVars
  <2> QED BY <1>2, <2>1, <2>3
<1>7. CASE ResolveIdentifier
  <2>1. /\ pos \in Nodes /\ ast[pos].k = "ident"
        /\ pos' = pos + 1 /\ UNCHANGED <<phase, why, resolverVars>>
    BY <1>7 DEF ResolveIdentifier, Resolving, At, Step
  <2>2. ~has_errors' => ~has_errors /\ WellScopedNode(pos)
    BY <1>4, <1>7, <2>1 DEF ResolveIdentifier, Report, WellScopedNode, ScopeAt
  <2>3. ResolveInv'
    BY <1>1, <1>3, <1>4, <2>1, <2>2, ScopeStep DEF resolverVars
  <2> QED BY <1>2, <2>1, <2>3
<1>8. CASE ResolveCall
  <2>1. /\ pos \in Nodes /\ ast[pos].k = "call"
        /\ pos' = pos + 1 /\ UNCHANGED <<phase, why, resolverVars>>
    BY <1>8 DEF ResolveCall, Resolving, At, Step
  <2>2. ~has_errors' => ~has_errors /\ WellScopedNode(pos)
    BY <1>4, <1>8, <2>1 DEF ResolveCall, Report, WellScopedNode
  <2>3. ResolveInv'
    BY <1>1, <1>3, <1>4, <2>1, <2>2, ScopeStep DEF resolverVars
  <2> QED BY <1>2, <2>1, <2>3
<1>9. CASE ResolveLet
  <2>1. /\ pos \in Nodes /\ ast[pos].k = "let" /\ pos' = pos + 1
        /\ variables' = variables \cup {ast[pos].name}
        /\ UNCHANGED <<phase, why, has_errors, functions, saved>>
    BY <1>9 DEF ResolveLet, Resolving, At, Step
  <2>2. WellScopedNode(pos)
    BY <2>1 DEF WellScopedNode
  <2>3. ResolveInv'
    BY <1>1, <1>3, <1>4, <2>1, <2>2, ScopeStep
  <2> QED BY <1>2, <2>1, <2>3
<1>10. CASE ResolveBody
  <2>1. /\ pos \in Nodes /\ ast[pos].k \in {"fn", "test"} /\ pos' = pos + 1
        /\ variables' = ParamNames(pos) /\ saved' = Append(saved, variables)
        /\ UNCHANGED <<phase, why, has_errors, functions>>
    BY <1>10 DEF ResolveBody, Resolving, At, Step
  <2>2. WellScopedNode(pos)
    BY <2>1 DEF WellScopedNode
  <2>3. ResolveInv'
    BY <1>1, <1>3, <1>4, <2>1, <2>2, ScopeStep
  <2> QED BY <1>2, <2>1, <2>3
<1>11. CASE ResolveEnd
  <2>1. /\ pos \in Nodes /\ ast[pos].k = "end" /\ pos' = pos + 1
        /\ variables' = Last(saved) /\ saved' = Front(saved)
        /\ UNCHANGED <<phase, why, has_errors, functions>>
    BY <1>11 DEF ResolveEnd, Resolving, At, Step
  <2>2. WellScopedNode(pos)
    BY <2>1 DEF WellScopedNode
  <2>3. Last(saved) = OuterScopes(pos)[Len(PathAt(pos))]
    <3>1. Len(PathAt(pos)) \in Nat
      BY <1>1, <1>4, <2>1 DEF TreeInv, Nodes
    <3> QED BY <1>4, <2>1, <3>1 DEF OuterScopes, Last
  <2>4. ResolveInv'
    BY <1>1, <1>3, <1>4, <2>1, <2>2, <2>3, ScopeStep
  <2> QED BY <1>2, <2>1, <2>4
<1>12. CASE ResolverReturn
  <2>1. UNCHANGED resolverVars /\ pos = Len(ast) + 1 /\ Verdict("resolver", "check")
    BY <1>12 DEF ResolverReturn
  <2>2. CASE has_errors
    <3>1. phase' = "done" /\ why' = "resolver" /\ UNCHANGED pos
      BY <2>1, <2>2 DEF Verdict, Stop
    <3>2. TreeInv' /\ CursorInv'
      BY <1>1, <3>1, TreeUnchanged DEF CursorInv, IInv
    <3> QED
      BY <3>1, <3>2 DEF IInv, QuietInv, ResolveInv, AcceptInv, CheckInv, GenerateInv,
         LookupsSucceed
  <2>3. CASE ~has_errors
    <3>1. phase' = "check" /\ pos' = 0 /\ UNCHANGED <<why, has_errors>>
      BY <2>1, <2>3 DEF Verdict, Enter
    <3>2. WellScoped
      <4>1. pos # 0 /\ \A n \in Nodes : n < pos
        BY <1>1, <2>1 DEF TreeInv, Nodes
      <4> QED BY <1>1, <2>3, <4>1 DEF ResolveInv, IInv, WellScoped
    <3>3. TreeInv' /\ CursorInv' /\ WellScoped'
      BY <1>1, <3>1, <3>2, TreeUnchanged DEF CursorInv, TreeInv
    <3>4. QuietInv' /\ GenerateInv' /\ LookupsSucceed'
      BY <1>1, <3>1 DEF IInv, QuietInv, GenerateInv, LookupsSucceed
    <3> QED BY <3>1, <3>3, <3>4 DEF IInv, ResolveInv, AcceptInv, CheckInv, Nodes
  <2> QED BY <2>2, <2>3
<1> QED BY <1>5, <1>6, <1>7, <1>8, <1>9, <1>10, <1>11, <1>12 DEF ResolverNext

-----------------------------------------------------------------------------
\* Each callback of the type checker keeps IInv: it moves the walk on, and its
\* verdict is what lets the generator start.
LEMMA CheckerPreservesIInv ==
    ASSUME IInv, CheckerNext, UNCHANGED <<parserVars, resolverVars, genVars, argv>>
    PROVE  IInv'
<1>1. phase = "check" /\ TreeInv /\ UNCHANGED <<ast, path, open, value_map, frames>>
  BY DEF IInv, CheckerNext, CheckerBegin, CheckIntLiteral, CheckIdentifier,
     CheckBinaryOperator, CheckCall, CheckIntrinsicCall, CheckLet, CheckReturn,
     CheckModuleReturn, CheckFn, CheckNestedFn, CheckTest, CheckEnd, CheckerReturn,
     Checking, parserVars, genVars
<1>2. ASSUME pos \in Nodes, pos' = pos + 1, UNCHANGED <<phase, why>>,
             ~has_errors' => ~has_errors /\ CallableNode(pos)
      PROVE  IInv'
  <2>1. ResolveInv' /\ GenerateInv'
    BY <1>1, <1>2 DEF ResolveInv, GenerateInv, IInv
  <2>2. ASSUME ~has_errors', NEW n \in Nodes, n < pos'
        PROVE  CallableNode(n)'
    <3>1. CASE n = pos
      BY <1>1, <1>2, <2>2, <3>1, TreeUnchanged
    <3>2. CASE n < pos
      <4>1. CallableNode(n)
        BY <1>1, <1>2, <2>2, <3>2 DEF CheckInv, IInv
      <4> QED BY <1>1, <4>1, TreeUnchanged
    <3>3. n = pos \/ n < pos
      BY <1>2, <2>2 DEF Nodes
    <3> QED BY <3>1, <3>2, <3>3
  <2>3. CheckInv'
    BY <1>1, <1>2, <2>2, TreeUnchanged DEF CheckInv
  <2> QED BY <1>1, <1>2, <2>1, <2>3, SamePass DEF IInv
<1>3. ASSUME NEW code, NEW reason, Stop(code, reason),
             reason \notin {"value_map.at", "callee", "intrinsic"}
      PROVE  IInv'
  BY <1>1, <1>3, StopPreservesIInv
<1>4. CASE CheckerBegin
  <2>1. pos = 0 /\ pos' = 1 /\ UNCHANGED <<phase, why>>
    BY <1>4 DEF CheckerBegin, Step
  <2>2. CursorInv' /\ AcceptInv' /\ QuietInv' /\ LookupsSucceed'
    BY <1>1, <2>1, TreeUnchanged
    DEF CursorInv, AcceptInv, QuietInv, LookupsSucceed, IInv, TreeInv
  <2>3. ResolveInv' /\ GenerateInv' /\ CheckInv'
    BY <1>1, <2>1 DEF ResolveInv, GenerateInv, CheckInv, IInv, Nodes
  <2> QED BY <1>1, <2>2, <2>3, TreeUnchanged DEF IInv
<1>5. CASE CheckCall
  <2>1. /\ pos \in Nodes /\ ast[pos].k = "call" /\ pos' = pos + 1
        /\ UNCHANGED <<phase, why>>
    BY <1>5 DEF CheckCall, Checking, At, Infer, Step
  <2>2. ~has_errors' => ~has_errors /\ ast[pos].name # Indirect
    BY <1>5 DEF CheckCall, Report
  <2> QED BY <1>2, <2>1, <2>2 DEF CallableNode
<1>6. CASE CheckIntrinsicCall
  <2>1. /\ pos \in Nodes /\ ast[pos].k = "intrinsic" /\ pos' = pos + 1
        /\ UNCHANGED <<phase, why>>
    BY <1>6 DEF CheckIntrinsicCall, Checking, At, Infer, Step
  <2>2. ~has_errors' =>
            ~has_errors /\ ast[pos].name = "assert" /\ Len(Operands(pos, ty)) = 1
    BY <1>6 DEF CheckIntrinsicCall, BadIntrinsic, Report
  <2>3. Len(Operands(pos, ty)) = Len(ast[pos].kids)
    BY <1>1, <2>1, OperandsLen
  <2> QED BY <1>2, <2>1, <2>2, <2>3 DEF CallableNode
<1>7. CASE CheckIntLiteral \/ CheckIdentifier \/ CheckFn \/ CheckTest \/ CheckEnd
  <2>1. /\ pos \in Nodes /\ ast[pos].k \in {"int", "ident", "fn", "test", "end"}
        /\ pos' = pos + 1 /\ UNCHANGED <<phase, why, has_errors>>
    BY <1>7 DEF CheckIntLiteral, CheckIdentifier, CheckFn, CheckTest, CheckEnd, Checking, At,
       Infer, Step
  <2> QED BY <1>2, <2>1 DEF CallableNode
<1>8. CASE CheckBinaryOperator \/ CheckLet \/ CheckReturn
  <2>1. /\ pos \in Nodes /\ ast[pos].k \in {"bin", "let", "return"}
        /\ pos' = pos + 1 /\ UNCHANGED <<phase, why>>
        /\ ~has_errors' => ~has_errors
    BY <1>8 DEF CheckBinaryOperator, CheckLet, CheckReturn, Checking, At, Infer, Step, Report
  <2> QED BY <1>2, <2>1 DEF CallableNode
<1>9. CASE CheckModuleReturn
  <2>1. CASE Stop("crash", "return_type.top")
    BY <1>3, <2>1
  <2>2. CASE ~Stop("crash", "return_type.top")
    <3>1. /\ pos \in Nodes /\ ast[pos].k = "return" /\ pos' = pos + 1
          /\ UNCHANGED <<phase, why>> /\ (~has_errors' => ~has_errors)
      BY <1>9, <2>2 DEF CheckModuleReturn, Checking, At, Infer, Step, Report
    <3> QED BY <1>2, <3>1 DEF CallableNode
  <2> QED BY <2>1, <2>2
<1>10. CASE CheckNestedFn
  BY <1>3, <1>10 DEF CheckNestedFn
<1>11. CASE CheckerReturn
  <2>1. pos = Len(ast) + 1 /\ Verdict("checker", "generate")
    BY <1>11 DEF CheckerReturn
  <2>2. CASE has_errors
    BY <1>3, <2>1, <2>2 DEF Verdict
  <2>3. CASE ~has_errors
    <3>1. phase' = "generate" /\ pos' = 0 /\ UNCHANGED <<why, has_errors>>
      BY <2>1, <2>3 DEF Verdict, Enter
    <3>2. \A n \in Nodes : CallableNode(n)
      <4>1. \A n \in Nodes : n < pos
        BY <1>1, <2>1 DEF TreeInv, Nodes
      <4> QED BY <1>1, <2>3, <4>1 DEF CheckInv, IInv
    <3>3. TreeInv' /\ CursorInv' /\ AcceptInv'
      BY <1>1, <3>1, TreeUnchanged DEF CursorInv, AcceptInv, IInv, TreeInv
    <3>4. QuietInv' /\ GenerateInv' /\ LookupsSucceed' /\ ResolveInv'
      BY <1>1, <3>1 DEF IInv, QuietInv, GenerateInv, LookupsSucceed, ResolveInv
    <3>5. CheckInv'
      BY <1>1, <3>1, <3>2, TreeUnchanged DEF CheckInv
    <3> QED BY <3>3, <3>4, <3>5 DEF IInv
  <2> QED BY <2>2, <2>3
<1> QED
  BY <1>4, <1>5, <1>6, <1>7, <1>8, <1>9, <1>10, <1>11 DEF CheckerNext

-----------------------------------------------------------------------------
\* No step of the generator renames a function or drops one.
LEMMA PrototypesKept ==
    ASSUME Prototypes, UNCHANGED <<ast, path, open>>,
           \/ funcs' = funcs
           \/ \E f, ops : funcs' = [funcs EXCEPT ![f].ops = ops]
           \/ \E f, b : funcs' = [funcs EXCEPT ![f].blocks = b]
           \/ \E n, r : n \notin TopLevelFns /\ funcs' = Overwrite(funcs, Entry(n, r))
    PROVE  Prototypes'
<1> SUFFICES ASSUME NEW n \in TopLevelFns
             PROVE  /\ n \in DOMAIN funcs'
                    /\ "sym" \in DOMAIN funcs'[n] /\ funcs'[n].sym = Sym(ast[n].name)
  BY TreeUnchanged DEF Prototypes, Sym
<1>1. n \in DOMAIN funcs /\ "sym" \in DOMAIN funcs[n] /\ funcs[n].sym = Sym(ast[n].name)
  BY DEF Prototypes
<1>2. CASE funcs' = funcs
  BY <1>1, <1>2
<1>3. CASE \E f, ops : funcs' = [funcs EXCEPT ![f].ops = ops]
  BY <1>1, <1>3
<1>4. CASE \E f, b : funcs' = [funcs EXCEPT ![f].blocks = b]
  BY <1>1, <1>4
<1>5. CASE \E m, r : m \notin TopLevelFns /\ funcs' = Overwrite(funcs, Entry(m, r))
  BY <1>1, <1>5 DEF Overwrite, Entry
<1> QED BY <1>2, <1>3, <1>4, <1>5

\* Each callback of the generator keeps IInv: value_map holds every name in
\* scope, so the next lookup finds its own.
LEMMA GeneratorPreservesIInv ==
    ASSUME IInv, GenNext(run_tests),
           UNCHANGED <<parserVars, resolverVars, checkerVars, argv>>
    PROVE  IInv'
<1>1. phase = "generate" /\ TreeInv /\ UNCHANGED <<ast, path, open>>
  BY DEF IInv, GenNext, GenBegin, GenIntLiteral, GenIdentifier, GenBinaryOperator, GenCall,
     GenIntrinsicCall, GenLet, GenReturn, GenFn, GenTest, GenEnd, GenFinish, Generating,
     parserVars
<1>2. ASSUME pos \in Nodes
      PROVE  /\ PathAt(pos) = path[pos] /\ DOMAIN value_map = Scope(PathAt(pos), pos)
             /\ frames \in Seq(Range(frames)) /\ Len(frames) = Len(PathAt(pos))
             /\ \A i \in DOMAIN frames : DOMAIN frames[i].value_map = OuterScopes(pos)[i]
             /\ Prototypes /\ WellScopedNode(pos) /\ CallableNode(pos)
  BY <1>1, <1>2 DEF GenerateInv, IInv, Nodes, PathAt, AcceptInv, WellScoped, CheckInv
<1>3. ASSUME pos \in Nodes, pos' = pos + 1, UNCHANGED <<phase, why>>,
             DOMAIN value_map' = Scope(PathAt(pos + 1), pos + 1),
             frames' \in Seq(Range(frames')), Len(frames') = Len(PathAt(pos + 1)),
             \A i \in DOMAIN frames' : DOMAIN frames'[i].value_map = OuterScopes(pos + 1)[i],
             Prototypes'
      PROVE  IInv'
  <2>1. GenerateInv'
    <3>1. pos' # 0
      BY <1>3 DEF Nodes
    <3>2. /\ DOMAIN value_map' = Scope(PathAt(pos), pos)'
          /\ (frames \in Seq(Range(frames)))' /\ Len(frames') = Len(PathAt(pos)')
          /\ \A i \in DOMAIN frames' : DOMAIN frames'[i].value_map = OuterScopes(pos)'[i]
      BY <1>1, <1>3, TreeUnchanged
    <3> QED BY <1>1, <1>3, <3>1, <3>2 DEF GenerateInv
  <2>2. ResolveInv'
    BY <1>1, <1>3 DEF ResolveInv
  <2>3. CheckInv'
    BY <1>1, <1>3, TreeUnchanged DEF CheckInv, IInv
  <2> QED BY <1>1, <1>3, <2>1, <2>2, <2>3, SamePass DEF IInv
<1>4. ASSUME NEW op, NEW args, NEW sym, NEW type, Create(op, args, sym, type), pos \in Nodes,
             ast[pos].k \notin {"let", "fn", "test", "end"}
      PROVE  IInv'
  <2>1. CASE NoValue \in Range(args)
    BY <1>1, <1>4, <2>1, StopPreservesIInv DEF Create
  <2>2. CASE NoValue \notin Range(args)
    <3>1. /\ pos' = pos + 1 /\ UNCHANGED <<phase, why, value_map, frames>>
          /\ \E f, ops : funcs' = [funcs EXCEPT ![f].ops = ops]
      BY <1>4, <2>2 DEF Create, Step
    <3>2. Prototypes'
      BY <1>1, <1>2, <1>4, <3>1, PrototypesKept
    <3> QED BY <1>1, <1>2, <1>3, <1>4, <3>1, <3>2, ScopeStep
  <2> QED BY <2>1, <2>2
<1>5. CASE GenBegin
  <2>1. /\ pos = 0 /\ pos' = 1 /\ UNCHANGED <<phase, why, value_map, frames>>
        /\ value_map = <<>> /\ frames = <<>>
    BY <1>1, <1>5 DEF GenBegin, Step, GenerateInv, IInv
  <2>2. Prototypes'
    <3> SUFFICES ASSUME NEW n \in TopLevelFns
                 PROVE  /\ n \in DOMAIN funcs'
                        /\ "sym" \in DOMAIN funcs'[n] /\ funcs'[n].sym = Sym(ast[n].name)
      BY <1>1, TreeUnchanged DEF Prototypes, Sym
    <3>1. n # Main
      BY DEF TopLevelFns, Nodes, Main
    <3>2. n \in DOMAIN funcs' /\ funcs'[n] = FuncType(n)
      BY <1>5, <3>1 DEF GenBegin
    <3> QED BY <3>2 DEF FuncType, Func
  <2>3. GenerateInv'
    <3>1. /\ Scope(PathAt(1), 1)' = {} /\ OuterScopes(1)' = <<>> /\ Len(PathAt(1)') = 0
      BY <1>1, ScopeStart, TreeUnchanged DEF TreeInv
    <3>2. frames \in Seq(Range(frames))
      BY <2>1
    <3> QED BY <1>1, <2>1, <2>2, <3>1, <3>2 DEF GenerateInv
  <2>4. CursorInv' /\ AcceptInv' /\ QuietInv' /\ LookupsSucceed'
    BY <1>1, <2>1, TreeUnchanged
    DEF CursorInv, AcceptInv, QuietInv, LookupsSucceed, IInv, TreeInv
  <2>5. CheckInv' /\ ResolveInv'
    BY <1>1, <2>1, TreeUnchanged DEF CheckInv, ResolveInv, IInv
  <2> QED BY <1>1, <2>3, <2>4, <2>5, TreeUnchanged DEF IInv
<1>6. CASE GenIntLiteral
  BY <1>4, <1>6 DEF GenIntLiteral, Generating, At
<1>7. CASE GenIdentifier
  <2>1. pos \in Nodes /\ ast[pos].k = "ident"
    BY <1>7 DEF GenIdentifier, Generating, At
  <2>2. ast[pos].name \in DOMAIN value_map
    BY <1>2, <2>1 DEF WellScopedNode, ScopeAt
  <2>3. pos' = pos + 1 /\ UNCHANGED <<phase, why, value_map, frames, funcs>>
    BY <1>7, <2>2 DEF GenIdentifier, Step
  <2>4. Prototypes'
    BY <1>1, <1>2, <2>1, <2>3, PrototypesKept
  <2> QED BY <1>1, <1>2, <1>3, <2>1, <2>3, <2>4, ScopeStep
<1>8. CASE GenBinaryOperator
  BY <1>4, <1>8 DEF GenBinaryOperator, Generating, At
<1>9. CASE GenCall
  <2>1. pos \in Nodes /\ ast[pos].k = "call"
    BY <1>9 DEF GenCall, Generating, At
  <2>2. ast[pos].name # Indirect /\ Declared(Sym(ast[pos].name))
    BY <1>2, <2>1 DEF WellScopedNode, CallableNode, NamesOf, Declared, Prototypes
  <2> QED BY <1>4, <1>9, <2>1, <2>2 DEF GenCall
<1>10. CASE GenIntrinsicCall
  <2>1. pos \in Nodes /\ ast[pos].k = "intrinsic"
    BY <1>10 DEF GenIntrinsicCall, Generating, At
  <2>2. ast[pos].name = "assert" /\ ast[pos].kids # <<>>
    <3>1. ast[pos].name = "assert" /\ Len(ast[pos].kids) = 1
      BY <1>2, <2>1 DEF CallableNode
    <3>2. Len(<<>>) = 0
      OBVIOUS
    <3>3. ASSUME ast[pos].kids = <<>> PROVE FALSE
      <4>1. 1 = 0
        BY <3>1, <3>2, <3>3, Zenon
      <4> QED BY <4>1
    <3> QED BY <3>1, <3>3
  <2> QED BY <1>4, <1>10, <2>1, <2>2 DEF GenIntrinsicCall
<1>11. CASE GenLet
  <2>1. /\ pos \in Nodes /\ ast[pos].k = "let" /\ pos' = pos + 1
        /\ value_map' = Overwrite(value_map, Entry(ast[pos].name, vals[pos - 1]))
        /\ UNCHANGED <<phase, why, frames, funcs>>
    BY <1>11 DEF GenLet, Generating, At, Step
  <2>2. DOMAIN value_map' = DOMAIN value_map \cup {ast[pos].name}
    BY <2>1 DEF Overwrite, Entry
  <2>3. Prototypes'
    BY <1>1, <1>2, <2>1, PrototypesKept
  <2> QED BY <1>1, <1>2, <1>3, <2>1, <2>2, <2>3, ScopeStep
<1>12. CASE GenReturn
  BY <1>4, <1>12 DEF GenReturn, Generating, At
<1>13. ASSUME NEW f, NEW b, NEW values, EnterBody(f, b, values), pos \in Nodes,
              ast[pos].k \in {"fn", "test"}, DOMAIN values = ParamNames(pos), Prototypes'
       PROVE  IInv'
  <2>1. /\ pos' = pos + 1 /\ value_map' = values /\ UNCHANGED <<phase, why>>
        /\ frames' = Append(frames, [ip |-> ip, value_map |-> value_map])
    BY <1>13 DEF EnterBody, Step
  <2>2. /\ OuterScopes(pos + 1) = Append(OuterScopes(pos), Scope(PathAt(pos), pos))
        /\ Scope(PathAt(pos + 1), pos + 1) = ParamNames(pos)
        /\ PathAt(pos + 1) = Append(PathAt(pos), pos)
    BY <1>1, <1>13, ScopeStep
  <2>3. /\ frames' \in Seq(Range(frames')) /\ Len(frames') = Len(frames) + 1
        /\ \A i \in 1..Len(frames) : frames'[i] = frames[i]
        /\ frames'[Len(frames) + 1].value_map = value_map
    BY <1>2, <1>13, <2>1, SeqAppend
  <2>4. PathAt(pos) \in Seq(Nat) /\ Len(PathAt(pos)) \in Nat
    BY <1>1, <1>2, <1>13 DEF TreeInv, Nodes
  <2>5. Len(frames') = Len(PathAt(pos + 1))
    BY <1>2, <1>13, <2>2, <2>3, <2>4
  <2>6. \A i \in DOMAIN frames' : DOMAIN frames'[i].value_map = OuterScopes(pos + 1)[i]
    <3> SUFFICES ASSUME NEW i \in 1..Len(frames) + 1
                 PROVE  DOMAIN frames'[i].value_map = OuterScopes(pos + 1)[i]
      BY <2>3
    <3>1. Len(OuterScopes(pos)) = Len(frames) /\ OuterScopes(pos) \in Seq(Range(OuterScopes(pos)))
      BY <1>2, <1>13, <2>4, SMTT(20) DEF OuterScopes, Range
    <3>2. CASE i \in 1..Len(frames)
      <4>1. OuterScopes(pos + 1)[i] = OuterScopes(pos)[i]
        BY <2>2, <3>1, <3>2, SeqAppend
      <4>2. DOMAIN frames[i].value_map = OuterScopes(pos)[i]
        BY <1>2, <1>13, <3>2
      <4> QED BY <2>3, <3>2, <4>1, <4>2
    <3>3. CASE i = Len(frames) + 1
      BY <1>2, <1>13, <2>2, <2>3, <3>1, <3>3, SeqAppend
    <3>4. Len(frames) \in Nat
      BY <1>2, <1>13, <2>4
    <3> QED BY <3>2, <3>3, <3>4
  <2> QED BY <1>3, <1>13, <2>1, <2>2, <2>3, <2>5, <2>6
<1>14. CASE GenFn
  <2>1. pos \in Nodes /\ ast[pos].k = "fn"
    BY <1>14 DEF GenFn, Generating, At
  <2> DEFINE f == LookupSymbol(Sym(ast[pos].name))
  <2>2. CASE Stop("crash", "addEntryBlock")
    BY <1>1, <2>2, StopPreservesIInv
  <2>3. CASE ~Stop("crash", "addEntryBlock")
    <3>1. /\ funcs' = [funcs EXCEPT ![f].blocks = @ + 1]
          /\ EnterBody(f, funcs[f].blocks + 1, EntryArguments(f))
      BY <1>14, <2>3 DEF GenFn
    <3>2. Prototypes'
      BY <1>1, <1>2, <2>1, <3>1, PrototypesKept
    <3>3. DOMAIN EntryArguments(f) = ParamNames(pos)
      BY DEF EntryArguments
    <3> QED BY <1>13, <2>1, <3>1, <3>2, <3>3
  <2> QED BY <2>2, <2>3
<1>15. CASE GenTest
  <2>1. /\ pos \in Nodes /\ ast[pos].k = "test" /\ EnterBody(pos, 1, <<>>)
        /\ \E r : funcs' = Overwrite(funcs, Entry(pos, r))
    BY <1>15 DEF GenTest, Generating, At
  <2>2. pos \notin TopLevelFns
    BY <2>1 DEF TopLevelFns
  <2>3. Prototypes'
    BY <1>1, <1>2, <2>1, <2>2, PrototypesKept
  <2>4. DOMAIN <<>> = ParamNames(pos)
    BY <2>1 DEF ParamNames
  <2> QED BY <1>13, <2>1, <2>3, <2>4
<1>16. CASE GenEnd
  <2>1. /\ pos \in Nodes /\ ast[pos].k = "end" /\ pos' = pos + 1 /\ UNCHANGED <<phase, why>>
        /\ value_map' = Last(frames).value_map /\ frames' = Front(frames)
        /\ \/ funcs' = funcs
           \/ \E f, ops : funcs' = [funcs EXCEPT ![f].ops = ops]
    BY <1>16 DEF GenEnd, CloseBody, Generating, At, Step
  <2>2. Prototypes'
    BY <1>1, <1>2, <2>1, PrototypesKept
  <2>3. /\ PathAt(pos) # <<>> /\ PathAt(pos + 1) = Front(PathAt(pos))
        /\ Scope(PathAt(pos + 1), pos + 1) = OuterScopes(pos)[Len(PathAt(pos))]
        /\ OuterScopes(pos + 1) = Front(OuterScopes(pos))
    BY <1>1, <2>1, ScopeStep
  <2>4. PathAt(pos) \in Seq(Nat) /\ Len(PathAt(pos)) \in Nat \ {0}
    BY <1>1, <1>2, <2>1, <2>3 DEF TreeInv, Nodes
  <2>5. /\ OuterScopes(pos) \in Seq(Range(OuterScopes(pos))) /\ OuterScopes(pos) # <<>>
        /\ Len(OuterScopes(pos)) = Len(PathAt(pos))
    BY <2>4 DEF OuterScopes, Range
  <2>6. frames # <<>> /\ DOMAIN frames = 1..Len(PathAt(pos))
    BY <1>2, <2>1, <2>4
  <2>7. DOMAIN value_map' = Scope(PathAt(pos + 1), pos + 1)
    BY <1>2, <2>1, <2>3, <2>4, <2>6 DEF Last
  <2>8. /\ frames' \in Seq(Range(frames')) /\ Len(frames') = Len(frames) - 1
        /\ \A i \in 1..Len(frames) - 1 : frames'[i] = frames[i]
    BY <1>2, <2>1, <2>6, SeqFront
  <2>9. Len(frames') = Len(PathAt(pos + 1))
    BY <1>2, <2>1, <2>3, <2>4, <2>8 DEF Front
  <2>10. \A i \in DOMAIN frames' : DOMAIN frames'[i].value_map = OuterScopes(pos + 1)[i]
    <3> SUFFICES ASSUME NEW i \in 1..Len(frames) - 1
                 PROVE  DOMAIN frames'[i].value_map = OuterScopes(pos + 1)[i]
      BY <2>8
    <3>1. OuterScopes(pos + 1)[i] = OuterScopes(pos)[i]
      BY <1>2, <2>1, <2>3, <2>5, SeqFront
    <3>2. DOMAIN frames[i].value_map = OuterScopes(pos)[i]
      BY <1>2, <2>1, <2>4, <2>6
    <3> QED BY <2>8, <3>1, <3>2
  <2> QED BY <1>3, <2>1, <2>2, <2>7, <2>8, <2>9, <2>10
<1>17. CASE GenFinish(run_tests)
  <2>1. phase' = "lower" /\ pos' = 0 /\ UNCHANGED why
    BY <1>17 DEF GenFinish, Enter
  <2>2. CursorInv' /\ AcceptInv' /\ QuietInv' /\ LookupsSucceed'
    BY <1>1, <2>1, TreeUnchanged
    DEF CursorInv, AcceptInv, QuietInv, LookupsSucceed, IInv, TreeInv
  <2>3. ResolveInv' /\ CheckInv' /\ GenerateInv'
    BY <2>1 DEF ResolveInv, CheckInv, GenerateInv
  <2> QED BY <1>1, <2>2, <2>3, TreeUnchanged DEF IInv
<1> QED
  BY <1>5, <1>6, <1>7, <1>8, <1>9, <1>10, <1>11, <1>12, <1>14, <1>15, <1>16, <1>17 DEF GenNext

-----------------------------------------------------------------------------
\* A stuttering step keeps IInv.
LEMMA UnchangedPreservesIInv ==
    ASSUME IInv, UNCHANGED <<runVars, parserVars, resolverVars, genVars>>
    PROVE  IInv'
<1>1. /\ UNCHANGED <<ast, path, open, phase, pos, has_errors, why>>
      /\ UNCHANGED <<variables, functions, saved, funcs, frames, value_map>>
  BY DEF runVars, parserVars, resolverVars, genVars
<1>2. /\ TreeInv' /\ CursorInv' /\ QuietInv' /\ AcceptInv' /\ LookupsSucceed'
  BY <1>1, TreeUnchanged DEF IInv, CursorInv, QuietInv, AcceptInv, LookupsSucceed
<1>3. ResolveInv'
  <2>1. NamesOf(TopLevelFns)' = NamesOf(TopLevelFns)
    BY <1>1, TreeUnchanged DEF NamesOf
  <2> QED BY <1>1, <2>1, TreeUnchanged DEF ResolveInv, IInv
<1>4. CheckInv'
  BY <1>1, TreeUnchanged DEF CheckInv, IInv
<1>5. GenerateInv'
  <2>1. Prototypes => Prototypes'
    BY <1>1, PrototypesKept
  <2> QED BY <1>1, <2>1, TreeUnchanged DEF GenerateInv, IInv
<1> QED BY <1>2, <1>3, <1>4, <1>5 DEF IInv

\* Each step of main() between the passes keeps IInv: the next pass starts on a
\* complete tree, and only one the resolver found no error in is generated.
LEMMA DriverPreservesIInv ==
    ASSUME IInv, Driver,
           UNCHANGED <<parserVars, resolverVars, checkerVars, genVars, argv>>
    PROVE  IInv'
<1>1. TreeInv' /\ UNCHANGED <<ast, path, open, variables, saved, value_map, frames>>
  BY TreeUnchanged DEF IInv, parserVars, resolverVars, genVars
<1>2. CASE Start
  <2>1. phase = "start" /\ phase' = "parse" /\ pos' = 0 /\ UNCHANGED why
    BY <1>2 DEF Start, Enter
  <2>2. CursorInv' /\ QuietInv' /\ LookupsSucceed' /\ GenerateInv'
    BY <1>1, <2>1 DEF CursorInv, QuietInv, LookupsSucceed, GenerateInv, IInv, TreeInv
  <2> QED BY <1>1, <2>1, <2>2 DEF IInv, ResolveInv, AcceptInv, CheckInv
<1>3. CASE Lower /\ Enter("execute")
  <2>1. phase = "lower" /\ phase' = "execute" /\ pos' = 0 /\ UNCHANGED why
    BY <1>3 DEF Lower, Enter
  <2>2. CursorInv' /\ QuietInv' /\ LookupsSucceed' /\ AcceptInv'
    BY <1>1, <2>1, TreeUnchanged
    DEF CursorInv, QuietInv, LookupsSucceed, AcceptInv, IInv, TreeInv
  <2> QED BY <1>1, <2>1, <2>2 DEF IInv, ResolveInv, CheckInv, GenerateInv
<1>4. CASE \E code, reason : /\ Stop(code, reason)
                             /\ reason \notin {"value_map.at", "callee", "intrinsic"}
  BY <1>1, <1>4, StopPreservesIInv
<1>5. CASE Usage \/ EmitMLIR \/ EmitLLVM
  <2>1. ASSUME NEW code, Stop(code, "usage") PROVE IInv'
    BY <1>4, <2>1
  <2>2. ASSUME NEW code, Stop(code, "--emit-mlir") PROVE IInv'
    BY <1>4, <2>2
  <2>3. ASSUME NEW code, Stop(code, "--emit-llvm") PROVE IInv'
    BY <1>4, <2>3
  <2> QED BY <1>5, <2>1, <2>2, <2>3 DEF Usage, EmitMLIR, EmitLLVM
<1>6. CASE Lower
  <2>1. ASSUME NEW code, Stop(code, "lower") PROVE IInv'
    BY <1>4, <2>1
  <2>2. Enter("execute") \/ \E code : Stop(code, "lower")
    BY <1>6 DEF Lower
  <2> QED BY <1>3, <1>6, <2>1, <2>2
<1> QED BY <1>2, <1>5, <1>6 DEF Driver

\* Running the program, or failing to, keeps IInv.
LEMMA ExecutionPreservesIInv ==
    ASSUME IInv, ExecNext, UNCHANGED <<parserVars, resolverVars, checkerVars, genVars, argv>>
    PROVE  IInv'
<1>1. CASE UNCHANGED runVars
  BY <1>1, UnchangedPreservesIInv
<1>2. CASE \E code, reason : /\ Stop(code, reason)
                             /\ reason \notin {"value_map.at", "callee", "intrinsic"}
  BY <1>2, StopPreservesIInv DEF parserVars, resolverVars, genVars
<1>3. CASE Invoke
  <2>1. TreeInv' /\ UNCHANGED <<ast, path, open, variables, saved, value_map, frames>>
    BY TreeUnchanged DEF IInv, parserVars, resolverVars, genVars
  <2>2. phase = "execute" /\ phase' = "run" /\ pos' = 0 /\ UNCHANGED why
    BY <1>3 DEF Invoke, Enter
  <2>3. CursorInv' /\ QuietInv' /\ LookupsSucceed' /\ AcceptInv'
    BY <2>1, <2>2, TreeUnchanged
    DEF CursorInv, QuietInv, LookupsSucceed, AcceptInv, IInv, TreeInv
  <2> QED BY <2>1, <2>2, <2>3 DEF IInv, ResolveInv, CheckInv, GenerateInv
<1>4. ASSUME NEW code, Stop(code, "jit") PROVE IInv'
  BY <1>2, <1>4
<1>5. ASSUME NEW code, Stop(code, "invalid") PROVE IInv'
  BY <1>2, <1>5
<1>6. ASSUME NEW code, Stop(code, "division") PROVE IInv'
  BY <1>2, <1>6
<1>7. ASSUME NEW code, Stop(code, "abort") PROVE IInv'
  BY <1>2, <1>7
<1>8. ASSUME NEW code, Stop(code, "stack") PROVE IInv'
  BY <1>2, <1>8
<1>9. ASSUME NEW code, Stop(code, "returned") PROVE IInv'
  BY <1>2, <1>9
<1>10. ASSUME NEW code, Stop(code, "ill-formed") PROVE IInv'
  BY <1>2, <1>10
<1>11. CASE JITFails \/ RunInvalid \/ RunIllFormed \/ RunEnd
  BY <1>4, <1>5, <1>9, <1>10, <1>11, Zenon DEF JITFails, RunInvalid, RunIllFormed, RunEnd
<1>12. CASE RunConstant \/ RunArith \/ RunUndefined \/ RunCompare
  BY <1>1, <1>6, <1>12, Zenon DEF RunConstant, RunArith, RunUndefined, RunCompare, Result
<1>13. CASE RunAssert \/ RunCall \/ RunReturn
  BY <1>1, <1>7, <1>8, <1>13, Zenon DEF RunAssert, RunCall, RunReturn, Result
<1> QED BY <1>3, <1>11, <1>12, <1>13, Zenon DEF ExecNext

\* The step puts the nodes of one production at the end of the tree: only the
\* last of them may open or close a block.
Produces(nodes) ==
    /\ nodes \in Seq(Node) /\ Len(nodes) > 0 /\ Put(nodes)
    /\ \A i \in 1..Len(nodes) - 1 : nodes[i].k \notin {"fn", "test", "end"}
    /\ \/ /\ nodes[Len(nodes)].k \in {"fn", "test"}
          /\ open' = Append(open, Len(ast) + Len(nodes))
       \/ /\ nodes[Len(nodes)].k = "end"
          /\ open # <<>> /\ open' = Front(open)
       \/ /\ nodes[Len(nodes)].k \notin {"fn", "test", "end"}
          /\ open' = open

\* Adding the nodes of one production at the end of the tree, and opening or
\* closing at most the body of the last, keeps the declarations nested.
LEMMA PutKeepsTree ==
    ASSUME TreeInv, NEW nodes, Produces(nodes)
    PROVE  TreeInv'
<1>0. PICK l \in Nat, k \in Nat : l = Len(ast) /\ k = Len(nodes)
  <2>1. ast \in Seq(Node) /\ nodes \in Seq(Node)
    BY DEF Produces, TreeInv
  <2>2. Len(ast) \in Nat /\ Len(nodes) \in Nat
    BY <2>1
  <2> QED BY <2>2
<1> DEFINE kind == nodes[k].k
<1>a. l \in Nat /\ k \in Nat /\ k >= 1
  BY <1>0 DEF Produces
<1>b. \/ kind \in {"fn", "test"} /\ open' = Append(open, l + k)
      \/ kind = "end" /\ open # <<>> /\ open' = Front(open)
      \/ kind \notin {"fn", "test", "end"} /\ open' = open
  BY <1>0 DEF Produces
<1>c. open \in Seq(Nat) /\ Len(open) \in Nat
  BY DEF TreeInv
<1>d. /\ nodes \in Seq(Node) /\ ast \in Seq(Node) /\ Len(ast) = l /\ Len(nodes) = k
      /\ ast' = ast \o nodes
  BY <1>0 DEF Produces, Put, TreeInv
<1>e. \A i \in 1..k - 1 : nodes[i].k \notin {"fn", "test", "end"}
  BY <1>0 DEF Produces
<1>f. path' = path \o [i \in 1..k |-> open]
  BY <1>0 DEF Produces, Put
<1>g. path \in Seq(Seq(Nat)) /\ Len(path) = l
  BY <1>0 DEF TreeInv
<1>h. nodes[k].k = kind
  OBVIOUS
<1> HIDE DEF kind
<1>1. /\ ast' \in Seq(Node) /\ Len(ast') = l + k
      /\ \A n \in 1..l : ast'[n] = ast[n]
      /\ \A n \in l + 1..l + k : ast'[n] = nodes[n - l]
  <2>1. ast' \in Seq(Node) /\ Len(ast') = l + k
    <3>1. \A S, s, t : s \in Seq(S) /\ t \in Seq(S) =>
              s \o t \in Seq(S) /\ Len(s \o t) = Len(s) + Len(t)
      OBVIOUS
    <3> QED BY <1>d, <3>1, Zenon
  <2>2. ASSUME NEW n \in 1..l PROVE ast'[n] = ast[n]
    BY <1>a, <1>d
  <2>3. ASSUME NEW n \in l + 1..l + k PROVE ast'[n] = nodes[n - l]
    BY <1>a, <1>d
  <2> QED BY <2>1, <2>2, <2>3
<1>2. /\ path' \in Seq(Seq(Nat)) /\ Len(path') = l + k
      /\ \A n \in 1..l : path'[n] = path[n]
      /\ \A n \in l + 1..l + k : path'[n] = open
  <2> DEFINE opens == [i \in 1..k |-> open]
  <2>1. opens \in Seq(Seq(Nat)) /\ Len(opens) = k /\ \A i \in 1..k : opens[i] = open
    BY <1>a, <1>c
  <2>2. path' = path \o opens
    BY <1>f
  <2> HIDE DEF opens
  <2>3. path' \in Seq(Seq(Nat)) /\ Len(path') = l + k
    BY <1>a, <1>g, <2>1, <2>2
  <2>4. ASSUME NEW n \in 1..l PROVE path'[n] = path[n]
    BY <1>a, <1>g, <2>1, <2>2
  <2>5. ASSUME NEW n \in l + 1..l + k PROVE path'[n] = open
    <3>1. n - l \in 1..k
      BY <1>a
    <3>2. path'[n] = opens[n - l]
      BY <1>a, <1>g, <2>1, <2>2
    <3> QED BY <2>1, <3>1, <3>2
  <2> QED BY <2>3, <2>4, <2>5
<1>3. open' \in Seq(Nat)
  <2>1. CASE open' = Append(open, l + k)
    BY <1>a, <1>c, <2>1
  <2>2. CASE open' = Front(open) /\ open # <<>>
    BY <1>c, <2>2 DEF Front
  <2> QED BY <1>b, <1>c, <2>1, <2>2
<1>4. Nodes = 1..l /\ Nodes' = 1..l + k
  BY <1>1, <1>d DEF Nodes
<1>5. /\ \A n \in 1..l : PathAt(n)' = PathAt(n) /\ PathAt(n) = path[n]
      /\ \A n \in l + 1..l + k : PathAt(n)' = open
      /\ PathAt(l + k + 1)' = open' /\ PathAt(l + 1) = open
  <2>1. ASSUME NEW n \in 1..l PROVE PathAt(n)' = PathAt(n) /\ PathAt(n) = path[n]
    <3>1. n \in Nodes /\ n \in Nodes'
      BY <1>4, <1>a
    <3> QED BY <1>2, <3>1 DEF PathAt
  <2>2. ASSUME NEW n \in l + 1..l + k PROVE PathAt(n)' = open
    <3>1. n \in Nodes'
      BY <1>4, <1>a
    <3> QED BY <1>2, <3>1 DEF PathAt
  <2>3. l + k + 1 \notin Nodes' /\ l + 1 \notin Nodes
    BY <1>4, <1>a
  <2>4. PathAt(l + k + 1)' = open' /\ PathAt(l + 1) = open
    <3> HIDE <1>2
    <3> QED BY <2>3 DEF PathAt
  <2> QED BY <2>1, <2>2, <2>4
<1>6. PathAt(1)' = <<>>
  <2>1. PathAt(1) = <<>>
    BY DEF TreeInv
  <2> QED BY <1>5, <1>a, <2>1
<1>7. /\ \A n \in 1..l : PathAt(n + 1) = PathAfter(n)
      /\ \A n \in 1..l : ast[n].k = "end" => path[n] # <<>>
      /\ \A n \in 1..l + 1 : Nested(n)
  BY <1>4, <1>d DEF TreeInv
<1>8. ASSUME NEW n \in Nodes'
      PROVE  PathAt(n + 1)' = PathAfter(n)' /\ (ast'[n].k = "end" => path'[n] # <<>>)
  <2>1. CASE n \in 1..l
    <3>1. PathAt(n + 1)' = PathAt(n + 1)
      BY <1>5, <1>a, <2>1
    <3>2. PathAfter(n)' = PathAfter(n)
      BY <1>1, <1>2, <2>1 DEF PathAfter
    <3> QED BY <1>1, <1>2, <1>7, <2>1, <3>1, <3>2
  <2>2. CASE n \in l + 1..l + k - 1
    <3>1. /\ n \in l + 1..l + k /\ n + 1 \in l + 1..l + k /\ n - l \in 1..k - 1
      BY <1>a, <2>2
    <3>2. ast'[n].k \notin {"fn", "test", "end"}
      BY <1>1, <1>e, <3>1
    <3>3. path'[n] = open /\ PathAt(n + 1)' = open
      BY <1>2, <1>5, <3>1
    <3> QED BY <3>2, <3>3 DEF PathAfter
  <2>3. CASE n = l + k
    <3>a. n \in l + 1..l + k /\ n - l = k
      BY <1>a, <2>3
    <3>1. ast'[n] = nodes[k] /\ path'[n] = open /\ PathAt(n + 1)' = open'
      BY <1>1, <1>2, <1>5, <2>3, <3>a
    <3>2. ast'[n].k = kind
      BY <3>1, <1>h
    <3> QED BY <1>b, <2>3, <3>1, <3>2 DEF PathAfter
  <2> QED BY <1>4, <1>a, <2>1, <2>2, <2>3
<1>9. ASSUME NEW n \in l + 1..l + k + 1, NEW i \in 1..Len(open)
      PROVE  /\ open[i] \in Nodes' /\ open[i] < n /\ ast'[open[i]].k \in {"fn", "test"}
             /\ path'[open[i]] = SubSeq(open, 1, i - 1)
             /\ \A m \in Nodes' : open[i] < m /\ m < n => Len(path'[m]) >= i
  <2>1. /\ open[i] \in 1..l /\ ast[open[i]].k \in {"fn", "test"}
        /\ path[open[i]] = SubSeq(open, 1, i - 1)
        /\ \A m \in 1..l : open[i] < m => Len(path[m]) >= i
    <3>1. Nested(l + 1) /\ PathAt(l + 1) = open
      BY <1>5, <1>7, <1>a
    <3>2. \A m \in 1..l : m < l + 1
      BY <1>a
    <3> QED BY <1>4, <3>1, <3>2 DEF Nested
  <2>2. ASSUME NEW m \in Nodes', open[i] < m PROVE Len(path'[m]) >= i
    <3>1. CASE m \in 1..l
      BY <1>2, <2>1, <2>2, <3>1
    <3>2. CASE m \in l + 1..l + k
      BY <1>2, <1>c, <3>2
    <3> QED BY <1>4, <1>a, <3>1, <3>2
  <2>3. open[i] \in Nodes' /\ open[i] < n
    BY <1>4, <1>a, <2>1
  <2>4. ast'[open[i]] = ast[open[i]] /\ path'[open[i]] = path[open[i]]
    BY <1>1, <1>2, <2>1
  <2> QED BY <2>1, <2>2, <2>3, <2>4
<1>10. ASSUME NEW n \in 1..l + k + 1 PROVE Nested(n)'
  <2>1. CASE n \in 1..l
    <3>1. Nested(n) /\ PathAt(n)' = PathAt(n)
      BY <1>5, <1>7, <1>a, <2>1
    <3>2. ASSUME NEW i \in 1..Len(PathAt(n))
          PROVE  LET d == PathAt(n)[i]
                 IN  /\ d \in 1..l /\ d < n
                     /\ ast[d].k \in {"fn", "test"}
                     /\ path[d] = SubSeq(PathAt(n), 1, i - 1)
                     /\ \A m \in 1..l : d < m /\ m < n => Len(path[m]) >= i
      BY <1>4, <3>1 DEF Nested
    <3>3. ASSUME NEW i \in 1..Len(PathAt(n))
          PROVE  LET d == PathAt(n)[i]
                 IN  /\ d \in Nodes' /\ d < n
                     /\ ast'[d].k \in {"fn", "test"}
                     /\ path'[d] = SubSeq(PathAt(n), 1, i - 1)
                     /\ \A m \in Nodes' : d < m /\ m < n => Len(path'[m]) >= i
      <4> DEFINE d == PathAt(n)[i]
      <4>1. d \in Nodes' /\ ast'[d] = ast[d] /\ path'[d] = path[d]
        <5>1. d \in 1..l /\ d \in Nodes'
          BY <1>4, <1>a, <3>2
        <5> QED BY <1>1, <1>2, <5>1
      <4>2. ASSUME NEW m \in Nodes', m < n PROVE m \in 1..l /\ path'[m] = path[m]
        BY <1>2, <1>4, <1>a, <2>1, <4>2
      <4> QED BY <3>2, <4>1, <4>2
    <3> QED BY <3>1, <3>3 DEF Nested
  <2>2. CASE n \in l + 1..l + k
    <3>1. PathAt(n)' = open /\ n \in l + 1..l + k + 1
      BY <1>5, <1>a, <2>2
    <3> QED BY <1>9, <3>1 DEF Nested
  <2>3. CASE n = l + k + 1 /\ open' = open
    <3>1. PathAt(n)' = open /\ n \in l + 1..l + k + 1
      BY <1>5, <1>a, <2>3
    <3> QED BY <1>9, <3>1 DEF Nested
  <2>4. CASE n = l + k + 1 /\ open' = Append(open, l + k) /\ kind \in {"fn", "test"}
    <3>1. /\ Len(open') = Len(open) + 1 /\ open'[Len(open) + 1] = l + k
          /\ \A i \in 1..Len(open) : open'[i] = open[i]
      BY <1>a, <1>c, <2>4
    <3>2. \A i \in 1..Len(open') : SubSeq(open', 1, i - 1) = SubSeq(open, 1, i - 1)
      BY <1>a, <1>c, <2>4, <3>1
    <3>3. ASSUME NEW i \in 1..Len(open')
          PROVE  LET d == open'[i]
                 IN  /\ d \in Nodes' /\ d < n
                     /\ ast'[d].k \in {"fn", "test"}
                     /\ path'[d] = SubSeq(open', 1, i - 1)
                     /\ \A m \in Nodes' : d < m /\ m < n => Len(path'[m]) >= i
      <4>1. CASE i \in 1..Len(open)
        <5>1. n \in l + 1..l + k + 1
          BY <1>a, <2>4
        <5> QED BY <1>9, <3>1, <3>2, <4>1, <5>1
      <4>2. CASE i = Len(open) + 1
        <5>1. open'[i] = l + k /\ SubSeq(open, 1, i - 1) = open
          BY <1>c, <3>1, <4>2
        <5>2. ast'[l + k].k = kind /\ path'[l + k] = open
          <6>1. l + k \in l + 1..l + k /\ l + k - l = k
            BY <1>a
          <6> QED BY <1>1, <1>2, <1>h, <6>1
        <5>3. l + k \in Nodes' /\ l + k < n /\ \A m \in Nodes' : ~(l + k < m)
          BY <1>4, <1>a, <2>4
        <5> QED BY <2>4, <3>2, <5>1, <5>2, <5>3
      <4> QED BY <1>c, <3>1, <4>1, <4>2
    <3> QED BY <1>5, <2>4, <3>3 DEF Nested
  <2>5. CASE n = l + k + 1 /\ open' = Front(open) /\ open # <<>>
    <3>1. open' = SubSeq(open, 1, Len(open) - 1) /\ Len(open) >= 1
      BY <1>c, <2>5 DEF Front
    <3>2. /\ Len(open') = Len(open) - 1
          /\ \A i \in 1..Len(open) - 1 : open'[i] = open[i]
      <4>1. open \in Seq(Range(open))
        BY <1>c DEF Range
      <4> QED BY <2>5, <4>1, SeqFront
    <3>3. \A i \in 1..Len(open) - 1 : SubSeq(open', 1, i - 1) = SubSeq(open, 1, i - 1)
      BY <1>c, <3>1, <3>2
    <3>4. PathAt(n)' = open' /\ n \in l + 1..l + k + 1
      BY <1>5, <1>a, <2>5
    <3>5. \A i \in 1..Len(open') : i \in 1..Len(open) - 1 /\ i \in 1..Len(open)
      BY <1>c, <3>1, <3>2
    <3> QED BY <1>9, <3>2, <3>3, <3>4, <3>5 DEF Nested
  <2> QED BY <1>b, <1>a, <2>1, <2>2, <2>3, <2>4, <2>5
<1> QED BY <1>1, <1>2, <1>3, <1>4, <1>6, <1>8, <1>10 DEF TreeInv

\* An expression is a row of nodes none of which is a declaration's.
LEMMA ExpressionNodes ==
    ASSUME NEW e \in Expressions
    PROVE  /\ e \in Seq(Node) /\ Len(e) \in Nat \ {0}
           /\ \A i \in 1..Len(e) : e[i].k \notin {"fn", "test", "end"}
<1>1. e \in Seq(ExprNode) /\ e # <<>>
  BY SourceAssumption DEF WellFormed
<1>2. ASSUME NEW n \in ExprNode PROVE n \in Node /\ n.k \notin {"fn", "test", "end"}
  BY DEF ExprNode, Node
<1> QED BY <1>1, <1>2

\* Each production of the parser keeps IInv.
LEMMA ParserPreservesIInv ==
    ASSUME IInv, ParserNext, UNCHANGED <<resolverVars, checkerVars, genVars, argv>>
    PROVE  IInv'
<1>1. phase = "parse" /\ TreeInv
  BY DEF IInv, ParserNext, ParseLet, ParseReturn, ParseExpressionStmt, ParseFn, ParseTest,
     ParseTailExpression, ParseClose, ParseEof, ParseUnreadable, ParseSyntaxError,
     ParseHugeInteger, Reading
<1>2. ASSUME UNCHANGED runVars, TreeInv' PROVE IInv'
  <2>1. phase' = "parse" /\ pos' = pos /\ pos = 0 /\ why' = why
    BY <1>1, <1>2 DEF runVars, IInv, QuietInv
  <2>2. CursorInv' /\ QuietInv' /\ GenerateInv' /\ LookupsSucceed'
    BY <1>1, <1>2, <2>1
    DEF CursorInv, QuietInv, GenerateInv, LookupsSucceed, IInv, TreeInv, resolverVars, genVars
  <2> QED BY <1>2, <2>1, <2>2 DEF IInv, ResolveInv, AcceptInv, CheckInv
<1>3. ASSUME NEW nodes, Produces(nodes), UNCHANGED runVars PROVE IInv'
  BY <1>1, <1>2, <1>3, PutKeepsTree
<1>4. ASSUME NEW e \in Expressions, NEW n \in Node, n.k \notin {"fn", "test", "end"},
             UNCHANGED <<runVars, open>>, Put(Append(e, n)) \/ Put(e)
      PROVE  IInv'
  <2>1. CASE Put(e)
    <3>1. Produces(e)
      BY <1>4, <2>1, ExpressionNodes DEF Produces
    <3> QED BY <1>3, <1>4, <3>1
  <2>2. CASE Put(Append(e, n))
    <3> DEFINE nodes == Append(e, n)
    <3>1. /\ nodes \in Seq(Node) /\ Len(nodes) \in Nat \ {0}
          /\ \A i \in 1..Len(nodes) : nodes[i].k \notin {"fn", "test", "end"}
      BY <1>4, ExpressionNodes
    <3>2. Put(nodes) /\ open' = open
      BY <1>4, <2>2
    <3> HIDE DEF nodes
    <3>3. Produces(nodes)
      BY <3>1, <3>2 DEF Produces
    <3> QED BY <1>3, <1>4, <3>3
  <2> QED BY <1>4, <2>1, <2>2
<1>5. ASSUME NEW n \in Node, Put(<<n>>), UNCHANGED runVars,
             \/ n.k \in {"fn", "test"} /\ open' = Append(open, Len(ast) + 1)
             \/ n.k = "end" /\ open # <<>> /\ open' = Front(open)
      PROVE  IInv'
  <2>1. <<n>> \in Seq(Node) /\ Len(<<n>>) = 1 /\ <<n>>[1] = n
    OBVIOUS
  <2>2. Produces(<<n>>)
    BY <1>5, <2>1 DEF Produces
  <2> QED BY <1>3, <1>5, <2>2
<1>6. \A flag \in BOOLEAN : ReturnStmt(flag) \in Node /\ ReturnStmt(flag).k = "return"
  BY DEF ReturnStmt, Node
<1>7. CASE ParseLet
  <2>1. PICK e \in Expressions, b \in Bindings : Put(Append(e, LetBinding(b)))
    BY <1>7 DEF ParseLet
  <2>2. LetBinding(b) \in Node /\ LetBinding(b).k = "let"
    BY SourceAssumption DEF LetBinding, Node
  <2> QED BY <1>4, <1>7, <2>1, <2>2 DEF ParseLet
<1>8. CASE ParseReturn
  BY <1>4, <1>6, <1>8 DEF ParseReturn
<1>9. CASE ParseExpressionStmt
  BY <1>4, <1>6, <1>9 DEF ParseExpressionStmt
<1>10. CASE ParseFn
  <2>1. PICK s \in Signatures : Put(<<FunctionDecl(s)>>)
    BY <1>10 DEF ParseFn
  <2>2. FunctionDecl(s) \in Node /\ FunctionDecl(s).k = "fn"
    BY SourceAssumption DEF FunctionDecl, Node
  <2> QED BY <1>5, <1>10, <2>1, <2>2 DEF ParseFn, runVars
<1>11. CASE ParseTest
  <2>1. TestDecl \in Node /\ TestDecl.k = "test"
    BY DEF TestDecl, Node
  <2>2. open' = Append(open, Len(ast) + 1)
    BY <1>11 DEF ParseTest
  <2> QED BY <1>5, <1>11, <2>1, <2>2 DEF ParseTest, runVars
<1>12. CASE ParseTailExpression
  BY <1>4, <1>6, <1>12 DEF ParseTailExpression
<1>13. CASE ParseClose
  <2>1. End \in Node /\ End.k = "end"
    BY DEF End, Node
  <2>2. CASE Put(<<End>>)
    BY <1>5, <1>13, <2>1, <2>2 DEF ParseClose
  <2>3. CASE Put(<<ReturnStmt(FALSE), End>>)
    <3> DEFINE nodes == <<ReturnStmt(FALSE), End>>
    <3>1. /\ nodes \in Seq(Node) /\ Len(nodes) = 2
          /\ nodes[1] = ReturnStmt(FALSE) /\ nodes[2] = End
      <4>1. ReturnStmt(FALSE) \in Node /\ End \in Node
        BY <1>6, <2>1
      <4>2. \A a, b \in Node : /\ <<a, b>> \in Seq(Node) /\ Len(<<a, b>>) = 2
                               /\ <<a, b>>[1] = a /\ <<a, b>>[2] = b
        OBVIOUS
      <4> QED BY <4>1, <4>2, Zenon
    <3>2. Put(nodes)
      BY <2>3
    <3> HIDE DEF nodes
    <3>3. \A i \in 1..Len(nodes) - 1 : nodes[i].k = "return"
      <4>1. \A i \in 1..2 - 1 : i = 1
        OBVIOUS
      <4> QED BY <1>6, <3>1, <4>1
    <3>4. Produces(nodes)
      BY <1>13, <2>1, <3>1, <3>2, <3>3 DEF Produces, ParseClose
    <3> QED BY <1>3, <1>13, <3>4 DEF ParseClose
  <2> QED BY <1>13, <2>2, <2>3 DEF ParseClose
<1>14. CASE ParseEof
  <2>1. /\ phase' = "resolve" /\ pos' = 0 /\ UNCHANGED <<why, ast, path, open>> /\ open = <<>>
        /\ UNCHANGED <<variables, saved, value_map, frames>>
    BY <1>14 DEF ParseEof, Enter, parserVars, resolverVars, genVars
  <2>2. TreeInv'
    BY <1>1, <2>1, TreeUnchanged
  <2>3. CursorInv' /\ QuietInv' /\ ResolveInv' /\ GenerateInv' /\ LookupsSucceed'
    BY <1>1, <2>1
    DEF CursorInv, QuietInv, ResolveInv, GenerateInv, LookupsSucceed, IInv, TreeInv
  <2> QED BY <2>1, <2>2, <2>3 DEF IInv, AcceptInv, CheckInv
<1>15. CASE ParseUnreadable
  BY <1>15, StopPreservesIInv DEF ParseUnreadable, parserVars
<1>16. CASE ParseSyntaxError
  <2>1. phase' = "done" /\ why' = "parser" /\ UNCHANGED <<pos, ast, path, open>>
    BY <1>16 DEF ParseSyntaxError, parserVars
  <2>2. TreeInv' /\ CursorInv'
    BY <1>1, <2>1, TreeUnchanged DEF CursorInv, IInv
  <2> QED
    BY <2>1, <2>2
    DEF IInv, QuietInv, ResolveInv, AcceptInv, CheckInv, GenerateInv, LookupsSucceed
<1>17. CASE ParseHugeInteger
  BY <1>17, StopPreservesIInv DEF ParseHugeInteger, parserVars
<1> QED
  BY <1>7, <1>8, <1>9, <1>10, <1>11, <1>12, <1>13, <1>14, <1>15, <1>16, <1>17 DEF ParserNext

-----------------------------------------------------------------------------
\* IInv holds before the compiler starts.
LEMMA InitIInv == Init => IInv
<1> SUFFICES ASSUME Init PROVE IInv
  OBVIOUS
<1>1. /\ ast = <<>> /\ path = <<>> /\ open = <<>> /\ phase = "start" /\ pos = 0
      /\ why = "none" /\ variables = {} /\ saved = <<>> /\ value_map = <<>> /\ frames = <<>>
  BY DEF Init, ParserInit, ResolverInit, GenInit
<1>2. Nodes = {} /\ Len(ast) = 0 /\ \A n : PathAt(n) = <<>>
  BY <1>1 DEF Nodes, PathAt
<1>3. TreeInv
  BY <1>1, <1>2 DEF TreeInv, Nested
<1> QED
  BY <1>1, <1>2, <1>3
  DEF IInv, CursorInv, QuietInv, ResolveInv, AcceptInv, CheckInv, GenerateInv, LookupsSucceed

\* Every step of the compiler, of whichever component, keeps IInv.
LEMMA StepIInv == IInv /\ [Next]_vars => IInv'
<1> SUFFICES ASSUME IInv, [Next]_vars PROVE IInv'
  OBVIOUS
<1>1. CASE UNCHANGED vars
  BY <1>1, UnchangedPreservesIInv DEF vars
<1>2. CASE Driver /\ UNCHANGED <<parserVars, resolverVars, checkerVars, genVars, argv>>
  BY <1>2, DriverPreservesIInv
<1>8. CASE Execute /\ UNCHANGED <<parserVars, resolverVars, checkerVars, genVars, argv>>
  BY <1>8, ExecutionPreservesIInv DEF Execute
<1>3. CASE ParserNext /\ UNCHANGED <<resolverVars, checkerVars, genVars, argv>>
  BY <1>3, ParserPreservesIInv
<1>4. CASE ResolverNext /\ UNCHANGED <<parserVars, checkerVars, genVars, argv>>
  BY <1>4, ResolverPreservesIInv
<1>5. CASE CheckerNext /\ UNCHANGED <<parserVars, resolverVars, genVars, argv>>
  BY <1>5, CheckerPreservesIInv
<1>6. CASE GenNext(run_tests) /\ UNCHANGED <<parserVars, resolverVars, checkerVars, argv>>
  BY <1>6, GeneratorPreservesIInv
<1>7. CASE Ended /\ UNCHANGED <<parserVars, resolverVars, checkerVars, argv>>
  BY <1>7, UnchangedPreservesIInv DEF Ended, vars
<1> QED BY <1>1, <1>2, <1>3, <1>4, <1>5, <1>6, <1>7, <1>8, Zenon DEF Next

\* The passes keep their tables in step with the scopes of the tree.
THEOREM Invariance == Spec => []IInv
BY InitIInv, StepIInv, PTL DEF Spec

\* For every source and every bound: the generator finds the value of every
\* variable and the callee of every call of a tree that the resolver and the
\* checker accepted.
THEOREM GeneratorLookups == Spec => []LookupsSucceed
<1>1. IInv => LookupsSucceed
  BY DEF IInv
<1> QED BY Invariance, <1>1, PTL

-----------------------------------------------------------------------------
\* Until a name was reported there is no diagnostic, and once one was, the
\* source breaks the scoping rule before the cursor.  With ResolveInv, which
\* says the converse, the resolver's verdict is that of the rule.
RejectInv ==
    /\ phase \in {"start", "parse"} => ~has_errors
    /\ phase = "resolve" /\ has_errors =>
           pos > 0 /\ \E n \in Nodes : n < pos /\ ~WellScopedNode(n)

Undecided == {"start", "parse", "resolve"}
Unparsed  == {"usage", "parser", "std::stoi"}

\* The verdict, by phase and by why the process ended.
LEMMA Verdicts ==
    /\ phase \in Undecided => ScopingVerdict = "none"
    /\ phase = "done" /\ why \in Unparsed => ScopingVerdict = "none"
    /\ phase = "done" /\ why = "resolver" => ScopingVerdict = "rejected"
    /\ phase \notin Undecided \cup {"done"} => ScopingVerdict = "accepted"
    /\ phase = "done" /\ why \notin Unparsed \cup {"resolver"} => ScopingVerdict = "accepted"
<1>1. CASE phase \in Undecided
  <2>1. phase # "done"
    BY <1>1 DEF Undecided
  <2> QED BY <1>1, <2>1 DEF ScopingVerdict, Undecided
<1>2. CASE phase = "done"
  BY <1>2 DEF ScopingVerdict, Undecided, Unparsed
<1>3. CASE phase \notin Undecided \cup {"done"}
  BY <1>3 DEF ScopingVerdict, Undecided
<1> QED BY <1>1, <1>2, <1>3

\* The same after a step.
LEMMA NextVerdicts ==
    /\ phase' \in Undecided => ScopingVerdict' = "none"
    /\ phase' = "done" /\ why' \in Unparsed => ScopingVerdict' = "none"
    /\ phase' = "done" /\ why' = "resolver" => ScopingVerdict' = "rejected"
    /\ phase' \notin Undecided \cup {"done"} => ScopingVerdict' = "accepted"
    /\ phase' = "done" /\ why' \notin Unparsed \cup {"resolver"} => ScopingVerdict' = "accepted"
<1>1. CASE phase' \in Undecided
  <2>1. phase' # "done"
    BY <1>1 DEF Undecided
  <2> QED BY <1>1, <2>1 DEF ScopingVerdict, Undecided
<1>2. CASE phase' = "done"
  BY <1>2 DEF ScopingVerdict, Undecided, Unparsed
<1>3. CASE phase' \notin Undecided \cup {"done"}
  BY <1>3 DEF ScopingVerdict, Undecided
<1> QED BY <1>1, <1>2, <1>3

\* After the resolver no verdict changes: a later pass that ends the process
\* gives a reason of its own.
LEMMA LaterPasses ==
    ASSUME phase \notin Undecided, phase' \notin Undecided, UNCHANGED <<ast, path>>,
           phase = "done" => UNCHANGED <<phase, why>>,
           phase # "done" /\ phase' = "done" => why' \notin Unparsed \cup {"resolver"}
    PROVE  RejectInv' /\ UNCHANGED <<ast, path, ScopingVerdict>>
<1>1. RejectInv'
  BY DEF RejectInv, Undecided
<1>2. CASE phase = "done"
  <2>1. why \in Unparsed \/ why = "resolver" \/ why \notin Unparsed \cup {"resolver"}
    OBVIOUS
  <2> QED BY <1>1, <1>2, <2>1, Verdicts, NextVerdicts
<1>3. CASE phase # "done"
  <2>1. ScopingVerdict = "accepted"
    BY <1>3, Verdicts
  <2>2. ScopingVerdict' = "accepted"
    BY <1>3, NextVerdicts
  <2> QED BY <1>1, <2>1, <2>2
<1> QED BY <1>2, <1>3

\* The parser reads the source, and gives no verdict.
LEMMA PutReads ==
    ASSUME TreeInv, NEW nodes \in Seq(Node), nodes # <<>>, Put(nodes)
    PROVE  ast' # ast
<1>1. ast \in Seq(Node) /\ ast' = ast \o nodes
  BY DEF TreeInv, Put
<1>2. Len(ast') = Len(ast) + Len(nodes) /\ Len(nodes) > 0 /\ Len(ast) \in Nat
  BY <1>1
<1> QED BY <1>2

LEMMA ParserReads ==
    ASSUME IInv, RejectInv, ParserNext
    PROVE  RejectInv' /\ [Lexical!Next]_<<ast, path, ScopingVerdict>>
<1>1. phase = "parse" /\ TreeInv /\ ~has_errors
  BY DEF IInv, RejectInv, ParserNext, ParseLet, ParseReturn, ParseExpressionStmt, ParseFn,
     ParseTest, ParseTailExpression, ParseClose, ParseEof, ParseUnreadable, ParseSyntaxError,
     ParseHugeInteger, Reading
<1>2. ScopingVerdict = "none"
  BY <1>1, Verdicts DEF Undecided
<1>3. ASSUME UNCHANGED runVars, NEW nodes \in Seq(Node), nodes # <<>>, Put(nodes)
      PROVE  RejectInv' /\ Lexical!Next
  <2>1. UNCHANGED <<phase, has_errors>>
    BY <1>3 DEF runVars
  <2>2. ScopingVerdict' = "none"
    BY <1>1, <2>1, NextVerdicts DEF Undecided
  <2>3. ast' # ast
    BY <1>1, <1>3, PutReads
  <2> QED BY <1>1, <1>2, <2>1, <2>2, <2>3 DEF RejectInv, Lexical!Next, Lexical!Read
<1>4. ASSUME UNCHANGED <<ast, path>>, phase' = "done" /\ why' \in Unparsed
      PROVE  RejectInv' /\ UNCHANGED <<ast, path, ScopingVerdict>>
  BY <1>2, <1>4, NextVerdicts DEF RejectInv
<1>5. ASSUME NEW e \in Expressions
      PROVE  /\ e \in Seq(Node) /\ e # <<>>
             /\ \A n \in Node : Append(e, n) \in Seq(Node) /\ Append(e, n) # <<>>
  <2>1. e \in Seq(Node) /\ Len(e) \in Nat \ {0}
    BY ExpressionNodes
  <2>2. ASSUME NEW n \in Node PROVE Append(e, n) \in Seq(Node) /\ Len(Append(e, n)) = Len(e) + 1
    BY <2>1
  <2>3. Len(<<>>) = 0
    OBVIOUS
  <2> QED BY <2>1, <2>2, <2>3
<1>6. \A flag \in BOOLEAN : ReturnStmt(flag) \in Node
  BY DEF ReturnStmt, Node
<1>7. ASSUME NEW n \in Node PROVE <<n>> \in Seq(Node) /\ <<n>> # <<>>
  OBVIOUS
<1>8. CASE ParseLet
  <2>1. PICK e \in Expressions, b \in Bindings : Put(Append(e, LetBinding(b)))
    BY <1>8 DEF ParseLet
  <2>2. LetBinding(b) \in Node
    BY SourceAssumption DEF LetBinding, Node
  <2> QED BY <1>3, <1>5, <1>8, <2>1, <2>2 DEF ParseLet
<1>9. CASE ParseReturn
  BY <1>3, <1>5, <1>6, <1>9 DEF ParseReturn
<1>10. CASE ParseExpressionStmt
  BY <1>3, <1>5, <1>10 DEF ParseExpressionStmt
<1>11. CASE ParseFn
  <2>1. PICK s \in Signatures : Put(<<FunctionDecl(s)>>)
    BY <1>11 DEF ParseFn
  <2>2. FunctionDecl(s) \in Node
    BY SourceAssumption DEF FunctionDecl, Node
  <2> QED BY <1>3, <1>7, <1>11, <2>1, <2>2 DEF ParseFn
<1>12. CASE ParseTest
  <2>1. TestDecl \in Node
    BY DEF TestDecl, Node
  <2> QED BY <1>3, <1>7, <1>12, <2>1 DEF ParseTest
<1>13. CASE ParseTailExpression
  BY <1>3, <1>5, <1>6, <1>13 DEF ParseTailExpression
<1>14. CASE ParseClose
  <2>1. End \in Node /\ ReturnStmt(FALSE) \in Node
    BY <1>6 DEF End, Node
  <2>2. \A a, b \in Node : <<a, b>> \in Seq(Node) /\ <<a, b>> # <<>>
    OBVIOUS
  <2> QED BY <1>3, <1>7, <1>14, <2>1, <2>2 DEF ParseClose
<1>15. CASE ParseEof
  <2>1. phase' = "resolve" /\ ~has_errors' /\ UNCHANGED <<ast, path>>
    BY <1>1, <1>15 DEF ParseEof, Enter, parserVars
  <2> QED BY <1>2, <2>1, NextVerdicts DEF RejectInv, Undecided
<1>16. CASE ParseUnreadable \/ ParseSyntaxError \/ ParseHugeInteger
  BY <1>4, <1>16 DEF ParseUnreadable, ParseSyntaxError, ParseHugeInteger, Stop, parserVars, Unparsed
<1> QED
  BY <1>8, <1>9, <1>10, <1>11, <1>12, <1>13, <1>14, <1>15, <1>16 DEF ParserNext


-----------------------------------------------------------------------------
\* LexicalScoping's rule is the one that the passes are compared with.
LEMMA SameRule == Lexical!WellScoped <=> WellScoped
<1>1. Lexical!Nodes = Nodes
  BY DEF Nodes, Lexical!Nodes
<1>2. \A decls : Lexical!NamesOf(decls) = NamesOf(decls)
  BY DEF NamesOf, Lexical!NamesOf
<1>3. Lexical!TopLevelFns = TopLevelFns
  BY <1>1 DEF TopLevelFns, Lexical!TopLevelFns
<1>4. \A n : Lexical!ParamNames(n) = ParamNames(n)
  BY DEF ParamNames, Lexical!ParamNames, Range, Lexical!Range
<1>5. \A p, n : Lexical!Scope(p, n) = Scope(p, n)
  BY <1>1, <1>2, <1>4
  DEF Scope, Lexical!Scope, ParamsOf, Lexical!ParamsOf, Lets, Lexical!Lets,
      Last, Lexical!Last
<1>6. \A n : Lexical!WellScopedNode(n) <=> WellScopedNode(n)
  BY <1>2, <1>3, <1>5
  DEF WellScopedNode, Lexical!WellScopedNode, ScopeAt, Lexical!ScopeAt, Indirect, Lexical!Indirect
<1> QED BY <1>1, <1>6 DEF WellScoped, Lexical!WellScoped

\* The resolver decides when it returns: a source with a diagnostic has a node
\* that breaks the rule, and one without has none.
LEMMA ResolverDecides ==
    ASSUME IInv, RejectInv, ResolverNext, UNCHANGED parserVars
    PROVE  RejectInv' /\ [Lexical!Next]_<<ast, path, ScopingVerdict>>
<1>1. phase = "resolve" /\ UNCHANGED <<ast, path, open>>
  BY DEF ResolverNext, ResolverBegin, ResolveChildren, ResolveIdentifier, ResolveCall,
     ResolveLet, ResolveBody, ResolveEnd, ResolverReturn, Resolving, parserVars
<1>2. ScopingVerdict = "none"
  BY <1>1, Verdicts DEF Undecided
<1>3. ASSUME Step, NEW bad, has_errors' => has_errors \/ bad,
             bad => pos \in Nodes /\ ~WellScopedNode(pos)
      PROVE  RejectInv' /\ UNCHANGED <<ast, path, ScopingVerdict>>
  <2>1. phase' = phase /\ pos' = pos + 1 /\ pos \in Nat
    BY <1>3 DEF Step, IInv, CursorInv, TreeInv
  <2>2. ScopingVerdict' = "none"
    BY <1>1, <2>1, NextVerdicts DEF Undecided
  <2>3. ASSUME has_errors' PROVE \E n \in Nodes : n < pos + 1 /\ ~WellScopedNode(n)
    <3>1. CASE has_errors
      <4>1. PICK n \in Nodes : n < pos /\ ~WellScopedNode(n)
        BY <1>1, <3>1 DEF RejectInv
      <4>2. n < pos + 1
        BY <2>1, <4>1 DEF Nodes
      <4> QED BY <4>1, <4>2
    <3>2. CASE bad
      BY <1>3, <2>1, <3>2
    <3> QED BY <1>3, <2>3, <3>1, <3>2
  <2>4. RejectInv'
    BY <1>1, <2>1, <2>3, TreeUnchanged DEF RejectInv
  <2> QED BY <1>1, <1>2, <2>2, <2>4
<1>4. ASSUME Step, UNCHANGED has_errors
      PROVE  RejectInv' /\ UNCHANGED <<ast, path, ScopingVerdict>>
  BY <1>3, <1>4
<1>5. CASE ResolveIdentifier
  <2>1. pos \in Nodes /\ pos # 0 /\ ast[pos].k = "ident" /\ variables = Scope(PathAt(pos), pos)
    BY <1>1, <1>5 DEF ResolveIdentifier, Resolving, At, IInv, ResolveInv, Nodes
  <2>2. ast[pos].name \notin variables => ~WellScopedNode(pos)
    BY <2>1 DEF WellScopedNode, ScopeAt, PathAt
  <2> QED BY <1>3, <1>5, <2>1, <2>2 DEF ResolveIdentifier, Report
<1>6. CASE ResolveCall
  <2>1. pos \in Nodes /\ pos # 0 /\ ast[pos].k = "call" /\ functions = NamesOf(TopLevelFns)
    BY <1>1, <1>6 DEF ResolveCall, Resolving, At, IInv, ResolveInv, Nodes
  <2>2. ast[pos].name # Indirect /\ ast[pos].name \notin functions => ~WellScopedNode(pos)
    BY <2>1 DEF WellScopedNode
  <2> QED BY <1>3, <1>6, <2>1, <2>2 DEF ResolveCall, Report
<1>7. CASE ResolverReturn
  <2>1. pos = Len(ast) + 1 /\ Verdict("resolver", "check")
    BY <1>7 DEF ResolverReturn
  <2>2. CASE has_errors
    <3>1. phase' = "done" /\ why' = "resolver"
      BY <2>1, <2>2 DEF Verdict, Stop
    <3>2. ScopingVerdict' = "rejected"
      BY <3>1, NextVerdicts
    <3>3. ~Lexical!WellScoped
      BY <1>1, <2>2, SameRule DEF RejectInv, WellScoped
    <3>4. RejectInv'
      BY <3>1 DEF RejectInv
    <3> QED BY <1>1, <1>2, <3>2, <3>3, <3>4 DEF Lexical!Next, Lexical!Decide
  <2>3. CASE ~has_errors
    <3>1. phase' = "check"
      BY <2>1, <2>3 DEF Verdict, Enter
    <3>2. ScopingVerdict' = "accepted"
      BY <3>1, NextVerdicts DEF Undecided
    <3>3. pos # 0 /\ \A n \in Nodes : n < pos
      BY <2>1 DEF TreeInv, Nodes, IInv
    <3>4. Lexical!WellScoped
      BY <1>1, <2>3, <3>3, SameRule DEF ResolveInv, IInv, WellScoped
    <3>5. RejectInv'
      BY <3>1 DEF RejectInv
    <3> QED BY <1>1, <1>2, <3>2, <3>4, <3>5 DEF Lexical!Next, Lexical!Decide
  <2> QED BY <2>2, <2>3
<1>8. CASE ResolverBegin \/ ResolveChildren \/ ResolveLet \/ ResolveBody \/ ResolveEnd
  BY <1>4, <1>8 DEF ResolverBegin, ResolveChildren, ResolveLet, ResolveBody, ResolveEnd
<1> QED BY <1>5, <1>6, <1>7, <1>8 DEF ResolverNext


\* No pass after the resolver changes its verdict.
LEMMA CheckerAgrees ==
    ASSUME CheckerNext, UNCHANGED parserVars
    PROVE  RejectInv' /\ UNCHANGED <<ast, path, ScopingVerdict>>
<1>1. phase = "check" /\ UNCHANGED <<ast, path>>
  BY DEF CheckerNext, CheckerBegin, CheckIntLiteral, CheckIdentifier, CheckBinaryOperator,
     CheckCall, CheckIntrinsicCall, CheckLet, CheckReturn, CheckModuleReturn, CheckFn,
     CheckNestedFn, CheckTest, CheckEnd, CheckerReturn, Checking, parserVars
<1>2. \/ phase' = phase \/ phase' = "generate"
      \/ phase' = "done" /\ why' \in {"checker", "return_type.top", "functions.at"}
  BY DEF CheckerNext, CheckerBegin, CheckIntLiteral, CheckIdentifier, CheckBinaryOperator,
     CheckCall, CheckIntrinsicCall, CheckLet, CheckReturn, CheckModuleReturn, CheckFn,
     CheckNestedFn, CheckTest, CheckEnd, CheckerReturn, Infer, Step, Stop, Verdict, Enter
<1> QED BY <1>1, <1>2, LaterPasses DEF Undecided, Unparsed

LEMMA GeneratorAgrees ==
    ASSUME GenNext(run_tests), UNCHANGED parserVars
    PROVE  RejectInv' /\ UNCHANGED <<ast, path, ScopingVerdict>>
<1>1. phase = "generate" /\ UNCHANGED <<ast, path>>
  BY DEF GenNext, GenBegin, GenIntLiteral, GenIdentifier, GenBinaryOperator, GenCall,
     GenIntrinsicCall, GenLet, GenReturn, GenFn, GenTest, GenEnd, GenFinish, Generating, parserVars
<1>2. \/ phase' = phase \/ phase' = "lower"
      \/ phase' = "done" /\ why' \in {"null value", "value_map.at", "callee", "intrinsic",
                                     "addEntryBlock"}
  BY DEF GenNext, GenBegin, GenIntLiteral, GenIdentifier, GenBinaryOperator, GenCall,
     GenIntrinsicCall, GenLet, GenReturn, GenFn, GenTest, GenEnd, GenFinish, Create, EnterBody,
     Step, Stop, Enter
<1> QED BY <1>1, <1>2, LaterPasses DEF Undecided, Unparsed

LEMMA ExecutionAgrees ==
    ASSUME ExecNext, UNCHANGED parserVars
    PROVE  RejectInv' /\ UNCHANGED <<ast, path, ScopingVerdict>>
<1>1. phase \in {"execute", "run"} /\ UNCHANGED <<ast, path>>
  BY DEF ExecNext, JITFails, RunInvalid, Invoke, RunIllFormed, RunConstant, RunArith, RunUndefined,
     RunCompare, RunAssert, RunCall, RunReturn, RunEnd, Running, parserVars
<1>2. \/ phase' = phase \/ phase' = "run"
      \/ /\ phase' = "done"
         /\ why' \in {"jit", "invalid", "ill-formed", "division", "abort", "stack", "returned"}
  BY DEF ExecNext, JITFails, RunInvalid, Invoke, RunIllFormed, RunConstant, RunArith, RunUndefined,
     RunCompare, RunAssert, RunCall, RunReturn, RunEnd, Result, runVars, Stop, Enter
<1> QED BY <1>1, <1>2, LaterPasses DEF Undecided, Unparsed

\* main() gives no verdict of its own.
LEMMA DriverAgrees ==
    ASSUME RejectInv, Driver, UNCHANGED parserVars
    PROVE  RejectInv' /\ UNCHANGED <<ast, path, ScopingVerdict>>
<1>1. UNCHANGED <<ast, path>>
  BY DEF parserVars
<1>2. CASE Usage
  BY <1>1, <1>2, Verdicts, NextVerdicts DEF Usage, Stop, RejectInv, Undecided, Unparsed
<1>3. CASE Start
  BY <1>1, <1>3, Verdicts, NextVerdicts DEF Start, Enter, RejectInv, Undecided
<1>4. CASE EmitMLIR \/ Lower \/ EmitLLVM
  <2>1. phase \in {"lower", "execute"}
    BY <1>4 DEF EmitMLIR, Lower, EmitLLVM
  <2>2. \/ phase' = "execute"
        \/ phase' = "done" /\ why' \in {"--emit-mlir", "lower", "--emit-llvm"}
    BY <1>4 DEF EmitMLIR, Lower, EmitLLVM, Stop, Enter
  <2> QED BY <1>1, <2>1, <2>2, LaterPasses DEF Undecided, Unparsed
<1> QED BY <1>2, <1>3, <1>4 DEF Driver

\* Every step of the compiler is one of LexicalScoping, or changes nothing
\* that LexicalScoping sees.
LEMMA StepRefines ==
    ASSUME IInv, RejectInv, [Next]_vars
    PROVE  RejectInv' /\ [Lexical!Next]_<<ast, path, ScopingVerdict>>
<1>1. CASE UNCHANGED <<phase, why, pos, has_errors, ast, path, open>>
  <2>1. UNCHANGED ScopingVerdict
    BY <1>1, Zenon DEF ScopingVerdict
  <2>2. RejectInv'
    BY <1>1, TreeUnchanged DEF RejectInv
  <2> QED BY <1>1, <2>1, <2>2
<1>2. CASE UNCHANGED vars \/ (Ended /\ UNCHANGED <<parserVars, resolverVars, checkerVars, argv, stack>>)
  BY <1>1, <1>2 DEF vars, runVars, parserVars, Ended
<1>3. CASE ParserNext
  BY <1>3, ParserReads
<1>4. CASE ResolverNext /\ UNCHANGED parserVars
  BY <1>4, ResolverDecides
<1>5. CASE (CheckerNext \/ GenNext(run_tests) \/ ExecNext \/ Driver) /\ UNCHANGED parserVars
  BY <1>5, CheckerAgrees, GeneratorAgrees, ExecutionAgrees, DriverAgrees
<1> QED BY <1>2, <1>3, <1>4, <1>5, Zenon DEF Next, Execute

\* For every source, whatever its size and nesting: the resolver's verdict is
\* that of the scoping rule, given once, and no later pass takes it back.
THEOREM NameResolution == Spec => ImplementsLexicalScoping
<1>1. Init => IInv /\ RejectInv /\ Lexical!Init
  <2>1. ASSUME Init PROVE RejectInv /\ Lexical!Init
    <3>1. phase = "start" /\ ~has_errors /\ ast = <<>> /\ path = <<>>
      BY <2>1 DEF Init, ParserInit
    <3> QED BY <3>1, Verdicts DEF RejectInv, Undecided, Lexical!Init
  <2> QED BY <2>1, InitIInv
<1>2. IInv /\ RejectInv /\ [Next]_vars
          => (IInv /\ RejectInv)' /\ [Lexical!Next]_<<ast, path, ScopingVerdict>>
  BY StepIInv, StepRefines
<1> QED BY <1>1, <1>2, PTL DEF Spec, ImplementsLexicalScoping, Lexical!Spec

-----------------------------------------------------------------------------
\* The passes that go on after a diagnostic, to report more; and only the end
\* of the process sets its status.
FatalInv ==
    /\ has_errors \in BOOLEAN
    /\ has_errors => phase \in {"resolve", "check", "done"} /\ exit # "success"
    /\ phase # "done" => exit = "none"

\* What a step may do once a diagnostic was reported.
Fatal == has_errors => has_errors' /\ UNCHANGED genVars /\ exit' # "success"

\* No diagnostic has been reported before the compiler starts.
LEMMA InitFatal == Init => FatalInv
BY DEF Init, FatalInv

\* Going on to the next pass, and ending without success, keep FatalInv.
LEMMA StopIsFatal ==
    ASSUME FatalInv, NEW code \in {"failure", "crash"}, NEW reason, Stop(code, reason)
    PROVE  FatalInv' /\ has_errors' = has_errors /\ exit' # "success"
BY DEF FatalInv, Stop

LEMMA VerdictIsFatal ==
    ASSUME FatalInv, phase # "done", NEW pass, NEW next, next # "done", Verdict(pass, next)
    PROVE  FatalInv' /\ has_errors' = has_errors /\ exit' # "success"
BY DEF FatalInv, Verdict, Stop, Enter

\* A handler of a front-end pass that goes on, with or without a diagnostic.
LEMMA ReportIsFatal ==
    ASSUME FatalInv, phase \in {"resolve", "check"}, Step,
           has_errors' \in BOOLEAN, has_errors => has_errors'
    PROVE  FatalInv' /\ (has_errors => has_errors') /\ exit' # "success"
BY DEF FatalInv, Step

\* The parser ends with its first diagnostic.
LEMMA ParserIsFatal ==
    ASSUME FatalInv, ParserNext
    PROVE  FatalInv' /\ ~has_errors
<1>1. phase = "parse" /\ ~has_errors /\ exit = "none"
  BY DEF FatalInv, ParserNext, ParseLet, ParseReturn, ParseExpressionStmt, ParseFn, ParseTest,
     ParseTailExpression, ParseClose, ParseEof, ParseUnreadable, ParseSyntaxError,
     ParseHugeInteger, Reading
<1>2. CASE UNCHANGED runVars
  BY <1>1, <1>2 DEF runVars, FatalInv
<1>3. CASE ParseEof
  BY <1>1, <1>3 DEF ParseEof, Enter, FatalInv
<1>4. CASE ParseSyntaxError
  BY <1>4 DEF ParseSyntaxError, FatalInv
<1>5. CASE ParseUnreadable \/ ParseHugeInteger
  BY <1>1, <1>5, StopIsFatal DEF ParseUnreadable, ParseHugeInteger
<1> QED
  BY <1>1, <1>2, <1>3, <1>4, <1>5
  DEF ParserNext, ParseLet, ParseReturn, ParseExpressionStmt, ParseFn, ParseTest,
      ParseTailExpression, ParseClose

\* The resolver reports each error and goes on to its end.
LEMMA ResolverIsFatal ==
    ASSUME FatalInv, ResolverNext
    PROVE  FatalInv' /\ (has_errors => has_errors') /\ exit' # "success"
<1>1. phase = "resolve"
  BY DEF ResolverNext, ResolverBegin, ResolveChildren, ResolveIdentifier, ResolveCall,
     ResolveLet, ResolveBody, ResolveEnd, ResolverReturn, Resolving
<1>2. CASE ResolverReturn
  BY <1>1, <1>2, VerdictIsFatal DEF ResolverReturn
<1>3. CASE Step /\ has_errors' \in BOOLEAN /\ (has_errors => has_errors')
  BY <1>1, <1>3, ReportIsFatal
<1>4. CASE Step /\ UNCHANGED has_errors
  BY <1>3, <1>4 DEF FatalInv
<1>5. CASE Step /\ \E bad : Report(bad)
  BY <1>3, <1>5 DEF FatalInv, Report
<1> QED
  BY <1>2, <1>4, <1>5
  DEF ResolverNext, ResolverBegin, ResolveChildren, ResolveIdentifier, ResolveCall,
      ResolveLet, ResolveBody, ResolveEnd

\* The checker too, but where it crashes.
LEMMA CheckerIsFatal ==
    ASSUME FatalInv, CheckerNext
    PROVE  FatalInv' /\ (has_errors => has_errors') /\ exit' # "success"
<1>1. phase = "check"
  BY DEF CheckerNext, CheckerBegin, CheckIntLiteral, CheckIdentifier, CheckBinaryOperator,
     CheckCall, CheckIntrinsicCall, CheckLet, CheckReturn, CheckModuleReturn, CheckFn,
     CheckNestedFn, CheckTest, CheckEnd, CheckerReturn, Checking
<1>2. CASE CheckerReturn
  BY <1>1, <1>2, VerdictIsFatal DEF CheckerReturn
<1>3. CASE Step /\ has_errors' \in BOOLEAN /\ (has_errors => has_errors')
  BY <1>1, <1>3, ReportIsFatal
<1>4. CASE Step /\ UNCHANGED has_errors
  BY <1>3, <1>4 DEF FatalInv
<1>5. CASE Step /\ \E bad : Report(bad)
  BY <1>3, <1>5 DEF FatalInv, Report
<1>6. CASE CheckModuleReturn \/ CheckNestedFn
  BY <1>5, <1>6, StopIsFatal DEF CheckModuleReturn, CheckNestedFn, Infer
<1> QED
  BY <1>2, <1>4, <1>5, <1>6
  DEF CheckerNext, CheckerBegin, CheckIntLiteral, CheckIdentifier, CheckBinaryOperator,
      CheckCall, CheckIntrinsicCall, CheckLet, CheckReturn, CheckFn, CheckTest, CheckEnd,
      Infer

\* The generator only runs without a diagnostic, and reports none.
LEMMA GeneratorIsFatal ==
    ASSUME FatalInv, GenNext(run_tests)
    PROVE  FatalInv' /\ ~has_errors
<1>1. phase = "generate" /\ ~has_errors /\ exit = "none"
  BY DEF FatalInv, GenNext, GenBegin, GenIntLiteral, GenIdentifier, GenBinaryOperator, GenCall,
     GenIntrinsicCall, GenLet, GenReturn, GenFn, GenTest, GenEnd, GenFinish, Generating
<1>2. CASE Step /\ UNCHANGED has_errors
  BY <1>1, <1>2 DEF Step, FatalInv
<1>3. CASE \E reason : Stop("crash", reason)
  BY <1>1, <1>3, StopIsFatal
<1>4. CASE Enter("lower")
  BY <1>1, <1>4 DEF Enter, FatalInv
<1>5. \A op, args, sym, type :
          Create(op, args, sym, type) =>
              (Step /\ UNCHANGED has_errors) \/ Stop("crash", "null value")
  BY DEF Create
<1>6. CASE \E op, args, sym, type : Create(op, args, sym, type)
  BY <1>2, <1>3, <1>5, <1>6
<1>7. CASE GenIntLiteral \/ GenBinaryOperator \/ GenReturn
  BY <1>6, <1>7, Zenon DEF GenIntLiteral, GenBinaryOperator, GenReturn
<1>8. CASE GenCall \/ GenIntrinsicCall
  BY <1>3, <1>6, <1>8, Zenon DEF GenCall, GenIntrinsicCall
<1>9. CASE GenIdentifier \/ GenFn
  BY <1>2, <1>3, <1>9, Zenon DEF GenIdentifier, GenFn, EnterBody
<1>10. CASE GenBegin \/ GenLet \/ GenTest \/ GenEnd
  BY <1>2, <1>10, Zenon DEF GenBegin, GenLet, GenTest, GenEnd, EnterBody
<1>11. CASE GenFinish(run_tests)
  BY <1>4, <1>11 DEF GenFinish
<1> QED BY <1>7, <1>8, <1>9, <1>10, <1>11, Zenon DEF GenNext

\* main() runs nothing after a diagnostic.
LEMMA DriverIsFatal ==
    ASSUME FatalInv, Driver
    PROVE  FatalInv' /\ ~has_errors
<1>1. phase \in {"start", "lower", "execute"}
  BY DEF Driver, Usage, Start, EmitMLIR, Lower, EmitLLVM
<1>2. ~has_errors /\ exit = "none"
  BY <1>1 DEF FatalInv
<1>3. CASE \E code, reason : Stop(code, reason)
  BY <1>2, <1>3 DEF Stop, FatalInv
<1>4. CASE Enter("parse") \/ Enter("execute")
  BY <1>2, <1>4 DEF Enter, FatalInv
<1> QED BY <1>3, <1>4, Zenon DEF Driver, Usage, Start, EmitMLIR, Lower, EmitLLVM

\* The program runs without a diagnostic, and reports none.
LEMMA ExecutionIsFatal ==
    ASSUME FatalInv, ExecNext
    PROVE  FatalInv' /\ ~has_errors
<1>1. phase \in {"execute", "run"}
  BY DEF ExecNext, JITFails, RunInvalid, Invoke, RunIllFormed, RunConstant, RunArith, RunUndefined,
     RunCompare, RunAssert, RunCall, RunReturn, RunEnd, Running
<1>2. ~has_errors /\ exit = "none"
  BY <1>1 DEF FatalInv
<1>3. CASE \E code, reason : Stop(code, reason)
  BY <1>2, <1>3 DEF Stop, FatalInv
<1>4. CASE Invoke
  BY <1>2, <1>4 DEF Invoke, Enter, FatalInv
<1>5. CASE UNCHANGED runVars
  BY <1>2, <1>5 DEF runVars, FatalInv
<1>6. CASE JITFails \/ RunInvalid \/ RunIllFormed \/ RunEnd
  BY <1>3, <1>6, Zenon DEF JITFails, RunInvalid, RunIllFormed, RunEnd
<1>7. CASE RunConstant \/ RunArith \/ RunUndefined \/ RunCompare
  BY <1>3, <1>5, <1>7, Zenon DEF RunConstant, RunArith, RunUndefined, RunCompare, Result
<1>8. CASE RunAssert \/ RunCall \/ RunReturn
  BY <1>3, <1>5, <1>8, Zenon DEF RunAssert, RunCall, RunReturn, Result
<1> QED BY <1>4, <1>6, <1>7, <1>8, Zenon DEF ExecNext

\* Every step of the compiler keeps FatalInv, and does what Fatal allows.
LEMMA StepFatal == FatalInv /\ [Next]_vars => FatalInv' /\ Fatal
<1> SUFFICES ASSUME FatalInv, [Next]_vars PROVE FatalInv' /\ Fatal
  OBVIOUS
<1>1. CASE UNCHANGED <<runVars, genVars>>
  BY <1>1 DEF FatalInv, Fatal, runVars
<1>2. CASE ResolverNext /\ UNCHANGED genVars
  BY <1>2, ResolverIsFatal DEF Fatal
<1>3. CASE CheckerNext /\ UNCHANGED genVars
  BY <1>3, CheckerIsFatal DEF Fatal
<1>4. CASE ParserNext \/ GenNext(run_tests) \/ Driver \/ ExecNext
  BY <1>4, ParserIsFatal, GeneratorIsFatal, DriverIsFatal, ExecutionIsFatal DEF Fatal
<1>5. CASE Ended
  BY <1>1, <1>5 DEF Ended
<1>6. CASE UNCHANGED vars
  BY <1>1, <1>6 DEF vars
<1> QED BY <1>2, <1>3, <1>4, <1>5, <1>6, Zenon DEF Next, Execute

\* For every source and every command line: once a pass reported a diagnostic,
\* no pass takes it back, nothing is generated, and the command does not succeed.
THEOREM Diagnostics == Spec => DiagnosticsAreFatal
<1>1. Spec => []FatalInv
  BY InitFatal, StepFatal, PTL DEF Spec
<1>2. FatalInv /\ [Next]_vars => [Fatal]_vars
  BY StepFatal
<1>3. Spec => [][Fatal]_vars
  BY <1>1, <1>2, PTL DEF Spec
<1> QED BY <1>3 DEF DiagnosticsAreFatal, Fatal
=============================================================================
