--------------------------- MODULE LexicalScoping ---------------------------
(***************************************************************************)
(* What name resolution promises, as one step: a source is read, and then   *)
(* accepted if and only if it obeys the scoping rule.  A source that does   *)
(* not parse gets no verdict.                                               *)
(***************************************************************************)
EXTENDS Scoping

VARIABLE verdict  \* "none", then "accepted" or "rejected"

Init == ast = <<>> /\ path = <<>> /\ verdict = "none"

Read == verdict = "none" /\ ast' # ast /\ UNCHANGED verdict

Decide ==
    /\ verdict = "none"
    /\ verdict' = IF WellScoped THEN "accepted" ELSE "rejected"
    /\ UNCHANGED <<ast, path>>

Next == Read \/ Decide

Spec == Init /\ [][Next]_<<ast, path, verdict>>
=============================================================================
