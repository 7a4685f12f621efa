------------------------------- MODULE Forge -------------------------------
(***************************************************************************)
(* main() of the `forge` command (tools/forge/main.cpp): the passes, in the *)
(* order in which it calls them, and how the process ends.                  *)
(***************************************************************************)
EXTENDS Parser, SymbolResolver, TypeChecker, Execution

VARIABLE argv  \* the command line, without the command

vars == <<runVars, argv, parserVars, resolverVars, checkerVars, genVars, stack>>

emit_mlir   == "--emit-mlir" \in Range(argv)
emit_llvm   == "--emit-llvm" \in Range(argv)
positionals == Remove(Remove(argv, "--emit-mlir"), "--emit-llvm")
subcommand  == positionals # <<>> /\ positionals[1] \in {"build", "test"}
run_tests   == positionals # <<>> /\ positionals[1] = "test"

\* An absent path is the empty one.
source_path ==
    LET file_index == IF subcommand THEN 2 ELSE 1
    IN  IF file_index \in DOMAIN positionals THEN positionals[file_index] ELSE ""

Init ==
    /\ argv \in Invocations
    /\ phase = "start" /\ pos = 0 /\ has_errors = FALSE /\ exit = "none" /\ why = "none"
    /\ ParserInit /\ ResolverInit /\ CheckerInit /\ GenInit /\ ExecInit

-----------------------------------------------------------------------------
Usage ==
    /\ phase = "start"
    /\ source_path = ""
    /\ Stop("success", "usage")

Start ==
    /\ phase = "start"
    /\ source_path # ""
    /\ Enter("parse")

EmitMLIR ==
    /\ phase = "lower"
    /\ emit_mlir
    /\ Stop("success", "--emit-mlir")

\* forge::lower converts a valid module; nothing verifies the module before,
\* so of an invalid one the conversion may make anything.
Lower ==
    /\ phase = "lower"
    /\ ~emit_mlir
    /\ \/ Enter("execute")
       \/ ~IRValid /\ \E code \in {"failure", "crash"} : Stop(code, "lower")

EmitLLVM ==
    /\ phase = "execute"
    /\ emit_llvm
    /\ Stop("success", "--emit-llvm")

\* The process has ended.
Ended == phase = "done" /\ UNCHANGED <<runVars, genVars>>

Driver == Usage \/ Start \/ EmitMLIR \/ Lower \/ EmitLLVM

\* main() calls forge::execute last, unless it only prints.
Execute == ~emit_llvm /\ ExecNext

Next ==
    \/ Driver /\ UNCHANGED <<parserVars, resolverVars, checkerVars, genVars, argv, stack>>
    \/ ParserNext /\ UNCHANGED <<resolverVars, checkerVars, genVars, argv, stack>>
    \/ ResolverNext /\ UNCHANGED <<parserVars, checkerVars, genVars, argv, stack>>
    \/ CheckerNext /\ UNCHANGED <<parserVars, resolverVars, genVars, argv, stack>>
    \/ GenNext(run_tests) /\ UNCHANGED <<parserVars, resolverVars, checkerVars, argv, stack>>
    \/ Execute /\ UNCHANGED <<parserVars, resolverVars, checkerVars, genVars, argv>>
    \/ Ended /\ UNCHANGED <<parserVars, resolverVars, checkerVars, argv, stack>>

Spec     == Init /\ [][Next]_vars
FairSpec == Spec /\ WF_vars(Next)
=============================================================================
