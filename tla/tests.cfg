SPECIFICATION FairSpec
CONSTANTS
    Expressions <- TestExpressions
    Bindings = {}
    Signatures <- TestSignatures
    Invocations <- CommandLines
    MaxNodes = 6
    Half <- Halves
    StackLimit = 3
    MaxNesting = 1
INVARIANTS
    TestsRunInOrder
    CompilationInv
PROPERTIES
    ImplementsSource
    DiagnosticsAreFatal
    LastTestRuns
