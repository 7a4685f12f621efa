SPECIFICATION Spec
CONSTANTS
    Expressions <- RunExpressions
    Bindings <- LetX
    Signatures <- RunSignatures
    Invocations <- Test
    MaxNodes = 11
    Half <- Halves
    StackLimit = 3
    MaxNesting = 1
INVARIANTS
    CompilationInv
    OperandsAreTyped
    ExecutionMatchesSource
PROPERTY
    ImplementsSource
