SPECIFICATION Spec
CONSTANTS
    Expressions <- AssertExpressions
    Bindings <- LetX
    Signatures = {}
    Invocations <- Build
    MaxNodes = 6
    Half <- Halves
    StackLimit = 3
    MaxNesting = 1
INVARIANT
    AssertIsStatement
