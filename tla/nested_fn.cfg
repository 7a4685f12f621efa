SPECIFICATION Spec
CONSTANTS
    Expressions <- TestExpressions
    Bindings = {}
    Signatures <- TestSignatures
    Invocations <- Build
    MaxNodes = 6
    Half <- Halves
    StackLimit = 3
    MaxNesting = 2
INVARIANT
    FnInsideBody
