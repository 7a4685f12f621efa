SPECIFICATION Spec
CONSTANTS
    Expressions <- HomonymExpressions
    Bindings = {}
    Signatures <- HomonymSignatures
    Invocations <- Build
    MaxNodes = 10
    Half <- Halves
    StackLimit = 3
    MaxNesting = 1
INVARIANT
    CallResolvesToNamed
