SPECIFICATION Spec
CONSTANTS
    Expressions <- TestExpressions
    Bindings = {}
    Signatures <- TestSignatures
    Invocations <- Build
    MaxNodes = 4
    Half <- Halves
    StackLimit = 3
    MaxNesting = 1
INVARIANT
    ReturnStackIsRead
