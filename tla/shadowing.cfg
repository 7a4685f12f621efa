SPECIFICATION Spec
CONSTANTS
    Expressions <- ShadowExpressions
    Bindings <- LetX
    Signatures <- ShadowSignatures
    Invocations <- Build
    MaxNodes = 7
    Half <- Halves
    StackLimit = 3
    MaxNesting = 1
INVARIANT
    BodyHasFreshScope
