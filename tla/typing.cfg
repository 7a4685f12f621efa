SPECIFICATION Spec
CONSTANTS
    Expressions <- TypingExpressions
    Bindings <- TypingBindings
    Signatures <- TypingSignatures
    Invocations <- Build
    MaxNodes = 7
    Half <- Halves
    StackLimit = 3
    MaxNesting = 1
INVARIANTS
    ReturnTypesMirrorNesting
    AcceptedIsSound
    TypesAgree
    ValueIsLexical
