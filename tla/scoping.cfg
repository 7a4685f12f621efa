SPECIFICATION Spec
CONSTANTS
    Expressions <- ScopingExpressions
    Bindings <- ScopingBindings
    Signatures <- ScopingSignatures
    Invocations <- Build
    MaxNodes = 6
    Half <- Halves
    StackLimit = 3
    MaxNesting = 2
INVARIANTS
    TypeOK
    IInv
    LookupsSucceed
    GeneratorInv
PROPERTY
    ImplementsLexicalScoping
