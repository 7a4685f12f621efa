SPECIFICATION Spec
CONSTANTS
    Expressions <- CallExpressions
    Bindings = {}
    Signatures <- CallSignatures
    Invocations <- Build
    MaxNodes = 9
    Half <- Halves
    StackLimit = 3
    MaxNesting = 1
INVARIANTS
    AcceptedIsSound
    TypesAgree
    SoundnessInv
