SPECIFICATION TextSpec
CONSTANTS
    Following <- Lengthened
    Ending <- Misplaced
    MaxLength = 6
    MaxSpaced = 4
    IntMax = 5
    MaxReports = 1
INVARIANTS
    SpansAreRenderable
    TreeFollowsPrecedence
    TreesAreWellFormed
    RangesNest
    DiagnosticsUnderlineNodes
    SyntaxErrorsAreReported
PROPERTY
    UsesEmitter
CHECK_DEADLOCK FALSE
