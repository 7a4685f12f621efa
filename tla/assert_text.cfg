SPECIFICATION TextSpec
CONSTANTS
    Following <- Asserted
    Ending <- Unchanged
    MaxLength = 10
    MaxSpaced = 0
    IntMax = 5
    MaxReports = 0
INVARIANT
    MessageIsPredicate
CHECK_DEADLOCK FALSE
