SPECIFICATION Spec
CONSTANTS
    Roots <- MCRoots
    Holds <- MCHolds
    Misplaced <- MCMisplaced
    MaxNodes = 5
INVARIANTS
    SuppressedIsSurfaced
    RecoveryReported
    ReportedOnce
    OpenersUnclosed
    ProtocolReaches
