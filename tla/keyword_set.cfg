SPECIFICATION Spec
CONSTANTS
    Names <- MCNames
    Sections <- MCSections
    Overlay <- MCOverlay
    MaxEntries = 3
INVARIANTS
    TypeOK
    AncestorsArePrefixes
    CompletionNeverFlagged
    HintIsTrue
PROPERTIES
    OverlayOnlySuppresses
