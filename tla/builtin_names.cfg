SPECIFICATION Spec
CONSTANTS
    Names <- MCNames
    Nodes <- MCNodes
    MaxNodes = 3
INVARIANTS
    BuiltInNeverFlagged
