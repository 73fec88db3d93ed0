SPECIFICATION Spec
CONSTANTS
    Names <- MCNames
    Nodes <- MCNodes
    MaxNodes = 3
INVARIANTS
    TypeOK
    LookupIsScan
    OnePerPlace
    FlaggedIffUnreachable
    ReferencesAreMutual
    OneCanonicalDefinition
