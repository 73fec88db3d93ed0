SPECIFICATION Spec
CONSTANTS
    Malformed = Malformed
    None = None
    Versions <- MCVersions
    MinVersions <- MCMinVersions
    MaxNodes = 2
INVARIANTS
    ComparesPadded
    SkewIsExplained
PROPERTIES
    UpgradeNeverFlags
