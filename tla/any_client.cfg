SPECIFICATION Spec
CONSTANTS
    None = None
    URIs = {u1}
    Texts <- MCTexts
    Diags <- MCDiags
    TreeDiags <- MCTreeDiags
    RefDiags <- MCRefDiags
    Cisco = "cisco_ios_jinja2"
    Languages = {"cisco_ios_jinja2", "plaintext"}
    Encodings <- MCEncodings
    Offers <- MCOffers
    ChangeLists <- OneChange
    Methods <- SyncMethods
    MaxMessages = 4
    Discipline = "any"
INVARIANTS
    TypeOK
    NoUseAfterClose
    AnalysisMatchesStore
    NeverBehind
    ViewMatchesStore
    QuietBeforeInitialize
PROPERTIES
    AwaitedShutdown
    Refines
