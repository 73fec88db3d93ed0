SPECIFICATION Spec
CONSTANTS
    None = None
    URIs = {u1}
    Texts <- MCTexts
    Diags <- MCDiags
    TreeDiags <- MCTreeDiags
    RefDiags <- MCRefDiags
    Cisco = "cisco_ios_jinja2"
    Languages = {"cisco_ios_jinja2"}
    Encodings <- MCEncodings
    Offers <- MCOffers
    ChangeLists <- OneChange
    Methods <- LifecycleMethods
    MaxMessages = 3
    Discipline = "any"
PROPERTIES
    ShutdownIsFinal
