SPECIFICATION Spec
CONSTANTS
    None = None
    URIs = {u1, u2}
    Texts <- MCTexts
    Diags <- MCDiags
    TreeDiags <- MCTreeDiags
    RefDiags <- MCRefDiags
    Cisco = "cisco_ios_jinja2"
    Languages = {"cisco_ios_jinja2", "plaintext"}
    Encodings <- MCEncodings
    Offers <- MCOffers
    ChangeLists <- OneChange
    Methods <- ConformingMethods
    MaxMessages = 6
    Discipline = "conforming"
SYMMETRY Documents
INVARIANTS
    NeverRefused
    StoreMirrorsEditor
    NothingRetained
