SPECIFICATION FairSpec
CONSTANTS
    None = None
    URIs = {u1}
    Texts <- MCTexts
    Diags <- MCDiags
    TreeDiags <- MCTreeDiags
    RefDiags <- MCRefDiags
    Cisco = "cisco_ios_jinja2"
    Languages = {"cisco_ios_jinja2", "plaintext"}
    Encodings <- MCEncodings
    Offers <- MCOffers
    ChangeLists <- TwoChanges
    Methods <- AllMethods
    MaxMessages = 3
    Discipline = "any"
PROPERTIES
    EveryRequestAnswered
    StopsAfterDisconnect
