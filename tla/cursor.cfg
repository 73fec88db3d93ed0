SPECIFICATION Spec
CONSTANTS
    Symbols <- MCSymbols
    Gaps <- MCGaps
    Grammar <- MCGrammar
    Keywords <- MCKeywords
    Aliases <- MCAliases
INVARIANTS
    HoverIsNear
    TokenHoversItsCommand
    CompletionAsksAsChecked
CHECK_DEADLOCK FALSE
