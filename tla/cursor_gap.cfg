SPECIFICATION Spec
CONSTANTS
    Symbols <- MCSymbols
    Gaps <- MCGaps
    Grammar <- MCGrammar
    Keywords <- MCKeywords
    Aliases <- MCAliases
INVARIANT GapIsTokenBefore
CHECK_DEADLOCK FALSE
