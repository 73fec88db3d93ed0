---------------------------- MODULE CiscoFeature ----------------------------
(***************************************************************************)
(* The mutable state of CiscoIOSFeature                                    *)
(* (internal/features/cisco_ios_jinja2/feature.go): the tree-sitter        *)
(* parser, the tree kept for each open URI and the symbol table.           *)
(*                                                                         *)
(* A parse tree and a symbol index are represented by the text they were   *)
(* built from: whether a tree is the tree of a given text is all that the  *)
(* properties tell apart.  What the diagnostic passes find in a text is a  *)
(* parameter, split as the code splits it into the tree passes (tier 1)    *)
(* and the symbol passes (tier 2).                                         *)
(***************************************************************************)
EXTENDS Naturals

CONSTANTS
    URIs,       \* the documents an editor may open
    Texts,      \* the contents a document may have
    None,       \* no document, no tree, no index, nothing published
    Diags,      \* what a diagnostic pass may report
    TreeDiags,  \* TreeDiags[t]: what runTreeDiagnostics reports for text t
    RefDiags    \* RefDiags[t]: what runRefDiagnostics reports for text t

ASSUME ContentAssumption ==
    /\ None \notin Texts
    /\ TreeDiags \in [Texts -> SUBSET Diags]
    /\ RefDiags \in [Texts -> SUBSET Diags]

VARIABLES
    parser,   \* f.parser: "open", or "freed" once Close has run
    trees,    \* f.trees[uri]: the text whose tree is kept, None if no entry
    symbols,  \* f.symbols: the text the index of uri was built from, or None
    orphans   \* trees overwritten in f.trees without having been closed

featureVars == <<parser, trees, symbols, orphans>>

FeatureTypeOK ==
    /\ parser \in {"open", "freed"}
    /\ trees \in [URIs -> Texts \cup {None}]
    /\ symbols \in [URIs -> Texts \cup {None}]
    /\ orphans \in Nat

FeatureInit ==
    /\ parser = "open"
    /\ trees = [u \in URIs |-> None]
    /\ symbols = [u \in URIs |-> None]
    /\ orphans = 0

-----------------------------------------------------------------------------
(* DidOpen up to the tier-1 publish.  The map entry is assigned without a  *)
(* look at the tree it may replace, which is then unreachable and open.    *)
OpenTree(u, t) ==
    /\ trees' = [trees EXCEPT ![u] = t]
    /\ orphans' = IF trees[u] = None THEN orphans ELSE orphans + 1
    /\ UNCHANGED <<parser, symbols>>

(* A fault: the old tree is not closed before it is replaced.              *)
ReplaceTreeUnclosed(u, t) == OpenTree(u, t)

(* A fault: the old tree is kept as if it were the parse of the new text.  *)
ReplaceTreeKeepsOld(u, t) ==
    /\ trees' = [trees EXCEPT ![u] = IF @ = None THEN t ELSE @]
    /\ UNCHANGED <<parser, symbols, orphans>>

(* DidChange up to the tier-1 publish: the old tree is closed.             *)
ReplaceTree(u, t) ==
    /\ trees' = [trees EXCEPT ![u] = t]
    /\ UNCHANGED <<parser, symbols, orphans>>

(* A fault: only a document without an index is indexed.                   *)
IndexSymbolsOnce(u) ==
    /\ symbols' = [symbols EXCEPT ![u] = IF @ = None THEN trees[u] ELSE @]
    /\ UNCHANGED <<parser, trees, orphans>>

(* symbols.Index on the tree just stored: the whole index of u is replaced.*)
IndexSymbols(u) ==
    /\ symbols' = [symbols EXCEPT ![u] = trees[u]]
    /\ UNCHANGED <<parser, trees, orphans>>

(* DidClose: the tree is closed and forgotten, the index cleared.          *)
DropDocument(u) ==
    /\ trees' = [trees EXCEPT ![u] = None]
    /\ symbols' = [symbols EXCEPT ![u] = None]
    /\ UNCHANGED <<parser, orphans>>

(* Close: every tree and the parser are freed; the symbol table is kept.   *)
CloseFeature ==
    /\ trees' = [u \in URIs |-> None]
    /\ parser' = "freed"
    /\ UNCHANGED <<symbols, orphans>>

(* A fault: the second publish carries the symbol passes only, although a  *)
(* publish replaces what the client had.                                   *)
RefsOnly(treeText, symbolText) == RefDiags[symbolText]

(* What the two publishes of one analysis carry: the tree passes alone,    *)
(* then, once the index is rebuilt, the union with the symbol passes.      *)
TierOne(t) == TreeDiags[t]
FullSet(treeText, symbolText) == TreeDiags[treeText] \cup RefDiags[symbolText]
=============================================================================
