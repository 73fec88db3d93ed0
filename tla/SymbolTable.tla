---------------------------- MODULE SymbolTable ----------------------------
(***************************************************************************)
(* internal/symbols: what is extracted from the syntax tree of one         *)
(* document and how it is indexed.  Lookups never cross documents, so the  *)
(* table's entry for one URI is modelled.                                  *)
(*                                                                         *)
(* A tree is the sequence of its named nodes in the order walkNamed visits *)
(* them.  Of a section the tokens are the text of its header's name field, *)
(* <<>> when the header or the field is missing; the synthesized name of a *)
(* line stands for its header.  Of a statement they are all the tokens of  *)
(* the line, and `negated` tells whether a "no" encloses it.  A place is   *)
(* <<node, token>>: two tokens never overlap, so "the range that contains  *)
(* the position" is equality of places.                                    *)
(***************************************************************************)
EXTENDS Naturals, Sequences, SequencesExt

CONSTANTS
    Names,    \* the names definitions and references carry
    Nodes,    \* the syntax nodes an edit may add
    MaxNodes  \* a bound on the nodes of a document

SectionKind ==
    [interface_section |-> "interface", router_section |-> "router",
     address_family_section |-> "address-family", route_map_section |-> "route-map",
     class_map_section |-> "class-map", policy_map_section |-> "policy-map",
     policy_map_class_section |-> "policy-map-class", vlan_section |-> "vlan",
     line_section |-> "line", redundancy_section |-> "redundancy",
     ip_access_list_section |-> "acl"]
StatementKinds == {"access_list_statement", "hostname_statement", "class_statement",
                   "service_statement", "match_statement", "command_line"}
Kinds == {SectionKind[k] : k \in DOMAIN SectionKind} \cup {"hostname"}

ASSUME SymbolAssumption ==
    /\ \A n \in Nodes :
        /\ n.kind \in DOMAIN SectionKind \cup StatementKinds
        /\ n.tokens \in Seq(STRING)
        /\ n.negated \in BOOLEAN
        /\ n.kind \in DOMAIN SectionKind => Len(n.tokens) <= 1 /\ ~n.negated
    /\ MaxNodes \in Nat

VARIABLES
    root,          \* the tree of the stored text
    indexed,       \* whether the table has an entry for the document
    symbols,       \* docIndex.Symbols
    references,    \* docIndex.References
    byKindName,    \* pointers into symbols
    byName,        \* pointers into symbols
    byKindNameRef  \* pointers into references

vars == <<root, indexed, symbols, references, byKindName, byName, byKindNameRef>>

NoPointers == [k \in Kinds |-> [name \in Names |-> <<>>]]
Symbol(kind, name, i, token) == [kind |-> kind, name |-> name, at |-> <<i, token>>]

Init ==
    /\ root = <<>>
    /\ indexed = FALSE
    /\ symbols = <<>> /\ references = <<>>
    /\ byKindName = NoPointers /\ byKindNameRef = NoPointers
    /\ byName = [name \in Names |-> <<>>]

-----------------------------------------------------------------------------
(* Definitions.  Each extractor returns the symbols of one node: one or    *)
(* none.                                                                   *)
extractSection(n, i) ==
    IF n.kind \notin DOMAIN SectionKind THEN <<>>
    ELSE IF n.kind = "redundancy_section" THEN <<Symbol("redundancy", "redundancy", i, 1)>>
    ELSE [t \in DOMAIN n.tokens |-> Symbol(SectionKind[n.kind], n.tokens[t], i, t)]

extractACL(n, i) ==
    IF n.kind = "access_list_statement" /\ Len(n.tokens) >= 2
    THEN <<Symbol("acl", n.tokens[2], i, 2)>> ELSE <<>>

extractNamedACLCommandLine(n, i) ==
    IF /\ n.kind = "command_line" /\ Len(n.tokens) >= 4
       /\ SubSeq(n.tokens, 1, 2) = <<"ip", "access-list">>
       /\ n.tokens[3] \in {"standard", "extended"}
    THEN <<Symbol("acl", n.tokens[4], i, 4)>> ELSE <<>>

extractHostname(n, i) ==
    IF n.kind = "hostname_statement" /\ Len(n.tokens) >= 2
    THEN <<Symbol("hostname", n.tokens[2], i, 2)>> ELSE <<>>

(* A fault: the section form of a named ACL is extracted by both walks.    *)
extractFlatAndSection(n, i) ==
    extractACL(n, i) \o extractHostname(n, i) \o
        IF n.kind = "ip_access_list_section" THEN extractSection(n, i) ELSE <<>>

extractFlat(n, i) ==
    extractACL(n, i) \o extractHostname(n, i) \o extractNamedACLCommandLine(n, i)

(* Two walks: every section of the tree, then every flat statement.        *)
Extract(tree) ==
    FlattenSeq([i \in DOMAIN tree |-> extractSection(tree[i], i)]) \o
    FlattenSeq([i \in DOMAIN tree |-> extractFlat(tree[i], i)])

(* References.                                                             *)
refSpecs ==
    {[leading |-> <<"ip", "access-group">>, arg |-> 0, kind |-> "acl"],
     [leading |-> <<"access-class">>, arg |-> 0, kind |-> "acl"],
     [leading |-> <<"match", "ip", "address">>, arg |-> 0, kind |-> "acl"],
     [leading |-> <<"ip", "policy", "route-map">>, arg |-> 0, kind |-> "route-map"],
     [leading |-> <<"service", "-policy">>, arg |-> 1, kind |-> "policy-map"],
     [leading |-> <<"class">>, arg |-> 0, kind |-> "class-map"],
     [leading |-> <<"switchport", "access", "vlan">>, arg |-> 0, kind |-> "vlan"]}

NamePlace(spec) == Len(spec.leading) + spec.arg + 1
Cites(spec, n) == IsPrefix(spec.leading, n.tokens) /\ NamePlace(spec) <= Len(n.tokens)

(* No two leading sequences are prefixes of the same line.                 *)
extractCommandReference(n, i) ==
    IF n.kind \in StatementKinds /\ ~n.negated /\ \E spec \in refSpecs : Cites(spec, n)
    THEN LET spec == CHOOSE s \in refSpecs : Cites(s, n)
         IN  <<Symbol(spec.kind, n.tokens[NamePlace(spec)], i, NamePlace(spec))>>
    ELSE <<>>

extractSectionReference(n, i) ==
    IF n.kind = "policy_map_class_section"
    THEN [t \in DOMAIN n.tokens |-> Symbol("class-map", n.tokens[t], i, t)]
    ELSE <<>>

ExtractReferences(tree) ==
    FlattenSeq([i \in DOMAIN tree |->
        extractSectionReference(tree[i], i) \o extractCommandReference(tree[i], i)])

(* The indexes are Go maps, which have an entry for every name: Names holds *)
(* all that are extracted.                                                 *)
ASSUME NamesAssumption ==
    \A n \in Nodes, i \in 1..MaxNodes :
        \A found \in ToSet(extractSection(n, i)) \cup ToSet(extractFlat(n, i)) \cup
                     ToSet(extractSectionReference(n, i)) \cup
                     ToSet(extractCommandReference(n, i)) : found.name \in Names

-----------------------------------------------------------------------------
(* A fault: a later definition displaces the earlier one.                  *)
PointToLast(found, index, i) ==
    [index EXCEPT ![found[i].kind][found[i].name] = <<i>>]

(* docIndex.buildIndices: pointers, appended in the order of the slice.    *)
PointTo(found, index, i) ==
    [index EXCEPT ![found[i].kind][found[i].name] = Append(@, i)]

PointersByKindName(found) ==
    FoldLeft(LAMBDA index, i : PointTo(found, index, i), NoPointers,
             [i \in DOMAIN found |-> i])
PointersByName(found) ==
    FoldLeft(LAMBDA index, i : [index EXCEPT ![found[i].name] = Append(@, i)],
             [name \in Names |-> <<>>], [i \in DOMAIN found |-> i])

(* A fault: only the slices are cleared.                                   *)
ClearSlices ==
    /\ indexed
    /\ root' = <<>> /\ indexed' = FALSE /\ symbols' = <<>> /\ references' = <<>>
    /\ UNCHANGED <<byKindName, byName, byKindNameRef>>

(* Table.Index, on the tree of a new text.                                 *)
Index(tree) ==
    /\ root' = tree
    /\ indexed' = TRUE
    /\ symbols' = Extract(tree)
    /\ references' = ExtractReferences(tree)
    /\ byKindName' = PointersByKindName(Extract(tree))
    /\ byName' = PointersByName(Extract(tree))
    /\ byKindNameRef' = PointersByKindName(ExtractReferences(tree))

(* Table.Clear: the entry is deleted.                                      *)
Clear ==
    /\ indexed
    /\ root' = <<>> /\ indexed' = FALSE /\ symbols' = <<>> /\ references' = <<>>
    /\ byKindName' = NoPointers /\ byKindNameRef' = NoPointers
    /\ byName' = [name \in Names |-> <<>>]

Open == ~indexed /\ Index(<<>>)
AddNode == \E n \in Nodes :
    indexed /\ Len(root) < MaxNodes /\ Index(Append(root, n))
RemoveNode == indexed /\ root # <<>> /\ Index(Front(root))

Next == Open \/ AddNode \/ RemoveNode \/ Clear

Spec == Init /\ [][Next]_vars

-----------------------------------------------------------------------------
(* The lookups follow the pointers and copy.                               *)
Dereference(slice, pointers) == [j \in DOMAIN pointers |-> slice[pointers[j]]]

All == symbols
ReferencesAll == references
Lookup(kind, name) == Dereference(symbols, byKindName[kind][name])
LookupAny(name) == Dereference(symbols, byName[name])
ReferencesLookup(kind, name) == Dereference(references, byKindNameRef[kind][name])

(* SymbolAt and ReferenceAt: the first whose range contains the position,  *)
(* <<>> for nil.                                                           *)
FirstAt(slice, pos) ==
    LET here == {i \in DOMAIN slice : slice[i].at = pos}
    IN  IF here = {} THEN <<>> ELSE <<slice[Min(here)]>>
SymbolAt(pos) == FirstAt(symbols, pos)
ReferenceAt(pos) == FirstAt(references, pos)

-----------------------------------------------------------------------------
(* Properties.                                                             *)

(* The entry is there or is not, as a whole: no pointer of an index leaves  *)
(* the slice it points into (symbols.go:97-127).                           *)
TypeOK ==
    /\ root \in Seq(Nodes)
    /\ indexed \in BOOLEAN
    /\ \A found \in ToSet(symbols) \cup ToSet(references) :
        found.kind \in Kinds /\ found.name \in Names
    /\ \A kind \in Kinds, name \in Names :
        /\ ToSet(byKindName[kind][name]) \subseteq DOMAIN symbols
        /\ ToSet(byName[name]) \subseteq DOMAIN symbols
        /\ ToSet(byKindNameRef[kind][name]) \subseteq DOMAIN references

(* What a scan of a slice collects that picks the elements at some places. *)
LinearScan(slice, places) ==
    LET upTo[i \in 0..Len(slice)] ==
            IF i = 0 THEN <<>>
            ELSE IF i \in places THEN Append(upTo[i - 1], slice[i]) ELSE upTo[i - 1]
    IN  upTo[Len(slice)]

PlacesOfName(slice, name) == {i \in DOMAIN slice : slice[i].name = name}
PlacesOf(slice, kind, name) == {i \in PlacesOfName(slice, name) : slice[i].kind = kind}

(* The indexed lookups return "identical results to a linear scan"         *)
(* (symbols.go:60-62), in its order.                                       *)
LookupIsScan ==
    \A kind \in Kinds, name \in Names :
        /\ Lookup(kind, name) = LinearScan(symbols, PlacesOf(symbols, kind, name))
        /\ LookupAny(name) = LinearScan(symbols, PlacesOfName(symbols, name))
        /\ ReferencesLookup(kind, name) =
                LinearScan(references, PlacesOf(references, kind, name))

(* No token defines two symbols or is two references, so that the first    *)
(* match of SymbolAt and ReferenceAt is the only one and the outline lists *)
(* a definition once, although each node is walked twice                   *)
(* (symbols.go:226-259, 288-310).                                          *)
OnePerPlace ==
    /\ IsInjective([i \in DOMAIN symbols |-> symbols[i].at])
    /\ IsInjective([i \in DOMAIN references |-> references[i].at])
=============================================================================
