----------------------------- MODULE Navigation -----------------------------
(***************************************************************************)
(* The features that answer from the symbol table: Go-To-Definition, Find- *)
(* References, the outline, and the two diagnostics on names.              *)
(***************************************************************************)
EXTENDS SymbolTable

Locations(found) == [i \in DOMAIN found |-> found[i].at]

(* Go-To-Definition.  References without a definition of their kind fall   *)
(* back to any definition of the name.                                     *)
Definition(pos) ==
    IF SymbolAt(pos) # <<>> THEN Locations(SymbolAt(pos))
    ELSE IF ReferenceAt(pos) = <<>> THEN <<>>
    ELSE LET ref == ReferenceAt(pos)[1]
             defs == Lookup(ref.kind, ref.name)
         IN  Locations(IF defs # <<>> THEN defs ELSE LookupAny(ref.name))

(* A definition site is preferred to a reference site.                     *)
resolveSymbolOrReference(pos) ==
    IF SymbolAt(pos) # <<>> THEN SymbolAt(pos) ELSE ReferenceAt(pos)

(* A fault: definitions of any kind are declarations of the name.          *)
ReferencesAnyKind(pos, includeDeclaration) ==
    IF resolveSymbolOrReference(pos) = <<>> THEN <<>>
    ELSE LET target == resolveSymbolOrReference(pos)[1]
         IN  Locations(ReferencesLookup(target.kind, target.name)) \o
             IF includeDeclaration THEN Locations(LookupAny(target.name)) ELSE <<>>

References(pos, includeDeclaration) ==
    IF resolveSymbolOrReference(pos) = <<>> THEN <<>>
    ELSE LET target == resolveSymbolOrReference(pos)[1]
         IN  Locations(ReferencesLookup(target.kind, target.name)) \o
             IF includeDeclaration
             THEN Locations(Lookup(target.kind, target.name)) ELSE <<>>

(* The outline.  0 is what a Go map returns for a key it does not have.    *)
lspSymbolKind ==
    [kind \in Kinds |->
        CASE kind = "interface" -> 11
          [] kind \in {"router", "route-map", "class-map", "policy-map"} -> 5
          [] kind = "vlan" -> 16
          [] kind \in {"line", "hostname"} -> 13
          [] kind \in {"redundancy", "acl"} -> 3
          [] OTHER -> 0]
DocumentSymbol ==
    [i \in DOMAIN All |-> [name |-> All[i].name, selection |-> All[i].at,
                           kind |-> lspSymbolKind[All[i].kind]]]

isBuiltInName(kind, name) == kind = "class-map" /\ name = "class-default"

(* A fault: a definition of any kind satisfies a reference.                *)
UndefinedOfAnyKind ==
    {i \in DOMAIN references :
        LET r == references[i]
        IN  ~isBuiltInName(r.kind, r.name) /\ LookupAny(r.name) = <<>>}

(* The references runUndefinedReferenceDiagnostics flags.                  *)
UndefinedReferences ==
    {i \in DOMAIN references :
        LET r == references[i]
        IN  ~isBuiltInName(r.kind, r.name) /\ Lookup(r.kind, r.name) = <<>>}

isSingletonKind(kind) == kind = "redundancy"

(* A fault: the key is the name alone.                                     *)
SameDefinitionName(s, t) == s.name = t.name

(* The key of firstSeen.                                                   *)
SameDefinition(s, t) == s.kind = t.kind /\ s.name = t.name

(* runDuplicateDefinitionDiagnostics: the definitions it flags, each with   *)
(* the first one seen under its key as related information.                *)
DuplicateDefinitions ==
    LET Seen(i) == {j \in 1..i - 1 : /\ ~isSingletonKind(All[j].kind)
                                     /\ SameDefinition(All[j], All[i])}
        Flagged == {i \in DOMAIN All : ~isSingletonKind(All[i].kind) /\ Seen(i) # {}}
    IN  {[at |-> All[i].at, first |-> All[CHOOSE j \in Seen(i) :
                                            \A k \in Seen(i) : j <= k].at] : i \in Flagged}

-----------------------------------------------------------------------------
(* Properties.                                                             *)

Uses == {r.at : r \in ToSet(references)}
DefinitionSites == {entry.selection : entry \in ToSet(DocumentSymbol)}

(* The names the comment on the pass exempts from it                       *)
(* (diagnostics_refs.go:30-31).                                            *)
BuiltInNames == {"class-default", "any", "all"}

(* The warning and the jump agree: a use, which is not also a definition,  *)
(* is flagged as undefined exactly when Go-To-Definition from it reaches   *)
(* nothing of its kind, whatever else it reaches by the name alone         *)
(* (diagnostics_refs.go:32-54, definition.go:26-49).  What becomes of the  *)
(* names the comment exempts is for BuiltInNeverFlagged to say.            *)
FlaggedIffUnreachable ==
    \A i \in DOMAIN references :
        LET r == references[i]
            reached == {s \in ToSet(symbols) : s.at \in ToSet(Definition(r.at))}
        IN  r.at \notin DefinitionSites /\ r.name \notin BuiltInNames =>
                (i \in UndefinedReferences <=> \A s \in reached : s.kind # r.kind)

(* "Built-in names that never have an explicit definition (class-default,  *)
(* any, all) are suppressed to avoid false positives"                      *)
(* (diagnostics_refs.go:30-31).                                            *)
BuiltInNeverFlagged ==
    \A i \in UndefinedReferences : references[i].name \notin BuiltInNames

(* References is "the exact inverse of find this symbol's usages": what is *)
(* found from one name leads back to it, and to the same set of places     *)
(* (references.go:21-25).  A token that is both a definition and a use is   *)
(* left out: the definition hides the use.                                 *)
ReferencesAreMutual ==
    LET found(pos) == ToSet(References(pos, TRUE))
    IN  \A p \in Uses \cup DefinitionSites :
            \A q \in found(p) \ (Uses \cap DefinitionSites) :
                found(q) = found(p)

(* Of the definitions of one kind and name exactly one is canonical: the   *)
(* one no warning is on, the one every warning on the others points to,    *)
(* and the first that Go-To-Definition lists from a use of the name        *)
(* (diagnostics_refs.go:68-101, definition.go:37-48).                      *)
OneCanonicalDefinition ==
    \A s \in ToSet(symbols) : ~isSingletonKind(s.kind) =>
        LET same == {t.at : t \in ToSet(Lookup(s.kind, s.name))}
            flagged == {d.at : d \in DuplicateDefinitions}
            uses == {r.at : r \in {r \in ToSet(references) :
                                     r.kind = s.kind /\ r.name = s.name}}
        IN  \E first \in same :
                /\ same \ flagged = {first}
                /\ \A d \in DuplicateDefinitions : d.at \in same => d.first = first
                /\ \A use \in uses \ DefinitionSites : Definition(use)[1] = first
=============================================================================
