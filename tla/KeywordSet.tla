----------------------------- MODULE KeywordSet -----------------------------
(***************************************************************************)
(* The keyword database of internal/keyword: the indexes NewSet builds     *)
(* over the generated keywords, the hierarchy of configuration modes       *)
(* (SectionTree), the overlay the feature folds in, and the two consumers  *)
(* that resolve a section before they ask: completion and the wrong-section *)
(* diagnostic.                                                             *)
(*                                                                         *)
(* A section id is the sequence of its "-"-separated segments, so that     *)
(* "config-router-af" is <<"config", "router", "af">>; the section "" of    *)
(* the global keywords, which is also "no parent", is <<>>.                *)
(***************************************************************************)
EXTENDS Naturals, Sequences

CONSTANTS
    Names,      \* command names
    Sections,   \* section ids the database or the grammar may use
    Overlay,    \* routerKeywordOverlay: the sections it adds to a name
    MaxEntries  \* a bound on the number of entries in the database

Global == <<>>
Config == <<"config">>

ASSUME KeywordAssumption ==
    /\ Config \in Sections
    /\ \A s \in Sections : s \in Seq(STRING) /\ s # Global
    /\ Overlay \in [Names -> SUBSET Sections]
    /\ MaxEntries \in Nat

VARIABLES
    all,           \* Set.all: the entries, in document order
    byNameSection, \* the sections a name is recorded valid in
    firstSection,  \* byNameFirstSection; Global where there is no entry
    tree,          \* Set.tree: the parent of every section it has a node for
    overlaid,      \* the names of the overlay folded in so far
    phase          \* "indexing" the slice; then "built"

vars == <<all, byNameSection, firstSection, tree, overlaid, phase>>

Entry == [name : Names, section : Sections \cup {Global}]

TypeOK ==
    /\ all \in Seq(Entry)
    /\ byNameSection \in [Names -> SUBSET (Sections \cup {Global})]
    /\ firstSection \in [Names -> Sections \cup {Global}]
    /\ DOMAIN tree \subseteq Sections
    /\ \A s \in DOMAIN tree : tree[s] \in Sections \cup {Global}
    /\ overlaid \subseteq Names
    /\ phase \in {"indexing", "built"}

Init ==
    /\ all = <<>>
    /\ byNameSection = [n \in Names |-> {}]
    /\ firstSection = [n \in Names |-> Global]
    /\ tree = [s \in {Config} |-> Global]
    /\ overlaid = {}
    /\ phase = "indexing"

-----------------------------------------------------------------------------
Entries == {all[i] : i \in DOMAIN all}

(* A fault: the key of the global keywords is not left out.                *)
AllSectionKeys == {kw.section : kw \in Entries}

(* Set.SectionsWithKeywords: the keys of bySection, "" excluded.           *)
SectionsWithKeywords == {kw.section : kw \in Entries} \ {Global}

MaxOf(S) == CHOOSE i \in S : \A k \in S : k <= i
MinOf(S) == CHOOSE i \in S : \A k \in S : i <= k
KnownPrefixes(s, longest, known) == {i \in 2..longest : SubSeq(s, 1, i) \in known}

(* A fault: the parent is the shortest known prefix.                       *)
FindTopmost(s, known) ==
    LET cuts == KnownPrefixes(s, Len(s) - 1, known)
    IN  IF cuts = {} THEN Config ELSE SubSeq(s, 1, MinOf(cuts))

(* findParent: strip the last segment until a known section is left, but   *)
(* never down to a single segment.                                         *)
FindParent(s, known) ==
    LET cuts == KnownPrefixes(s, Len(s) - 1, known)
    IN  IF cuts = {} THEN Config ELSE SubSeq(s, 1, MaxOf(cuts))

BuildSectionTree(sections) ==
    LET known == sections \cup {Config}
    IN  [s \in known |-> IF s = Config THEN Global ELSE FindParent(s, known)]

(* SectionTree.Parent and the walk up of SectionTree.Ancestors.            *)
Parent(s) == IF s \in DOMAIN tree THEN tree[s] ELSE Global
Climb(s, n) ==
    LET up[k \in Nat] == IF k = 0 THEN s ELSE Parent(up[k - 1])
    IN  up[n]
Ancestors(s) == {Climb(s, n) : n \in 1..Len(s) + 1} \ {Global}

NearestKnown(s, known) ==
    LET hits == {n \in 0..Len(s) + 1 : Climb(s, n) \in known}
    IN  IF hits = {} THEN Config
        ELSE Climb(s, MinOf(hits))

Lookup(name) == \E kw \in Entries : kw.name = name

(* Set.InSection: the names of the globals and of the section's keywords.  *)
InSection(s) == {kw.name : kw \in {e \in Entries : e.section \in {Global, s}}}

(* Faults: global keywords are not valid everywhere; a keyword is inherited *)
(* by the modes below its own but not valid in that one.                   *)
IsValidUnlessGlobal(name, s) ==
    \/ s \in byNameSection[name]
    \/ \E v \in byNameSection[name] \ {Global, Config} : v \in Ancestors(s)

IsValidBelow(name, s) ==
    \/ Global \in byNameSection[name]
    \/ \E v \in byNameSection[name] \ {Global, Config} : v \in Ancestors(s)

(* Set.IsValidInSection: global, recorded for s, or recorded for a mode    *)
(* above s other than the root.                                            *)
IsValidInSection(name, s) ==
    \/ {Global, s} \cap byNameSection[name] # {}
    \/ \E v \in byNameSection[name] \ {Global, Config} : v \in Ancestors(s)

(* How completion and the diagnostic settle the section they ask about,    *)
(* given the one the grammar detected.                                     *)
Collapsed(s) ==
    IF InSection(s) = {} THEN NearestKnown(s, SectionsWithKeywords) ELSE s

(* appendWrongSection, on a command in a section whose parse can be relied *)
(* on: whether the hint is emitted.  Its text names firstSection[name].    *)
WrongSection(name, s) ==
    /\ Lookup(name)
    /\ ~IsValidInSection(name, Collapsed(s))

-----------------------------------------------------------------------------
(* The loops of NewSet over the slice.                                     *)
Index(kw) ==
    /\ phase = "indexing"
    /\ Len(all) < MaxEntries
    /\ all' = Append(all, kw)
    /\ byNameSection' = [byNameSection EXCEPT ![kw.name] = @ \cup {kw.section}]
    /\ firstSection' = [firstSection EXCEPT
                           ![kw.name] = IF @ = Global THEN kw.section ELSE @]
    /\ UNCHANGED <<tree, overlaid, phase>>

BuildTree ==
    /\ phase = "indexing"
    /\ tree' = BuildSectionTree(SectionsWithKeywords)
    /\ phase' = "built"
    /\ UNCHANGED <<all, byNameSection, firstSection, overlaid>>

(* A fault: the overlay replaces what the database records.                *)
SetValidSections(name) ==
    /\ phase = "built"
    /\ name \notin overlaid
    /\ byNameSection' = [byNameSection EXCEPT ![name] = Overlay[name]]
    /\ overlaid' = overlaid \cup {name}
    /\ UNCHANGED <<all, firstSection, tree, phase>>

(* One round of New's loop over the overlay, a Go map: in any order.       *)
AddValidSections(name) ==
    /\ phase = "built"
    /\ name \notin overlaid
    /\ byNameSection' = [byNameSection EXCEPT ![name] = @ \cup Overlay[name]]
    /\ overlaid' = overlaid \cup {name}
    /\ UNCHANGED <<all, firstSection, tree, phase>>

(* New has returned; the database is not written again.                    *)
Ready == phase = "built" /\ overlaid = Names

Next ==
    \/ \E kw \in Entry : Index(kw)
    \/ BuildTree
    \/ \E name \in Names : AddValidSections(name)
    \/ Ready /\ UNCHANGED vars

Spec == Init /\ [][Next]_vars
-----------------------------------------------------------------------------
(* Properties.                                                             *)

IsAbove(p, s) == Len(p) < Len(s) /\ SubSeq(s, 1, Len(p)) = p

(* What stripping one segment at a time and following parents amounts to:  *)
(* the ancestors of a known section are exactly the known sections of two  *)
(* segments or more that it extends, and the root, none of them skipped;   *)
(* and the loop of Ancestors, which stops only at "", ends                 *)
(* (section.go:16-30, 67-76, 92-100).                                      *)
AncestorsArePrefixes ==
    phase = "built" =>
        \A s \in DOMAIN tree \ {Config} :
            /\ Ancestors(s) =
                 {Config} \cup {p \in DOMAIN tree : Len(p) >= 2 /\ IsAbove(p, s)}
            /\ Climb(s, Len(s) + 1) = Global

(* Two indexes that are kept apart agree: a keyword completion offers in a *)
(* section is not flagged there once the user has typed it                 *)
(* (completion.go:120-136 and diagnostics_section.go:27-51).               *)
CompletionNeverFlagged ==
    phase = "built" =>
        \A s \in Sections : \A name \in InSection(Collapsed(s)) : ~WrongSection(name, s)

(* The hint "X is valid in A, not in B" is true: the first entry of X does *)
(* name a section, X is valid in it, and it is not B                       *)
(* (diagnostics_section.go:64-75).                                         *)
HintIsTrue ==
    phase = "built" =>
        \A s \in Sections, name \in Names : WrongSection(name, s) =>
            /\ firstSection[name] \notin {Global, Collapsed(s)}
            /\ IsValidInSection(name, firstSection[name])

(* Folding in the overlay, in whatever order, only ever removes hints      *)
(* (keyword_overlay.go:10-26).                                             *)
OverlayOnlySuppresses ==
    [][phase = "built" => \A s \in Sections, name \in Names :
           WrongSection(name, s)' => WrongSection(name, s)]_vars
=============================================================================
