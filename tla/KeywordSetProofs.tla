-------------------------- MODULE KeywordSetProofs --------------------------
(***************************************************************************)
(* That completion and the wrong-section hint agree, for every database,   *)
(* every family of sections and every overlay.  The inductive invariant     *)
(* ties the two derived indexes to the slice they are built from: every     *)
(* entry is recorded under its name, and the first section of a name is     *)
(* one of those recorded, missing only if all its entries are global.       *)
(* Nothing in that is of the shape of the section tree, which is proved    *)
(* apart: the parent of a section is the nearest mode above it.            *)
(***************************************************************************)
EXTENDS KeywordSet, Recursion, SequenceTheorems

Indexed ==
    /\ all \in Seq(Entry)
    /\ byNameSection \in [Names -> SUBSET (Sections \cup {Global})]
    /\ firstSection \in [Names -> Sections \cup {Global}]

Recorded == \A kw \in Entries : kw.section \in byNameSection[kw.name]

FirstRecorded ==
    /\ \A n \in Names : firstSection[n] # Global => firstSection[n] \in byNameSection[n]
    /\ \A kw \in Entries : firstSection[kw.name] = Global => kw.section = Global

IInv == Indexed /\ Recorded /\ FirstRecorded

-----------------------------------------------------------------------------
(* The entries are those of the slice.                                     *)
LEMMA EntriesType == Indexed => Entries \subseteq Entry
  BY DEF Indexed, Entries

(* Indexing an entry adds it to the entries and nothing else.              *)
LEMMA EntriesAppend ==
    ASSUME Indexed, NEW kw \in Entry, all' = Append(all, kw)
    PROVE  Entries' = Entries \cup {kw}
  <1>1. all \in Seq(Entry) /\ Len(all) \in Nat
    BY DEF Indexed
  <1>2. DOMAIN all = 1..Len(all) /\ DOMAIN all' = 1..Len(all) + 1
    BY <1>1
  <1>3. \A i \in DOMAIN all : all'[i] = all[i]
    BY <1>1, <1>2
  <1>4. all'[Len(all) + 1] = kw
    BY <1>1
  <1> QED
    BY <1>1, <1>2, <1>3, <1>4 DEF Entries

(* IInv holds before the first entry.                                      *)
LEMMA InitIInv == Init => IInv
  <1> SUFFICES ASSUME Init PROVE IInv
    OBVIOUS
  <1>1. Indexed
    BY DEF Init, Indexed
  <1>2. Entries = {}
    BY DEF Init, Entries
  <1>3. Recorded /\ FirstRecorded
    BY <1>2 DEF Init, Recorded, FirstRecorded
  <1> QED
    BY <1>1, <1>3 DEF IInv

(* Each entry of the slice, the tree and the overlay preserve IInv.        *)
LEMMA NextIInv == IInv /\ [Next]_vars => IInv'
  <1> SUFFICES ASSUME IInv, [Next]_vars PROVE IInv'
    OBVIOUS
  <1>t. Entries \subseteq Entry
    BY EntriesType DEF IInv
  <1>1. ASSUME NEW kw \in Entry, Index(kw) PROVE IInv'
    <2>1. Entries' = Entries \cup {kw}
      BY <1>1, EntriesAppend DEF Index, IInv
    <2>2. kw.name \in Names /\ kw.section \in Sections \cup {Global}
      BY <1>1 DEF Entry
    <2>3. Indexed'
      BY <1>1, <2>2 DEF Index, IInv, Indexed
    <2>4. \A n \in Names :
            byNameSection'[n] = IF n = kw.name THEN byNameSection[n] \cup {kw.section}
                                ELSE byNameSection[n]
      BY <1>1, <2>2 DEF Index, IInv, Indexed
    <2>5. \A n \in Names :
            firstSection'[n] = IF n = kw.name /\ firstSection[n] = Global
                               THEN kw.section ELSE firstSection[n]
      BY <1>1, <2>2 DEF Index, IInv, Indexed
    <2>6. \A e \in Entries : e.name \in Names
      BY <1>t DEF Entry
    <2>7. Recorded'
      BY <2>1, <2>2, <2>4, <2>6 DEF IInv, Recorded
    <2>8. FirstRecorded'
      <3>1. \A n \in Names : firstSection'[n] # Global => firstSection'[n] \in byNameSection'[n]
        BY <2>2, <2>4, <2>5 DEF IInv, FirstRecorded
      <3>2. \A e \in Entries \cup {kw} : firstSection'[e.name] = Global => e.section = Global
        BY <2>2, <2>5, <2>6 DEF IInv, FirstRecorded
      <3> QED
        BY <2>1, <3>1, <3>2 DEF FirstRecorded
    <2> QED
      BY <2>3, <2>7, <2>8 DEF IInv
  <1>2. CASE BuildTree
    BY <1>2 DEF BuildTree, IInv, Indexed, Recorded, FirstRecorded, Entries
  <1>3. ASSUME NEW name \in Names, AddValidSections(name) PROVE IInv'
    <2>1. \A n \in Names : byNameSection[n] \subseteq byNameSection'[n]
      BY <1>3 DEF AddValidSections, IInv, Indexed
    <2>2. Indexed'
      BY <1>3, KeywordAssumption DEF AddValidSections, IInv, Indexed
    <2>3. Entries' = Entries /\ firstSection' = firstSection
      BY <1>3 DEF AddValidSections, Entries
    <2>4. Recorded' /\ FirstRecorded'
      BY <1>t, <2>1, <2>3 DEF IInv, Recorded, FirstRecorded, Entry
    <2> QED
      BY <2>2, <2>4 DEF IInv
  <1>4. CASE UNCHANGED vars
    BY <1>4 DEF vars, IInv, Indexed, Recorded, FirstRecorded, Entries
  <1> QED
    BY <1>1, <1>2, <1>3, <1>4 DEF Next

(* IInv holds throughout.                                                  *)
LEMMA Invariance == Spec => []IInv
  BY InitIInv, NextIInv, PTL DEF Spec

-----------------------------------------------------------------------------
(* What completion offers in a section is not flagged there, whatever the  *)
(* database and however the section was collapsed (completion.go:118-132,  *)
(* diagnostics_section.go:27-49).                                          *)
THEOREM Agreement == Spec => []CompletionNeverFlagged
  <1>1. ASSUME IInv, NEW s \in Sections, NEW name \in InSection(Collapsed(s))
        PROVE  ~WrongSection(name, s)
    <2>1. PICK kw \in Entries : kw.section \in {Global, Collapsed(s)} /\ kw.name = name
      BY <1>1 DEF InSection
    <2>2. kw.section \in byNameSection[name]
      BY <1>1, <2>1 DEF IInv, Recorded
    <2>3. IsValidInSection(name, Collapsed(s))
      BY <2>1, <2>2 DEF IsValidInSection
    <2> QED
      BY <2>3 DEF WrongSection
  <1>2. IInv => CompletionNeverFlagged
    BY <1>1 DEF CompletionNeverFlagged
  <1> QED
    BY <1>2, Invariance, PTL

(* The hint names a section in which the keyword is valid, and another one *)
(* than it is flagged in (diagnostics_section.go:64-75).                   *)
THEOREM Hint == Spec => []HintIsTrue
  <1>1. ASSUME IInv, NEW s \in Sections, NEW name \in Names, WrongSection(name, s)
        PROVE  /\ firstSection[name] \notin {Global, Collapsed(s)}
               /\ IsValidInSection(name, firstSection[name])
    <2>1. PICK kw \in Entries : kw.name = name
      BY <1>1 DEF WrongSection, Lookup
    <2>2. {Global, Collapsed(s)} \cap byNameSection[name] = {}
      BY <1>1 DEF WrongSection, IsValidInSection
    <2>3. kw.section \in byNameSection[name] /\ kw.section # Global
      BY <1>1, <2>1, <2>2 DEF IInv, Recorded
    <2>4. firstSection[name] # Global
      BY <1>1, <2>1, <2>3 DEF IInv, FirstRecorded
    <2>5. firstSection[name] \in byNameSection[name]
      BY <1>1, <2>4 DEF IInv, FirstRecorded
    <2> QED
      BY <2>2, <2>4, <2>5 DEF IsValidInSection
  <1>2. IInv => HintIsTrue
    BY <1>1 DEF HintIsTrue
  <1> QED
    BY <1>2, Invariance, PTL

(* Folding in the overlay only removes hints, whatever the overlay and in  *)
(* whatever order its map is walked (keyword_overlay.go:10-26).            *)
THEOREM Overlaying == Spec => OverlayOnlySuppresses
  <1>1. ASSUME IInv, [Next]_vars, phase = "built",
               NEW s \in Sections, NEW name \in Names, WrongSection(name, s)'
        PROVE  WrongSection(name, s)
    <2>1. tree' = tree /\ all' = all /\ \A n \in Names : byNameSection[n] \subseteq byNameSection'[n]
      BY <1>1 DEF Next, vars, Index, BuildTree, AddValidSections, IInv, Indexed
    <2>2. Collapsed(s)' = Collapsed(s) /\ Ancestors(Collapsed(s))' = Ancestors(Collapsed(s))
          /\ Lookup(name)' = Lookup(name)
      BY <2>1 DEF Collapsed, InSection, Entries, NearestKnown, SectionsWithKeywords,
                  Climb, Parent, Ancestors, Lookup
    <2>3. IsValidInSection(name, Collapsed(s)) => IsValidInSection(name, Collapsed(s))'
      BY <2>1, <2>2 DEF IsValidInSection
    <2> QED
      BY <1>1, <2>2, <2>3 DEF WrongSection
  <1>2. IInv /\ [Next]_vars =>
            [phase = "built" => \A s \in Sections, name \in Names :
                WrongSection(name, s)' => WrongSection(name, s)]_vars
    BY <1>1
  <1> QED
    BY <1>2, Invariance, PTL DEF Spec, OverlayOnlySuppresses
-----------------------------------------------------------------------------
(* A set of naturals with a bound, unless it is empty, has a largest       *)
(* member, and MaxOf is that.                                              *)
LEMMA MaxOfBounded ==
    ASSUME NEW S \in SUBSET Nat, S # {}, NEW bound \in Nat, \A i \in S : i <= bound
    PROVE  MaxOf(S) \in S /\ \A k \in S : k <= MaxOf(S)
  <1> DEFINE room == {bound - i : i \in S}
  <1>1. room \in SUBSET Nat /\ room # {}
    <2>1. \A i \in S : bound - i \in Nat
      OBVIOUS
    <2> QED
      BY <2>1
  <1>2. PICK r \in room : \A q \in room : r <= q
    <2> HIDE DEF room
    <2> QED
      BY <1>1, LeastMember
  <1>3. PICK m \in S : r = bound - m
    BY <1>2
  <1>4. ASSUME NEW k \in S PROVE k <= m
    <2>1. bound - k \in room
      OBVIOUS
    <2> QED
      BY <1>2, <1>3, <2>1
  <1> QED
    BY <1>4 DEF MaxOf

(* What findParent returns: of the known modes of two segments or more     *)
(* that s extends the longest, and the root if there is none.              *)
LEMMA FindParentNearest ==
    ASSUME NEW s \in Seq(STRING), NEW known
    PROVE  \/ /\ FindParent(s, known) = Config
              /\ KnownPrefixes(s, Len(s) - 1, known) = {}
           \/ \E m \in KnownPrefixes(s, Len(s) - 1, known) :
                 /\ FindParent(s, known) = SubSeq(s, 1, m)
                 /\ \A k \in KnownPrefixes(s, Len(s) - 1, known) : k <= m
  <1> DEFINE cuts == KnownPrefixes(s, Len(s) - 1, known)
  <1>1. CASE cuts = {}
    BY <1>1 DEF FindParent
  <1>2. CASE cuts # {}
    <2>1. Len(s) \in Nat
      OBVIOUS
    <2>2. cuts \in SUBSET Nat /\ \A i \in cuts : i <= Len(s)
      BY <2>1 DEF KnownPrefixes
    <2>3. MaxOf(cuts) \in cuts /\ \A k \in cuts : k <= MaxOf(cuts)
      BY <1>2, <2>1, <2>2, MaxOfBounded
    <2> QED
      BY <1>2, <2>3 DEF FindParent
  <1> QED
    BY <1>1, <1>2

(* The keys the tree is built from are sections.                           *)
LEMMA KeysAreSections == Indexed => SectionsWithKeywords \subseteq Sections
  BY EntriesType DEF SectionsWithKeywords, Entry

(* The section tree maps known sections to known sections, and Config to   *)
(* the "" that ends the walk up.                                           *)
Rooted ==
    /\ DOMAIN tree \subseteq Sections
    /\ \A s \in DOMAIN tree : tree[s] \in Sections \cup {Global}
    /\ overlaid \subseteq Names
    /\ phase \in {"indexing", "built"}

(* The database keeps its types, of whatever depth the section ids are:    *)
(* what findParent cuts out of an id is an id the set knows                *)
(* (section.go:67-76).                                                     *)
THEOREM TypeCorrect == Spec => []TypeOK
  <1>1. Init => Rooted
    BY KeywordAssumption DEF Init, Rooted
  <1>2. IInv /\ Rooted /\ [Next]_vars => Rooted'
    <2> SUFFICES ASSUME IInv, Rooted, [Next]_vars PROVE Rooted'
      OBVIOUS
    <2>1. CASE BuildTree
      <3> DEFINE known == SectionsWithKeywords \cup {Config}
      <3>1. known \subseteq Sections
        BY KeysAreSections, KeywordAssumption DEF IInv
      <3>2. tree' = [s \in known |-> IF s = Config THEN Global ELSE FindParent(s, known)]
        BY <2>1 DEF BuildTree, BuildSectionTree
      <3>3. ASSUME NEW s \in known PROVE FindParent(s, known) \in Sections
        <4>1. s \in Seq(STRING)
          BY <3>1, <3>3, KeywordAssumption
        <4> QED
          BY <3>1, <4>1, FindParentNearest, KeywordAssumption DEF KnownPrefixes
      <3> QED
        BY <2>1, <3>1, <3>2, <3>3 DEF BuildTree, Rooted
    <2>2. ASSUME NEW kw \in Entry, Index(kw) PROVE Rooted'
      BY <2>2 DEF Index, Rooted
    <2>3. ASSUME NEW name \in Names, AddValidSections(name) PROVE Rooted'
      BY <2>3 DEF AddValidSections, Rooted
    <2>4. CASE UNCHANGED vars
      BY <2>4 DEF vars, Rooted
    <2> QED
      BY <2>1, <2>2, <2>3, <2>4 DEF Next
  <1>3. IInv /\ Rooted => TypeOK
    BY DEF IInv, Indexed, Rooted, TypeOK
  <1> QED
    BY <1>1, <1>2, <1>3, Invariance, PTL DEF Spec

(* No step up the section tree skips a mode: the parent of a section is a  *)
(* known mode it extends, with no known mode of two segments or more       *)
(* between the two, and the root if it extends none.                       *)
ParentIsNearest ==
    phase = "built" => \A s \in DOMAIN tree \ {Config} :
        LET above == {p \in DOMAIN tree : Len(p) >= 2 /\ IsAbove(p, s)}
        IN  \/ tree[s] = Config /\ above = {}
            \/ tree[s] \in above /\ \A p \in above : Len(p) <= Len(tree[s])

(* Each step of the walk up goes to the nearest mode above, for ids of any *)
(* depth and any database (section.go:92-100).                             *)
THEOREM Nearest == Spec => []ParentIsNearest
  <1>1. ASSUME NEW s \in Seq(STRING), NEW known, \A p \in known : p \in Seq(STRING)
        PROVE  LET above == {p \in known : Len(p) >= 2 /\ IsAbove(p, s)}
               IN  \/ FindParent(s, known) = Config /\ above = {}
                   \/ /\ FindParent(s, known) \in above
                      /\ \A p \in above : Len(p) <= Len(FindParent(s, known))
    <2> DEFINE above == {p \in known : Len(p) >= 2 /\ IsAbove(p, s)}
               cuts == KnownPrefixes(s, Len(s) - 1, known)
    <2>1. Len(s) \in Nat /\ \A p \in known : Len(p) \in Nat
      BY <1>1
    <2>2. ASSUME NEW p \in above PROVE Len(p) \in cuts
      <3>1. p \in known /\ Len(p) >= 2 /\ Len(p) < Len(s) /\ SubSeq(s, 1, Len(p)) = p
        BY DEF IsAbove
      <3>2. Len(p) \in 2..(Len(s) - 1)
        BY <2>1, <3>1
      <3> QED
        BY <3>1, <3>2 DEF KnownPrefixes
    <2>3. ASSUME NEW m \in cuts PROVE SubSeq(s, 1, m) \in above /\ Len(SubSeq(s, 1, m)) = m
      <3>1. m \in Nat /\ m >= 2 /\ m < Len(s) /\ SubSeq(s, 1, m) \in known
        BY <2>1 DEF KnownPrefixes
      <3>2. Len(SubSeq(s, 1, m)) = m
        BY <2>1, <3>1
      <3> QED
        BY <3>1, <3>2 DEF IsAbove
    <2>4. CASE cuts = {}
      BY <2>2, <2>4, FindParentNearest
    <2>5. CASE cuts # {}
      <3>1. PICK m \in cuts : FindParent(s, known) = SubSeq(s, 1, m) /\ \A k \in cuts : k <= m
        BY <2>5, FindParentNearest
      <3> QED
        BY <2>2, <2>3, <3>1
    <2> QED
      BY <2>4, <2>5
  <1>2. Init => ParentIsNearest
    BY DEF Init, ParentIsNearest
  <1>3. IInv /\ ParentIsNearest /\ [Next]_vars => ParentIsNearest'
    <2> SUFFICES ASSUME IInv, ParentIsNearest, [Next]_vars PROVE ParentIsNearest'
      OBVIOUS
    <2>1. CASE BuildTree
      <3> DEFINE known == SectionsWithKeywords \cup {Config}
      <3>1. \A p \in known : p \in Seq(STRING)
        BY KeysAreSections, KeywordAssumption DEF IInv
      <3>2. tree' = [s \in known |-> IF s = Config THEN Global ELSE FindParent(s, known)]
        BY <2>1 DEF BuildTree, BuildSectionTree
      <3>3. DOMAIN tree' = known /\ \A s \in known \ {Config} : tree'[s] = FindParent(s, known)
        BY <3>2
      <3> HIDE DEF known
      <3> QED
        BY <1>1, <3>1, <3>3 DEF ParentIsNearest
    <2>2. CASE tree' = tree /\ (phase' = "built" => phase = "built")
      BY <2>2 DEF ParentIsNearest
    <2> QED
      BY <2>1, <2>2 DEF Next, Index, AddValidSections, vars
  <1> QED
    BY <1>2, <1>3, Invariance, PTL DEF Spec

-----------------------------------------------------------------------------
(* What it is to be a shorter prefix, segment by segment.                  *)
LEMMA AboveBySegment ==
    ASSUME NEW p \in Seq(STRING), NEW s \in Seq(STRING)
    PROVE  IsAbove(p, s) <=> Len(p) < Len(s) /\ \A i \in 1..Len(p) : p[i] = s[i]
  <1>1. SUFFICES ASSUME Len(p) < Len(s)
                 PROVE  SubSeq(s, 1, Len(p)) = p <=> \A i \in 1..Len(p) : p[i] = s[i]
    BY DEF IsAbove
  <1> DEFINE cut == SubSeq(s, 1, Len(p))
  <1>2. /\ cut \in Seq(STRING) /\ Len(cut) = Len(p)
        /\ \A i \in 1..Len(p) : cut[i] = s[i]
    BY <1>1
  <1> HIDE DEF cut
  <1>3. cut = p <=> \A i \in 1..Len(p) : cut[i] = p[i]
    BY <1>2, SeqEqual
  <1> QED
    BY <1>2, <1>3 DEF cut

(* A prefix of a prefix is one; of two prefixes of an id, the shorter is a *)
(* prefix of the longer.                                                   *)
LEMMA AboveOrders ==
    ASSUME NEW p \in Seq(STRING), NEW q \in Seq(STRING), NEW s \in Seq(STRING), IsAbove(q, s)
    PROVE  /\ IsAbove(p, q) => IsAbove(p, s)
           /\ IsAbove(p, s) /\ Len(p) <= Len(q) => p = q \/ IsAbove(p, q)
  <1>1. Len(p) \in Nat /\ Len(q) \in Nat /\ Len(s) \in Nat
    OBVIOUS
  <1>2. Len(q) < Len(s) /\ \A i \in 1..Len(q) : q[i] = s[i]
    BY AboveBySegment
  <1>3. ASSUME IsAbove(p, q) PROVE IsAbove(p, s)
    BY <1>1, <1>2, <1>3, AboveBySegment
  <1>4. ASSUME IsAbove(p, s), Len(p) <= Len(q) PROVE p = q \/ IsAbove(p, q)
    <2>1. \A i \in 1..Len(p) : p[i] = q[i]
      BY <1>1, <1>2, <1>4, AboveBySegment
    <2>2. Len(p) = Len(q) => p = q
      BY <2>1, SeqEqual
    <2> QED
      BY <1>1, <1>4, <2>1, <2>2, AboveBySegment
  <1> QED
    BY <1>3, <1>4

(* Config is the root, and the only node without a parent.                 *)
ConfigIsRoot == phase = "built" => Config \in DOMAIN tree /\ tree[Config] = Global

(* Each step of the walk up goes to the parent of the mode before.         *)
LEMMA ClimbSteps ==
    ASSUME Rooted, NEW s
    PROVE  /\ Climb(s, 0) = s
           /\ \A n \in Nat : Climb(s, n + 1) = Parent(Climb(s, n))
  <1> DEFINE S == Sections \cup {Global, s}
             step == [n \in Nat |-> [m \in S |-> Parent(m)]]
             Walks(up) == up = [k \in Nat |-> IF k = 0 THEN s ELSE Parent(up[k - 1])]
             U == CHOOSE up : Walks(up)
  <1>1. \A m \in S : Parent(m) \in S
    BY DEF Parent, Rooted
  <1>2. step \in [Nat -> [S -> S]] /\ s \in S
    BY <1>1
  <1>3. PICK f : f \in Solutions(S, s, step)
    <2> HIDE DEF S, step
    <2> QED
      BY <1>2, Recursive
  <1>4. f \in [Nat -> S] /\ f[0] = s /\ \A n \in Nat : f[n + 1] = Parent(f[n])
    <2>1. f \in [Nat -> S] /\ f[0] = s /\ \A n \in Nat : f[n + 1] = step[n][f[n]]
      <3> HIDE DEF S, step
      <3> QED
        BY <1>3 DEF Solutions
    <2> HIDE DEF S
    <2> QED
      BY <2>1
  <1> HIDE DEF S
  <1>5. \A k \in Nat : f[k] = IF k = 0 THEN s ELSE Parent(f[k - 1])
    <2> TAKE k \in Nat
    <2>1. k # 0 => k - 1 \in Nat /\ k - 1 + 1 = k
      OBVIOUS
    <2> QED
      BY <1>4, <2>1
  <1>6. Walks(f)
    BY <1>4, <1>5
  <1>7. Walks(U)
    BY <1>6
  <1>8. \A n \in Nat : Climb(s, n) = U[n]
    BY DEF Climb
  <1> HIDE DEF U
  <1>9. U[0] = s /\ \A n \in Nat : U[n + 1] = Parent(U[n])
    <2>1. \A n \in Nat : n + 1 \in Nat /\ n + 1 # 0 /\ n + 1 - 1 = n
      OBVIOUS
    <2> QED
      BY <1>7, <2>1
  <1> QED
    BY <1>8, <1>9

Above(s) == {p \in DOMAIN tree : Len(p) >= 2 /\ IsAbove(p, s)}
Walked(s, n) == {Climb(s, m) : m \in 1..n}

(* Where n steps up from s lead: to a mode above s, with the others either *)
(* behind or above it; or, past all of them, to the root; or out of it.    *)
Climbing(s, n) ==
    LET c == Climb(s, n)
    IN  \/ /\ c \in IF n = 0 THEN {s} ELSE Above(s)
           /\ Len(c) + n <= Len(s)
           /\ Above(s) \subseteq Walked(s, n) \cup Above(c)
        \/ c = Config /\ n > 0 /\ Above(s) \subseteq Walked(s, n)
        \/ c = Global /\ Above(s) \cup {Config} \subseteq Walked(s, n)

(* One step further up.                                                    *)
LEMMA ClimbOn ==
    ASSUME Rooted, ConfigIsRoot, ParentIsNearest, phase = "built",
           NEW s \in DOMAIN tree \ {Config}, NEW n \in Nat, Climbing(s, n)
    PROVE  Climbing(s, n + 1)
  <1> DEFINE c == Climb(s, n)
             d == Climb(s, n + 1)
  <1>1. d = Parent(c) /\ Climb(s, 0) = s
    BY ClimbSteps
  <1>2. Walked(s, n + 1) = Walked(s, n) \cup {d}
    BY DEF Walked
  <1>3. \A p \in DOMAIN tree : p \in Seq(STRING) /\ p # Global /\ Len(p) \in Nat
    BY KeywordAssumption DEF Rooted
  <1>4. Config \in DOMAIN tree /\ tree[Config] = Global /\ Global \notin DOMAIN tree
    BY <1>3 DEF ConfigIsRoot
  <1>5. Config \notin Above(s) /\ Len(Config) = 1
    BY DEF Above, Config
  <1> HIDE DEF c, d
  <1>6. CASE /\ c \in IF n = 0 THEN {s} ELSE Above(s)
             /\ Len(c) + n <= Len(s)
             /\ Above(s) \subseteq Walked(s, n) \cup Above(c)
    <2>1. c \in DOMAIN tree \ {Config} /\ d = tree[c] /\ (c = s \/ IsAbove(c, s))
      BY <1>1, <1>5, <1>6 DEF Above, Parent
    <2>2. \/ tree[c] = Config /\ Above(c) = {}
          \/ tree[c] \in Above(c) /\ \A p \in Above(c) : Len(p) <= Len(tree[c])
      BY <2>1 DEF ParentIsNearest, Above
    <2>3. CASE tree[c] = Config /\ Above(c) = {}
      BY <1>2, <1>6, <2>1, <2>3 DEF Climbing, d
    <2>4. CASE tree[c] \in Above(c) /\ \A p \in Above(c) : Len(p) <= Len(tree[c])
      <3>1. d \in DOMAIN tree /\ Len(d) >= 2 /\ IsAbove(d, c)
        BY <2>1, <2>4 DEF Above
      <3>2. d \in Above(s)
        BY <1>3, <2>1, <3>1, AboveOrders DEF Above
      <3>3. Len(d) + (n + 1) <= Len(s)
        BY <1>3, <1>6, <2>1, <3>1 DEF IsAbove
      <3>4. ASSUME NEW p \in Above(c) PROVE p = d \/ p \in Above(d)
        <4>1. p \in DOMAIN tree /\ Len(p) >= 2 /\ IsAbove(p, c) /\ Len(p) <= Len(d)
          BY <2>1, <2>4, <3>4 DEF Above
        <4> QED
          BY <1>3, <2>1, <3>1, <4>1, AboveOrders DEF Above
      <3>5. Above(s) \subseteq Walked(s, n + 1) \cup Above(d)
        BY <1>2, <1>6, <3>4
      <3> QED
        BY <3>2, <3>3, <3>5 DEF Climbing, d
    <2> QED
      BY <2>2, <2>3, <2>4
  <1>7. CASE c = Config /\ n > 0 /\ Above(s) \subseteq Walked(s, n)
    <2>1. Config \in Walked(s, n) /\ d = Global
      BY <1>1, <1>4, <1>7 DEF Walked, Parent, c
    <2> QED
      BY <1>2, <1>7, <2>1 DEF Climbing, d
  <1>8. CASE c = Global /\ Above(s) \cup {Config} \subseteq Walked(s, n)
    <2>1. d = Global
      BY <1>1, <1>4, <1>8 DEF Parent
    <2> QED
      BY <1>2, <1>8, <2>1 DEF Climbing, d
  <1> QED
    BY <1>6, <1>7, <1>8 DEF Climbing, c

(* A mode's ancestors are the known modes it extends, to the last, and the *)
(* walk up that stops only at "" does stop, for ids of any depth and any   *)
(* database (section.go:92-100).                                           *)
THEOREM Ancestry == Spec => []AncestorsArePrefixes
  <1>1. ASSUME Rooted, ConfigIsRoot, ParentIsNearest, phase = "built",
               NEW s \in DOMAIN tree \ {Config}
        PROVE  /\ Ancestors(s) = {Config} \cup Above(s)
               /\ Climb(s, Len(s) + 1) = Global
    <2> DEFINE T == {n \in Nat : Climbing(s, n)}
    <2>1. \A p \in DOMAIN tree : p \in Seq(STRING) /\ p # Global /\ Len(p) \in Nat /\ Len(p) > 0
      BY <1>1, KeywordAssumption DEF Rooted, Global
    <2>2. 0 \in T
      BY <1>1, <2>1, ClimbSteps DEF Climbing
    <2>3. \A n \in Nat : n \in T => n + 1 \in T
      BY <1>1, ClimbOn
    <2>4. \A n \in Nat : n \in T
      <3> HIDE DEF T
      <3> QED
        BY <2>2, <2>3, Induction
    <2>5. \A n \in Nat : Climbing(s, n)
      BY <2>4
    <2>6. \A n \in Nat : n > 0 => Climb(s, n) \in Above(s) \cup {Config, Global}
      BY <2>5 DEF Climbing
    <2>7. Len(s) \in Nat /\ Config \notin Above(s) /\ Config # Global /\ Global \notin Above(s)
      BY <1>1, <2>1 DEF Above, Config, Global
    <2>8. Climb(s, Len(s)) \in {Config, Global}
      <3>1. ASSUME Climb(s, Len(s)) \in IF Len(s) = 0 THEN {s} ELSE Above(s),
                   Len(Climb(s, Len(s))) + Len(s) <= Len(s)
            PROVE  FALSE
        BY <1>1, <2>1, <2>7, <3>1 DEF Above
      <3> QED
        BY <2>5, <2>7, <3>1 DEF Climbing
    <2>9. Climb(s, Len(s) + 1) = Global
      BY <1>1, <2>7, <2>8, <2>1, ClimbSteps DEF Parent, ConfigIsRoot
    <2>10. Above(s) \cup {Config} \subseteq Walked(s, Len(s) + 1)
      BY <2>1, <2>5, <2>7, <2>9 DEF Climbing, Above
    <2>11. Ancestors(s) = Walked(s, Len(s) + 1) \ {Global}
      BY DEF Ancestors, Walked
    <2>12. Walked(s, Len(s) + 1) \subseteq Above(s) \cup {Config, Global}
      BY <2>6, <2>7 DEF Walked
    <2> QED
      BY <2>7, <2>9, <2>10, <2>11, <2>12
  <1>2. Rooted /\ ConfigIsRoot /\ ParentIsNearest => AncestorsArePrefixes
    BY <1>1 DEF AncestorsArePrefixes, Above
  <1>3. Spec => []ConfigIsRoot
    <2>1. Init => ConfigIsRoot
      BY DEF Init, ConfigIsRoot
    <2>2. ConfigIsRoot /\ [Next]_vars => ConfigIsRoot'
      BY DEF ConfigIsRoot, Next, Index, BuildTree, AddValidSections, vars, BuildSectionTree
    <2> QED
      BY <2>1, <2>2, PTL DEF Spec
  <1>4. TypeOK => Rooted
    BY DEF TypeOK, Rooted
  <1> QED
    BY <1>2, <1>3, <1>4, TypeCorrect, Nearest, PTL
=============================================================================
