------------------------- MODULE VersionCheckProofs -------------------------
(***************************************************************************)
(* compareVersions orders the numeric versions, of whatever length, as the *)
(* sequences of numbers they stand for, padded with zeros: so an upgrade   *)
(* never brings a hint up, and a hint against the configuration comes with *)
(* the mismatch.  Of the document only the types of its nodes are needed.  *)
(***************************************************************************)
EXTENDS VersionCheck, SequenceTheorems, WellFoundedInduction, TLAPS

Typed == children \in Seq(Node)

(* The component i of a version, and where the versions a and b differ.    *)
Pad(v, i) == IF i \in DOMAIN v THEN v[i] ELSE 0
Apart(a, b) == {i \in DOMAIN a \cup DOMAIN b : Pad(a, i) # Pad(b, i)}

(* a is the later of two versions.                                         *)
Later(a, b) ==
    \E i \in Nat \ {0} :
        Pad(a, i) > Pad(b, i) /\ \A k \in 1..i - 1 : Pad(a, k) = Pad(b, k)

-----------------------------------------------------------------------------
(* A non-empty set of numbers has a least one, and Least is that.          *)
LEMMA LeastOfNumbers ==
    ASSUME NEW S \in SUBSET Nat, S # {}
    PROVE  Least(S) \in S /\ \A k \in S : Least(S) <= k
  <1>1. PICK m \in S : \A k \in S : ~(<<k, m>> \in OpToRel(<, Nat))
    BY WFMin, NatLessThanWellFounded
  <1>2. ASSUME NEW k \in S PROVE ~(k < m)
    BY <1>1, <1>2 DEF OpToRel
  <1>3. \A k \in S : m <= k
    BY <1>2
  <1> QED
    BY <1>3 DEF Least

(* And there is no other.                                                  *)
LEMMA LeastIsTheOnly ==
    ASSUME NEW S \in SUBSET Nat, NEW m \in S, \A k \in S : m <= k
    PROVE  Least(S) = m
  <1>1. Least(S) \in S /\ \A k \in S : Least(S) <= k
    BY LeastOfNumbers
  <1>2. Least(S) <= m /\ m <= Least(S) /\ Least(S) \in Nat /\ m \in Nat
    BY <1>1
  <1> QED
    BY <1>2

(* A version all of whose components parse is a sequence of numbers.       *)
LEMMA NumericType ==
    ASSUME NEW v \in Seq(Nat \cup {Malformed}), IsNumeric(v)
    PROVE  v \in Seq(Nat)
  <1>1. v \in [1..Len(v) -> Nat \cup {Malformed}] /\ Len(v) \in Nat /\ DOMAIN v = 1..Len(v)
    OBVIOUS
  <1>2. \A i \in 1..Len(v) : v[i] \in Nat
    BY <1>1 DEF IsNumeric
  <1>3. v \in [1..Len(v) -> Nat]
    BY <1>1, <1>2
  <1> QED
    BY <1>1, <1>3

(* What padding does to a sequence of numbers.                             *)
LEMMA PadType ==
    ASSUME NEW v \in Seq(Nat)
    PROVE  /\ Len(v) \in Nat /\ DOMAIN v = 1..Len(v)
           /\ \A i \in Nat \ {0} : /\ Pad(v, i) \in Nat
                                   /\ i > Len(v) => Pad(v, i) = 0
                                   /\ i <= Len(v) => Pad(v, i) = v[i]
  BY DEF Pad

(* compareVersions decides at the first component where the padded         *)
(* versions differ.                                                        *)
LEMMA FirstDifferenceDecides ==
    ASSUME NEW a \in Seq(Nat), NEW b \in Seq(Nat)
    PROVE  compareVersions(a, b) =
              IF Apart(a, b) = {} THEN 0
              ELSE Sign(Pad(a, Least(Apart(a, b))), Pad(b, Least(Apart(a, b))))
  <1> DEFINE D == Differences(a, b)
             P == Apart(a, b)
  <1>1. /\ Len(a) \in Nat /\ DOMAIN a = 1..Len(a) /\ Len(b) \in Nat /\ DOMAIN b = 1..Len(b)
        /\ \A i \in Nat \ {0} : Pad(a, i) \in Nat /\ Pad(b, i) \in Nat
    BY PadType
  <1>2. D \in SUBSET Nat /\ P \in SUBSET Nat /\ D \subseteq P
    BY <1>1, PadType DEF Differences, Apart, Pad
  <1>3. \A i \in P : i \notin D =>
            \/ i > Len(a) /\ i \in DOMAIN b /\ b[i] # 0
            \/ i > Len(b) /\ i \in DOMAIN a /\ a[i] # 0
    BY <1>1 DEF Differences, Apart, Pad
  <1>4. CASE D # {}
    <2> DEFINE m == Least(D)
    <2>1. m \in D /\ \A k \in D : m <= k
      BY <1>2, <1>4, LeastOfNumbers
    <2>2. m \in P /\ m <= Len(a) /\ m <= Len(b) /\ m \in Nat \ {0}
      BY <1>1, <1>2, <2>1 DEF Differences
    <2>3. ASSUME NEW k \in P PROVE m <= k
      <3>1. k \in Nat /\ m \in Nat
        BY <1>2, <2>2
      <3>2. CASE k \in D
        BY <2>1, <3>2
      <3> HIDE DEF m
      <3>3. CASE k > Len(a)
        BY <1>1, <2>2, <3>1, <3>3
      <3>4. CASE k > Len(b)
        BY <1>1, <2>2, <3>1, <3>4
      <3> QED
        BY <1>3, <3>2, <3>3, <3>4
    <2>4. Least(P) = m
      BY <1>2, <2>2, <2>3, LeastIsTheOnly
    <2>5. Pad(a, m) = a[m] /\ Pad(b, m) = b[m]
      BY <2>2, PadType
    <2> QED
      BY <1>4, <2>2, <2>4, <2>5 DEF compareVersions
  <1>5. CASE D = {} /\ HasTail(a, Len(b))
    <2>1. PICK i \in DOMAIN a : i > Len(b) /\ a[i] # 0
      BY <1>5 DEF HasTail
    <2>2. i \in P
      BY <1>1, <2>1 DEF Apart, Pad
    <2>3. Least(P) \in P
      BY <1>2, <2>2, LeastOfNumbers
    <2>4. ASSUME NEW k \in P PROVE k \in 1..Len(a) /\ k > Len(b) /\ a[k] # 0
      <3>1. CASE k > Len(b) /\ k \in DOMAIN a /\ a[k] # 0
        BY <1>1, <3>1
      <3>2. ~(k > Len(a) /\ k \in DOMAIN b)
        BY <1>1, <2>1
      <3> QED
        BY <1>3, <1>5, <3>1, <3>2
    <2>5. Pad(a, Least(P)) > 0 /\ Pad(b, Least(P)) = 0
      BY <1>1, <2>3, <2>4, PadType DEF Pad
    <2>6. Sign(Pad(a, Least(P)), Pad(b, Least(P))) = 1
      BY <1>1, <1>2, <2>3, <2>4, <2>5 DEF Sign
    <2>7. compareVersions(a, b) = 1
      BY <1>5 DEF compareVersions
    <2> QED
      BY <2>2, <2>6, <2>7
  <1>6. CASE D = {} /\ ~HasTail(a, Len(b)) /\ HasTail(b, Len(a))
    <2>1. PICK i \in DOMAIN b : i > Len(a) /\ b[i] # 0
      BY <1>6 DEF HasTail
    <2>2. i \in P
      BY <1>1, <2>1 DEF Apart, Pad
    <2>3. Least(P) \in P
      BY <1>2, <2>2, LeastOfNumbers
    <2>4. ASSUME NEW k \in P PROVE k \in 1..Len(b) /\ k > Len(a) /\ b[k] # 0
      <3>1. CASE k > Len(a) /\ k \in DOMAIN b /\ b[k] # 0
        BY <1>1, <3>1
      <3>2. ~(k > Len(b) /\ k \in DOMAIN a)
        BY <1>1, <2>1
      <3> QED
        BY <1>3, <1>6, <3>1, <3>2
    <2>5. Pad(b, Least(P)) > 0 /\ Pad(a, Least(P)) = 0
      BY <1>1, <2>3, <2>4, PadType DEF Pad
    <2>6. Sign(Pad(a, Least(P)), Pad(b, Least(P))) = -1
      BY <1>1, <1>2, <2>3, <2>4, <2>5 DEF Sign
    <2>7. compareVersions(a, b) = -1
      BY <1>6 DEF compareVersions
    <2> QED
      BY <2>2, <2>6, <2>7
  <1>7. CASE D = {} /\ ~HasTail(a, Len(b)) /\ ~HasTail(b, Len(a))
    <2>1. P = {}
      BY <1>3, <1>7 DEF HasTail
    <2> QED
      BY <1>7, <2>1 DEF compareVersions
  <1> QED
    BY <1>4, <1>5, <1>6, <1>7

(* So the sign of compareVersions tells which of two versions is the later. *)
LEMMA SignOfComparison ==
    ASSUME NEW a \in Seq(Nat), NEW b \in Seq(Nat)
    PROVE  /\ compareVersions(a, b) > 0 <=> Later(a, b)
           /\ compareVersions(a, b) <= 0 =>
                Later(b, a) \/ \A i \in Nat \ {0} : Pad(a, i) = Pad(b, i)
  <1> DEFINE P == Apart(a, b)
             m == Least(P)
  <1>1. /\ Len(a) \in Nat /\ DOMAIN a = 1..Len(a) /\ Len(b) \in Nat /\ DOMAIN b = 1..Len(b)
        /\ \A i \in Nat \ {0} : Pad(a, i) \in Nat /\ Pad(b, i) \in Nat
    BY PadType
  <1>2. P \in SUBSET (Nat \ {0}) /\ \A i \in Nat \ {0} : i \in P <=> Pad(a, i) # Pad(b, i)
    BY <1>1 DEF Apart, Pad
  <1>3. CASE P = {}
    <2>1. \A i \in Nat \ {0} : Pad(a, i) = Pad(b, i)
      BY <1>2, <1>3
    <2>2. ~Later(a, b)
      BY <1>1, <2>1 DEF Later
    <2>3. compareVersions(a, b) = 0
      BY <1>3, FirstDifferenceDecides
    <2> QED
      BY <2>1, <2>2, <2>3
  <1>4. CASE P # {}
    <2>1. m \in P /\ \A k \in P : m <= k
      BY <1>2, <1>4, LeastOfNumbers
    <2>2. m \in Nat \ {0} /\ Pad(a, m) # Pad(b, m) /\ Pad(a, m) \in Nat /\ Pad(b, m) \in Nat
      BY <1>1, <1>2, <2>1
    <2>3. \A k \in Nat \ {0} : k < m => Pad(a, k) = Pad(b, k)
      BY <1>2, <2>1, <2>2
    <2>4. compareVersions(a, b) = Sign(Pad(a, m), Pad(b, m))
      BY <1>4, FirstDifferenceDecides
    <2> HIDE DEF m, P
    <2>5. CASE Pad(a, m) > Pad(b, m)
      <3>1. Later(a, b)
        BY <2>2, <2>3, <2>5 DEF Later
      <3>2. compareVersions(a, b) = 1
        BY <2>2, <2>4, <2>5 DEF Sign
      <3> QED
        BY <3>1, <3>2
    <2>6. CASE Pad(a, m) < Pad(b, m)
      <3>1. Later(b, a)
        BY <2>2, <2>3, <2>6 DEF Later
      <3>2. compareVersions(a, b) = -1
        BY <2>2, <2>4, <2>6 DEF Sign
      <3>3. ~Later(a, b)
        <4> SUFFICES ASSUME NEW i \in Nat \ {0}, Pad(a, i) > Pad(b, i),
                            \A k \in 1..i - 1 : Pad(a, k) = Pad(b, k)
                     PROVE  FALSE
          BY DEF Later
        <4>1. ~(i < m) /\ i # m
          BY <1>1, <2>2, <2>3, <2>6
        <4>2. m \in 1..i - 1
          BY <2>2, <4>1
        <4> QED
          BY <2>2, <4>2
      <3> QED
        BY <3>1, <3>2, <3>3
    <2> QED
      BY <2>2, <2>5, <2>6
  <1> QED
    BY <1>3, <1>4

(* What is later than a version is later than any that one is later than.  *)
LEMMA LaterIsTransitive ==
    ASSUME NEW a \in Seq(Nat), NEW b \in Seq(Nat), NEW c \in Seq(Nat),
           Later(a, b), Later(b, c)
    PROVE  Later(a, c)
  <1>1. \A i \in Nat \ {0} : Pad(a, i) \in Nat /\ Pad(b, i) \in Nat /\ Pad(c, i) \in Nat
    BY PadType
  <1>2. PICK i \in Nat \ {0} :
            Pad(a, i) > Pad(b, i) /\ \A k \in 1..i - 1 : Pad(a, k) = Pad(b, k)
    BY DEF Later
  <1>3. PICK j \in Nat \ {0} :
            Pad(b, j) > Pad(c, j) /\ \A k \in 1..j - 1 : Pad(b, k) = Pad(c, k)
    BY DEF Later
  <1>4. CASE i < j
    <2>1. i \in 1..j - 1 /\ \A k \in 1..i - 1 : k \in 1..j - 1
      BY <1>4
    <2> QED
      BY <1>1, <1>2, <1>3, <2>1 DEF Later
  <1>5. CASE i = j
    <2>1. Pad(a, i) > Pad(c, i)
      BY <1>1, <1>2, <1>3, <1>5
    <2> QED
      BY <1>2, <1>3, <1>5, <2>1 DEF Later
  <1>6. CASE j < i
    <2>1. j \in 1..i - 1 /\ \A k \in 1..j - 1 : k \in 1..i - 1
      BY <1>6
    <2> QED
      BY <1>1, <1>2, <1>3, <2>1 DEF Later
  <1> QED
    BY <1>4, <1>5, <1>6

-----------------------------------------------------------------------------
(* The running version is one a document may carry.                        *)
RunningTyped == runningVersion \in Versions \cup {None}

(* It is, where the nodes have their types.                                *)
LEMMA RunningType == Typed => RunningTyped
  <1> SUFFICES ASSUME Typed PROVE RunningTyped
    OBVIOUS
  <1> DEFINE found == {i \in DOMAIN children :
                          children[i].kind = "comment" /\ children[i].version # None}
  <1>1. \A i \in DOMAIN children : i \in Nat /\ children[i] \in Node
    BY DEF Typed
  <1>2. found \in SUBSET Nat /\ \A i \in found : children[i].version \in Versions \cup {None}
    BY <1>1 DEF Node
  <1>3. found # {} => Least(found) \in found
    BY <1>2, LeastOfNumbers
  <1> QED
    BY <1>2, <1>3 DEF RunningTyped, runningVersion, FirstVersion

(* The lines of a document keep their type.                                *)
LEMMA Typing == Spec => [](Typed /\ RunningTyped)
  <1>1. Init => Typed
    BY DEF Init, Typed
  <1>2. Typed /\ [Next]_children => Typed'
    <2> SUFFICES ASSUME Typed, [Next]_children PROVE Typed'
      OBVIOUS
    <2>1. ASSUME NEW n \in Node, AddLine(n) PROVE Typed'
      BY <2>1 DEF AddLine, Typed
    <2>2. ASSUME NEW i \in 1..MaxNodes, NEW v \in Versions, Rewrite(i, v) PROVE Typed'
      <3>1. i \in DOMAIN children /\ children[i] \in Node
        BY <2>2 DEF Rewrite, Typed
      <3>2. [children[i] EXCEPT !.version = v] \in Node
        BY <3>1 DEF Node
      <3> QED
        BY <2>2, <3>1, <3>2 DEF Rewrite, Typed
    <2> QED
      BY <2>1, <2>2 DEF Next, Typed
  <1> QED
    BY <1>1, <1>2, RunningType, PTL DEF Spec

(* Versions of any lengths compare as if the shorter went on with zeros    *)
(* (diagnostics_version.go:133-141, 164-193).                              *)
THEOREM Padded == Spec => []ComparesPadded
  <1>1. ASSUME Typed PROVE ComparesPadded
    <2> SUFFICES ASSUME NEW a \in MinVersions,
                        NEW b \in {n.version : n \in ToSet(children)} \ {None},
                        Comparable(a, b)
                 PROVE  compareVersions(a, b) =
                            IF Apart(a, b) = {} THEN 0
                            ELSE Sign(Pad(a, Least(Apart(a, b))), Pad(b, Least(Apart(a, b))))
      BY DEF ComparesPadded, Apart, Pad
    <2>1. b \in Versions
      <3>1. PICK i \in DOMAIN children : b = children[i].version
        BY DEF ToSet
      <3>2. children[i] \in Node
        BY <1>1 DEF Typed
      <3> QED
        BY <3>1, <3>2 DEF Node
    <2>2. a \in Seq(Nat) /\ b \in Seq(Nat)
      BY <2>1, VersionAssumption, NumericType DEF Comparable
    <2> QED
      BY <2>2, FirstDifferenceDecides
  <1> QED
    BY <1>1, Typing, PTL

(* A hint that contradicts the configuration comes with the mismatch error *)
(* (diagnostics_version.go:15-27, 69-83).                                  *)
THEOREM Explained == Spec => []SkewIsExplained
  <1>1. SkewIsExplained
    <2> SUFFICES ASSUME NEW min \in Flagged, ConfiguredVersion # None,
                        compareVersions(min, ConfiguredVersion) <= 0
                 PROVE  VersionMismatch
      BY DEF SkewIsExplained
    <2>1. /\ min \in MinVersions /\ runningVersion # None
          /\ compareVersions(min, runningVersion) > 0
      BY DEF Flagged, IntroducedLater
    <2>2. compareVersions(min, runningVersion) \in Int
      BY DEF compareVersions, Sign
    <2>3. runningVersion # ConfiguredVersion
      BY <2>1, <2>2
    <2> QED
      BY <2>1, <2>3 DEF VersionMismatch
  <1> QED
    BY <1>1, PTL

(* Recording a later running version never brings a hint up, whatever the  *)
(* lengths of the versions (diagnostics_version.go:69-83).                 *)
THEOREM Upgrading == Spec => UpgradeNeverFlags
  <1>1. ASSUME RunningTyped, RunningTyped', runningVersion # None, runningVersion' # None,
               Comparable(runningVersion, runningVersion'),
               compareVersions(runningVersion, runningVersion') <= 0,
               NEW min \in Flagged'
        PROVE  min \in Flagged
    <2> DEFINE r == runningVersion
               s == runningVersion'
    <2>1. r \in Versions /\ s \in Versions
      BY <1>1 DEF RunningTyped
    <2>2. min \in MinVersions /\ Comparable(min, s) /\ compareVersions(min, s) > 0
      BY <1>1 DEF Flagged, IntroducedLater
    <2>3. r \in Seq(Nat) /\ s \in Seq(Nat) /\ min \in Seq(Nat)
      BY <1>1, <2>1, <2>2, VersionAssumption, NumericType DEF Comparable
    <2>4. Later(min, s)
      BY <2>2, <2>3, SignOfComparison
    <2>5. Later(s, r) \/ \A i \in Nat \ {0} : Pad(r, i) = Pad(s, i)
      BY <1>1, <2>3, SignOfComparison
    <2> HIDE DEF r, s
    <2>6. ASSUME Later(s, r) PROVE Later(min, r)
      BY <2>3, <2>4, <2>6, LaterIsTransitive
    <2>7. ASSUME \A i \in Nat \ {0} : Pad(r, i) = Pad(s, i) PROVE Later(min, r)
      <3>1. PICK i \in Nat \ {0} :
                Pad(min, i) > Pad(s, i) /\ \A k \in 1..i - 1 : Pad(min, k) = Pad(s, k)
        BY <2>4 DEF Later
      <3>2. \A k \in 1..i - 1 : k \in Nat \ {0}
        OBVIOUS
      <3> QED
        BY <2>7, <3>1, <3>2 DEF Later
    <2>8. compareVersions(min, r) > 0
      BY <2>3, <2>5, <2>6, <2>7, SignOfComparison
    <2> QED
      BY <1>1, <2>2, <2>8 DEF r, Flagged, IntroducedLater, Comparable
  <1>2. RunningTyped /\ RunningTyped' =>
            [/\ runningVersion # None /\ runningVersion' # None
             /\ Comparable(runningVersion, runningVersion')
             /\ compareVersions(runningVersion, runningVersion') <= 0
             => Flagged' \subseteq Flagged]_children
    BY <1>1
  <1> QED
    BY <1>2, Typing, PTL DEF Spec, UpgradeNeverFlags
=============================================================================
