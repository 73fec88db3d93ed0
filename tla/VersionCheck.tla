---------------------------- MODULE VersionCheck ----------------------------
(***************************************************************************)
(* The diagnostics on versions (diagnostics_version.go): the running       *)
(* version a `! version X` comment records, the configured version, and    *)
(* the commands introduced after the running one.                          *)
(*                                                                         *)
(* A version is the sequence of what strconv.Atoi makes of its components: *)
(* a number, or Malformed where it is an error.  A sign before a component, *)
(* which Atoi accepts, is left out.                                        *)
(***************************************************************************)
EXTENDS Integers, Sequences, SequencesExt

CONSTANTS
    Malformed,   \* a component that is not a number
    None,        \* no version
    Versions,    \* the versions a document may carry
    MinVersions, \* the versions in which some command was introduced
    MaxNodes     \* a bound on the top-level nodes

ASSUME VersionAssumption ==
    /\ Malformed \notin Nat /\ None \notin Versions
    /\ \A v \in Versions \cup MinVersions :
        v # <<>> /\ v \in Seq(Nat \cup {Malformed})
    /\ MaxNodes \in Nat

VARIABLE children  \* the top-level named nodes that matter here
Node == [kind : {"comment", "version_statement"}, version : Versions \cup {None}]

-----------------------------------------------------------------------------
IsNumeric(v) == \A i \in DOMAIN v : v[i] # Malformed

Least(S) == CHOOSE i \in S : \A k \in S : i <= k
Sign(i, k) == IF i < k THEN -1 ELSE IF i > k THEN 1 ELSE 0

(* The components where two versions differ, and the ones of v beyond n    *)
(* that are not zero.                                                      *)
Differences(a, b) == {i \in DOMAIN a \cap DOMAIN b : a[i] # b[i]}
HasTail(v, n) == \E i \in DOMAIN v : i > n /\ v[i] # 0

(* A fault: of two versions with a common prefix the longer is greater.    *)
compareByLength(a, b) ==
    IF Differences(a, b) # {}
    THEN LET i == Least(Differences(a, b)) IN Sign(a[i], b[i])
    ELSE Sign(Len(a), Len(b))

(* compareVersions of two numeric versions.                                *)
compareVersions(a, b) ==
    IF Differences(a, b) # {}
    THEN LET i == Least(Differences(a, b)) IN Sign(a[i], b[i])
    ELSE IF HasTail(a, Len(b)) THEN 1
    ELSE IF HasTail(b, Len(a)) THEN -1
    ELSE 0

Comparable(a, b) == IsNumeric(a) /\ IsNumeric(b)

(* The version of the first node of a kind that counts, None without one.  *)
FirstVersion(places) ==
    IF places = {} THEN None ELSE children[Least(places)].version

(* runningVersion: the first comment that records one.                     *)
runningVersion ==
    FirstVersion({i \in DOMAIN children :
                    children[i].kind = "comment" /\ children[i].version # None})

(* The first version_statement counts, with its field or without.          *)
ConfiguredVersion ==
    FirstVersion({i \in DOMAIN children : children[i].kind = "version_statement"})

(* A fault: the comparison is turned around.                               *)
IntroducedBefore(min) ==
    /\ runningVersion # None
    /\ Comparable(min, runningVersion)
    /\ compareVersions(min, runningVersion) < 0

(* appendCommandVersion, for a command introduced in release min.          *)
IntroducedLater(min) ==
    /\ runningVersion # None
    /\ Comparable(min, runningVersion)
    /\ compareVersions(min, runningVersion) > 0

(* A fault: only the major release is compared.                            *)
MajorMismatch ==
    /\ runningVersion # None /\ ConfiguredVersion # None
    /\ runningVersion[1] # ConfiguredVersion[1]

(* runVersionMismatchDiagnostics, on the text of the versions.             *)
VersionMismatch ==
    /\ runningVersion # None /\ ConfiguredVersion # None
    /\ runningVersion # ConfiguredVersion

-----------------------------------------------------------------------------
(* An edit adds a line, or changes the version one carries.                *)
Init == children = <<>>

AddLine(n) == Len(children) < MaxNodes /\ children' = Append(children, n)
Rewrite(i, v) == i \in DOMAIN children /\ children' = [children EXCEPT ![i].version = v]

Next ==
    \/ \E n \in Node : AddLine(n)
    \/ \E i \in 1..MaxNodes, v \in Versions : Rewrite(i, v)

Spec == Init /\ [][Next]_children
-----------------------------------------------------------------------------
(* Properties.                                                             *)

Flagged == {min \in MinVersions : IntroducedLater(min)}

(* Versions that differ in length compare as if the shorter one went on    *)
(* with zeros: "so 17.3 == 17.3.0" (diagnostics_version.go:133-141).       *)
ComparesPadded ==
    \A a \in MinVersions, b \in {n.version : n \in ToSet(children)} \ {None} :
        Comparable(a, b) =>
            LET Pad(v, i) == IF i \in DOMAIN v THEN v[i] ELSE 0
                places == {i \in DOMAIN a \cup DOMAIN b : Pad(a, i) # Pad(b, i)}
            IN  compareVersions(a, b) =
                    IF places = {} THEN 0
                    ELSE Sign(Pad(a, Least(places)), Pad(b, Least(places)))

(* Upgrading the running image never brings a hint up: a command that was  *)
(* in the old release is in the new one (diagnostics_version.go:69-83).    *)
UpgradeNeverFlags ==
    [][/\ runningVersion # None /\ runningVersion' # None
       /\ Comparable(runningVersion, runningVersion')
       /\ compareVersions(runningVersion, runningVersion') <= 0
       => Flagged' \subseteq Flagged]_children

(* A hint that contradicts the configuration is explained: a command held   *)
(* to be later than the running version but in the configured release      *)
(* comes with the mismatch error (diagnostics_version.go:15-27, 69-83).    *)
SkewIsExplained ==
    \A min \in Flagged :
        /\ ConfiguredVersion # None
        /\ Comparable(min, ConfiguredVersion)
        /\ compareVersions(min, ConfiguredVersion) <= 0
        => VersionMismatch
=============================================================================
