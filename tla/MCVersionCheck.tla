--------------------------- MODULE MCVersionCheck ---------------------------
(* Values for the constants of VersionCheck: versions of up to three       *)
(* components, with zeros that count and zeros that do not.                *)
EXTENDS VersionCheck

Numeric == UNION {[1..n -> 0..1] : n \in 1..3}
MCMinVersions == Numeric \cup {<<1, Malformed>>}
MCVersions == Numeric \cup {<<Malformed>>, <<1, Malformed>>}
=============================================================================
