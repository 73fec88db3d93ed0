-------------------------- MODULE PositionEncoding --------------------------
(***************************************************************************)
(* The columns of a position on their way through the server: UTF-16 code  *)
(* units on the wire, UTF-8 bytes below it (internal/document/encoding.go; *)
(* internalPosition and wirePosition of internal/server/encoding.go).  A   *)
(* column makes two conversions, each a loop over the runes of the line:   *)
(* a request's there and back again, or an answer's out and back in the    *)
(* next request.                                                           *)
(*                                                                         *)
(* A line is given by the columns of its rune boundaries on both scales,   *)
(* as the table of encoding_test.go:17-35 gives its line.  With utf-8       *)
(* negotiated there is no conversion, and nothing to model.                *)
(***************************************************************************)
EXTENDS Integers

CONSTANTS
    Lines,     \* the lines considered
    MaxColumn  \* a bound on the columns asked for

Scales == {"UTF-16", "bytes"}
Other(scale) == IF scale = "UTF-16" THEN "bytes" ELSE "UTF-16"

(* A rune takes 1 to 4 bytes; two code units for the 4-byte ones.          *)
RuneWidths == {[bytes |-> 1, units |-> 1], [bytes |-> 2, units |-> 1],
               [bytes |-> 3, units |-> 1], [bytes |-> 4, units |-> 2]}

Boundaries(l) == 0..l.runes
IsLine(l) ==
    /\ l.runes \in Nat
    /\ l.at \in [Scales -> [Boundaries(l) -> Nat]]
    /\ \A s \in Scales :
        /\ l.at[s][0] = 0
        /\ \A j, k \in Boundaries(l) : j < k => l.at[s][j] < l.at[s][k]
    /\ \A k \in 0..l.runes - 1 :
        [bytes |-> l.at["bytes"][k + 1] - l.at["bytes"][k],
         units |-> l.at["UTF-16"][k + 1] - l.at["UTF-16"][k]] \in RuneWidths

ASSUME LinesAssumption == \A l \in Lines : IsLine(l)
ASSUME ColumnAssumption == MaxColumn \in Nat

VARIABLES
    line,   \* the line's text
    scale,  \* the scale of the first column
    leg,    \* which conversion is running: 1, 2, then 3 when both are done
    column, \* the first column
    mid,    \* what the first conversion returned
    back,   \* what the second returned
    k       \* runes consumed by the loop: its i and col are at[...][k]

vars == <<line, scale, leg, column, mid, back, k>>

At(s, j) == line.at[s][j]

Init ==
    /\ line \in Lines
    /\ scale \in Scales
    /\ column \in 0..MaxColumn
    /\ leg = 1 /\ k = 0 /\ mid = 0 /\ back = 0

-----------------------------------------------------------------------------
(* The scale and the argument of the call that runs.                       *)
From == IF leg = 1 THEN scale ELSE Other(scale)
Argument == IF leg = 1 THEN column ELSE mid

(* Faults: a rune is dropped when it ends at the column; a rune is taken   *)
(* when the column is inside it.                                           *)
UTF16BreaksEarly ==
    At("UTF-16", k + 1) - At("UTF-16", k) >= Argument - At("UTF-16", k)
UTF16BreaksLate == At("UTF-16", k) >= Argument

(* UTF16ToByte breaks on u > utf16Col-col, a subtraction of unsigned       *)
(* integers.                                                               *)
UTF16Breaks ==
    At("UTF-16", k + 1) - At("UTF-16", k) > Argument - At("UTF-16", k)

(* A fault: a byte inside a rune counts the whole rune.                    *)
ByteBreaksLate == At("bytes", k) >= Argument

(* ByteToUTF16 breaks on i+w > byteCol.                                    *)
ByteBreaks == At("bytes", k) + (At("bytes", k + 1) - At("bytes", k)) > Argument

Breaks == IF From = "UTF-16" THEN UTF16Breaks ELSE ByteBreaks

DecodeRune ==
    /\ leg \in {1, 2}
    /\ k < line.runes /\ ~Breaks
    /\ k' = k + 1
    /\ UNCHANGED <<line, scale, leg, column, mid, back>>

ReturnFirst ==
    /\ leg = 1
    /\ k < line.runes => Breaks
    /\ mid' = At(Other(From), k)
    /\ leg' = 2 /\ k' = 0
    /\ UNCHANGED <<line, scale, column, back>>

ReturnSecond ==
    /\ leg = 2
    /\ k < line.runes => Breaks
    /\ back' = At(Other(From), k)
    /\ leg' = 3
    /\ UNCHANGED <<line, scale, column, mid, k>>

Next == DecodeRune \/ ReturnFirst \/ ReturnSecond

Spec == Init /\ [][Next]_vars

-----------------------------------------------------------------------------
(* Properties.                                                             *)

TypeOK ==
    /\ line \in Lines
    /\ scale \in Scales
    /\ leg \in 1..3
    /\ column \in Nat /\ mid \in Nat /\ back \in Nat
    /\ k \in Boundaries(line)

(* The unsigned subtraction of UTF16ToByte never wraps around              *)
(* (encoding.go:36).                                                       *)
NoUnderflow == leg \in {1, 2} /\ From = "UTF-16" => At("UTF-16", k) <= Argument

(* j is where a column belongs: the last boundary not past it.             *)
RoundsDownTo(s, col, j) ==
    /\ At(s, j) <= col
    /\ j = line.runes \/ col < At(s, j + 1)

(* A column past the end clamps to the end, one inside a rune rounds down  *)
(* to its start, and any other is converted exactly (encoding.go:24-28,    *)
(* 45-49).                                                                 *)
RoundsDown ==
    leg >= 2 => \E j \in Boundaries(line) :
        RoundsDownTo(scale, column, j) /\ mid = At(Other(scale), j)

(* "The round-down keeps the two directions coherent": there and back is    *)
(* the column rounded down, the column itself if it is a boundary          *)
(* (encoding.go:45-49).                                                    *)
RoundTrip ==
    leg = 3 => \E j \in Boundaries(line) :
        RoundsDownTo(scale, column, j) /\ back = At(scale, j)

(* A cursor is inside a token on the wire exactly when its conversion is    *)
(* inside the token's bytes: requests hit the symbol the editor shows under *)
(* the cursor (symbols.go:264-275 on server/encoding.go:64-72).            *)
HitsSameToken ==
    leg >= 2 => \A p, q \in Boundaries(line) :
        At(scale, p) <= column /\ column < At(scale, q)
            <=> At(Other(scale), p) <= mid /\ mid < At(Other(scale), q)
=============================================================================
