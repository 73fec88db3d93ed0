------------------------- MODULE DocumentPositions -------------------------
(***************************************************************************)
(* A position of a document: its line cut out of the text by ContentLine,  *)
(* its column converted on that line (server/encoding.go:64-92), and       *)
(* completion cutting the text before it out once more.                    *)
(***************************************************************************)
EXTENDS PositionEncoding, TextLines

VARIABLE lineNum  \* the position's line

(* A rune by its first byte: how many DecodeRuneInString takes, and what    *)
(* utf16Width says of it.                                                  *)
RuneOf(lead) ==
    CASE lead = "lead4" -> [bytes |-> 4, units |-> 2]
      [] lead = "lead3" -> [bytes |-> 3, units |-> 1]
      [] lead = "lead2" -> [bytes |-> 2, units |-> 1]
      [] lead \notin {"lead2", "lead3", "lead4"} -> [bytes |-> 1, units |-> 1]

(* The rune boundaries of a text, as the converters' loops find them: their *)
(* i and col after j rounds, while i is in the text.                       *)
LineOf(text) ==
    LET bytes[j \in 0..Len(text)] ==
            IF j = 0 THEN 0 ELSE LET i == bytes[j - 1] IN
                IF i < Len(text) THEN i + RuneOf(text[i + 1]).bytes ELSE i
        runes == Min({j \in 0..Len(text) : bytes[j] = Len(text)})
        units[j \in 0..runes] ==
            IF j = 0 THEN 0 ELSE units[j - 1] + RuneOf(text[bytes[j - 1] + 1]).units
    IN  [runes |-> runes,
         at |-> [s \in Scales |->
                    IF s = "bytes" THEN [j \in 0..runes |-> bytes[j]] ELSE units]]

DocumentInit ==
    /\ content \in Texts
    /\ lineNum \in 0..MaxRunes
    /\ line = LineOf(ContentLine(lineNum))
    /\ Init

DocumentNext == Next /\ UNCHANGED <<content, lineNum>>

DocumentSpec == DocumentInit /\ [][DocumentNext]_<<vars, content, lineNum>>

-----------------------------------------------------------------------------
(* Properties.                                                             *)

(* Completion reads exactly the part of the line that is before the        *)
(* cursor, in whole runes, although it cuts the line out on its own and is *)
(* given a column that was converted on the other's line                   *)
(* (completion.go:233-259 on server/encoding.go:64-72): no CR of a CRLF, no *)
(* byte of the next line, no half of a rune.                               *)
CompletionReadsToCursor ==
    leg >= 2 /\ scale = "UTF-16" => \E j \in Boundaries(line) :
        /\ RoundsDownTo("UTF-16", column, j)
        /\ lineUpToCharacter(lineNum, mid)
              = SubSeq(ContentLine(lineNum), 1, At("bytes", j))
=============================================================================
