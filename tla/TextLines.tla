----------------------------- MODULE TextLines -----------------------------
(***************************************************************************)
(* The two places that cut a line out of a document's text, which has no   *)
(* line index (document.go:3-18): Document.ContentLine, on which positions  *)
(* are converted, and lineUpToCharacter, on which completion decides       *)
(* whether the cursor is past a keyword.  Text is a sequence of bytes: a    *)
(* terminator, "x" for any other ASCII byte, or the bytes of a longer rune. *)
(***************************************************************************)
EXTENDS Naturals, Sequences, SequencesExt

CONSTANT MaxRunes  \* a bound on the length of the text, in runes

ASSUME TextAssumption == MaxRunes \in Nat

VARIABLE content

Runes == {<<"x">>, <<"CR">>, <<"LF">>, <<"lead2", "cont">>, <<"lead3", "cont", "cont">>,
          <<"lead4", "cont", "cont", "cont">>}
Texts == {FlattenSeq(runes) : runes \in UNION {[1..n -> Runes] : n \in 0..MaxRunes}}

(* The text up to its first LF, and the text after it.                     *)
Segment(text) == SelectInSeq(text, LAMBDA b : b = "LF")
UpToLF(text) == IF Segment(text) = 0 THEN text ELSE SubSeq(text, 1, Segment(text) - 1)
AfterLF(text) ==
    IF Segment(text) = 0 THEN <<>> ELSE SubSeq(text, Segment(text) + 1, Len(text))

(* A fault: the CR of a CRLF is kept.                                      *)
KeepCR(text) == text

TrimCR(text) == IF text # <<>> /\ Last(text) = "CR" THEN Front(text) ELSE text

(* Document.ContentLine: n lines are cut off, the next one is returned.    *)
ContentLine(n) ==
    LET rest[j \in 0..n] == IF j = 0 THEN content ELSE AfterLF(rest[j - 1])
    IN  TrimCR(UpToLF(rest[n]))

(* A fault: the line after the wanted one is searched for its end.         *)
ScanPast(lineNum, scan, i) ==
    IF scan.lineEnd # 0 \/ content[i] # "LF" THEN scan
    ELSE IF scan.curLine > lineNum THEN [scan EXCEPT !.lineEnd = i]
    ELSE [scan EXCEPT !.curLine = @ + 1, !.start = i]

(* One byte of the loop of lineUpToCharacter; lineEnd is 0 until found,    *)
(* then the place of the LF, and start the number of bytes before the line. *)
Scan(lineNum, scan, i) ==
    IF scan.lineEnd # 0 \/ content[i] # "LF" THEN scan
    ELSE IF scan.curLine = lineNum THEN [scan EXCEPT !.lineEnd = i]
    ELSE [scan EXCEPT !.curLine = @ + 1, !.start = i]

ScanText(lineNum) ==
    FoldLeftDomain(LAMBDA scan, i : Scan(lineNum, scan, i),
                   [curLine |-> 0, start |-> 0, lineEnd |-> 0], content)

lineUpToCharacter(lineNum, char) ==
    LET end == ScanText(lineNum)
        lineEnd == IF end.lineEnd # 0 THEN end.lineEnd - 1 ELSE Len(content)
    IN  IF end.lineEnd = 0 /\ end.curLine # lineNum THEN <<>>
        ELSE IF char < lineEnd - end.start
        THEN SubSeq(content, end.start + 1, end.start + char)
        ELSE SubSeq(content, end.start + 1, lineEnd)

-----------------------------------------------------------------------------
(* Properties.                                                             *)

(* Where a line ends: an LF, or a CR before an LF or at the end of the text *)
(* (encoding.go:75-77).                                                    *)
IsTerminator(i) ==
    \/ content[i] = "LF"
    \/ content[i] = "CR" /\ (i = Len(content) \/ content[i + 1] = "LF")

(* The lines are the text: joined, they are all of it but the terminators,  *)
(* so that no byte is on two lines or on none.                             *)
LinesAreTheText ==
    LET kept[i \in 0..Len(content)] ==
            IF i = 0 THEN <<>>
            ELSE IF IsTerminator(i) THEN kept[i - 1]
            ELSE Append(kept[i - 1], content[i])
    IN  FlattenSeq([n \in 1..Len(content) + 1 |-> ContentLine(n - 1)]) = kept[Len(content)]
=============================================================================
