------------------------ MODULE MCDocumentPositions ------------------------
(* Values for the constants of DocumentPositions: every line of up to      *)
(* MaxRunes runes of every width.                                          *)
EXTENDS DocumentPositions

MCLines == {LineOf(text) : text \in Texts}
=============================================================================
