---------------------------- MODULE MCLspSession ----------------------------
(* Values for the constants of LspSession and LspRefinement.               *)
EXTENDS LspRefinement, TLC

MCTexts == {"clean", "loose"}
MCDiags == {"syntax", "version", "undefined"}
MCTreeDiags == [t \in MCTexts |-> IF t = "clean" THEN {"syntax"} ELSE {"version"}]
MCRefDiags == [t \in MCTexts |-> IF t = "loose" THEN {"undefined"} ELSE {}]
MCEncodings == {"utf-8", "utf-16", "utf-32"}
MCOffers == {<<"utf-32", "utf-8">>}
OneChange == {<<t>> : t \in MCTexts}
TwoChanges == {<<>>} \cup OneChange \cup {<<"clean", "loose">>}

LifecycleMethods == {"initialize", "initialized", "shutdown", "textDocument/didOpen",
                     "textDocument/didChange", "textDocument/hover"}
SyncMethods == {"initialize", "shutdown", "textDocument/didOpen",
                "textDocument/didChange", "textDocument/didClose",
                "textDocument/hover", "textDocument/references"}
ConformingMethods == SyncMethods \ {"textDocument/references"}
AllMethods == LifecycleMethods \cup SyncMethods

(* Documents are interchangeable: nothing chooses among them.              *)
Documents == Permutations(URIs)
=============================================================================
