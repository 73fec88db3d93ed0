-------------------------- MODULE DocumentService ---------------------------
(***************************************************************************)
(* What the language server promises the person who edits, without gate,   *)
(* queue, handler, parse tree, symbol index or second publish: an edit is  *)
(* stored and analysed in one step, the diagnostics shown are those of the *)
(* text stored, a question is answered from the text stored when it is     *)
(* looked up, and the service ends in one step although documents may      *)
(* still be stored after it.  LspRefinement shows that a session           *)
(* implements it.                                                          *)
(***************************************************************************)
CONSTANTS
    URIs,       \* the documents
    Languages,  \* the languages a document may be in
    Handled,    \* those the service analyses
    Texts,      \* the texts a document may have
    Diags,      \* what an analysis may report
    Report,     \* Report[t]: the set of Diags the analysis of t reports
    Ids,        \* the names of the questions
    None        \* no document, nothing shown

Content == [lang : Languages, text : Texts]

VARIABLES
    mode,       \* "Created", "Initialized" or "ShutDown"
    serving,    \* are documents analysed and questions answered?
    store,      \* the content of each document, or None
    shown,      \* the diagnostics shown for each document, or None
    listening,  \* is there anybody to show them to?
    asked       \* the questions open, each with the text its answer is about

vars == <<mode, serving, store, shown, listening, asked>>

TypeOK ==
    /\ mode \in {"Created", "Initialized", "ShutDown"}
    /\ serving \in BOOLEAN
    /\ store \in [URIs -> Content \cup {None}]
    /\ shown \in [URIs -> (SUBSET Diags) \cup {None}]
    /\ listening \in BOOLEAN
    /\ asked \subseteq [id : Ids, about : Texts]

Init ==
    /\ mode = "Created"
    /\ serving = TRUE
    /\ store = [u \in URIs |-> None]
    /\ shown = [u \in URIs |-> None]
    /\ listening = TRUE
    /\ asked = {}

Initialize ==
    /\ mode' = "Initialized"
    /\ UNCHANGED <<serving, store, shown, listening, asked>>

(* The service ends with the mode, never to come back.                     *)
Shutdown ==
    /\ mode = "Initialized"
    /\ mode' = "ShutDown"
    /\ serving' = FALSE
    /\ UNCHANGED <<store, shown, listening, asked>>

(* The content of u becomes c and, if that can be analysed, what is shown  *)
(* of u becomes the report on it.                                          *)
Put(u, c) ==
    /\ mode # "Created"
    /\ store' = [store EXCEPT ![u] = c]
    /\ shown' = IF serving /\ listening /\ c.lang \in Handled
                THEN [shown EXCEPT ![u] = Report[c.text]] ELSE shown
    /\ UNCHANGED <<mode, serving, listening, asked>>

Open(u) == \E c \in Content : Put(u, c)

(* An edit keeps the language and needs a document to edit.                *)
Edit(u) ==
    /\ store[u] # None
    /\ \E t \in Texts : Put(u, [store[u] EXCEPT !.text = t])

Served(u) == serving /\ store[u] # None /\ store[u].lang \in Handled

(* Only a document that is served is forgotten; what is shown of it stays. *)
Close(u) ==
    /\ Served(u)
    /\ store' = [store EXCEPT ![u] = None]
    /\ UNCHANGED <<mode, serving, shown, listening, asked>>

Ask(u) ==
    /\ Served(u)
    /\ \E i \in Ids : asked' = asked \cup {[id |-> i, about |-> store[u].text]}
    /\ UNCHANGED <<mode, serving, store, shown, listening>>

Reply ==
    /\ \E q \in asked : asked' = asked \ {q}
    /\ UNCHANGED <<mode, serving, store, shown, listening>>

Hangup ==
    /\ listening' = FALSE
    /\ shown' = [u \in URIs |-> None]
    /\ UNCHANGED <<mode, serving, store, asked>>

Next ==
    \/ Initialize
    \/ Shutdown
    \/ \E u \in URIs : Open(u) \/ Edit(u) \/ Close(u) \/ Ask(u)
    \/ Reply
    \/ Hangup

Spec == Init /\ [][Next]_vars
=============================================================================
