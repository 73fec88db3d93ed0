--------------------------- MODULE LspRefinement ----------------------------
(***************************************************************************)
(* A session implements the DocumentService.                               *)
(*                                                                         *)
(* An edit takes effect where the server writes its store (DidOpen, and    *)
(* each round of DidChange's loop): until the analysis of that text has    *)
(* been published, what the service shows is what is about to be           *)
(* published.  The service ends where Shutdown moves the state, before the *)
(* features are closed.  A question is open from the lookup of its         *)
(* document to its answer, about the text of the tree or of the index that *)
(* answers it.  All else the server does is invisible to the service.      *)
(***************************************************************************)
EXTENDS LspSession

ASSUME ContentIsSome == None \notin [lang : Languages, text : Texts]

(* Router.Close empties the registry, which only Shutdown calls.           *)
Serving == HasFeature(Cisco) /\ ~TearingDown

Stored == [u \in URIs |->
    IF docs[u] = None THEN None
    ELSE [lang |-> docs[u].lang, text |-> docs[u].text]]

Report == [t \in Texts |-> FullSet(t, t)]

Shown == [u \in URIs |->
    IF ~connected THEN None
    ELSE IF BeingAnalysed(u) THEN Report[docs[u].text]
    ELSE view[u]]

(* The request handlers past the lookup, with the text they answer from.   *)
AnswerSource(j) ==
    IF j.msg.method \in TreeQueries THEN trees[j.msg.uri] ELSE symbols[j.msg.uri]

Reading == {j \in running : j.pc = "read"}
Asked == {[id |-> j.id, about |-> AnswerSource(j)] : j \in Reading}

Service == INSTANCE DocumentService WITH
    Handled <- {Cisco}, Ids <- 1..MaxMessages,
    mode <- state, serving <- Serving, store <- Stored, shown <- Shown,
    listening <- connected, asked <- Asked

(* Whatever a client sends and in whatever order, the server behaves as if *)
(* an edit were analysed the moment it is stored, a question answered from *)
(* the text in the store, and the service ended in one step (server.go,    *)
(* feature.go).                                                            *)
Refines == Service!Spec
=============================================================================
