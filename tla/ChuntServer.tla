---------------------------- MODULE ChuntServer -----------------------------
(***************************************************************************)
(* The server of internal/server: its lifecycle state, the negotiated      *)
(* position encoding, the document store, the feature router, the stateGate *)
(* and the method handlers.  A handler is a job that runs step by step; a  *)
(* step is the code between two points at which another goroutine could    *)
(* tell the difference (a state change, a publish, a call into the         *)
(* feature).  When jobs may run is decided by LspSession.                  *)
(***************************************************************************)
EXTENDS CiscoFeature, Sequences

CONSTANTS
    Cisco,      \* the LanguageID of the one feature cmd/serve.go registers
    Languages,  \* the language ids a didOpen may carry
    Encodings,  \* the position encodings a client may offer
    Offers,     \* the offers, sequences of encodings, an initialize may carry
    ChangeLists \* the contentChanges, sequences of full texts, of a didChange

(* document.Document, without the URI that is its key in the store.        *)
Document == [lang : Languages, text : Texts, version : Nat]

ASSUME ServerAssumption ==
    /\ Cisco \in Languages
    /\ {"utf-8", "utf-16"} \subseteq Encodings
    /\ Offers \subseteq Seq(Encodings)
    /\ ChangeLists \subseteq Seq(Texts)
    /\ None \notin Document

VARIABLES
    state,        \* Server.state
    posEncoding,  \* Server.posEncoding
    docs,         \* Server.documents: the stored document of a URI, or None
    registered,   \* Server.features: the languages with a feature
    running,      \* the handlers that hold the concurrency semaphore
    finished,     \* the requests whose reply is computed and not yet sent
    connected,    \* the transport is open
    view          \* the diagnostics last published to the client for a URI

serverVars == <<state, posEncoding, docs, registered>>
jobVars == <<running, finished>>
clientSide == <<connected, view>>

-----------------------------------------------------------------------------
TreeQueries == {"textDocument/hover", "textDocument/completion"}
SymbolQueries == {"textDocument/definition", "textDocument/references",
                  "textDocument/documentSymbol"}
Queries == TreeQueries \cup SymbolQueries
Notifications == {"initialized", "textDocument/didOpen",
                  "textDocument/didChange", "textDocument/didClose"}

Message ==
    [method : {"initialize"}, offered : Offers]
    \cup [method : {"initialized", "shutdown"}]
    \cup [method : {"textDocument/didOpen"},
          uri : URIs, lang : Languages, text : Texts]
    \cup [method : {"textDocument/didChange"}, uri : URIs, texts : ChangeLists]
    \cup [method : Queries \cup {"textDocument/didClose"}, uri : URIs]

IsNotification(msg) == msg.method \in Notifications

Verdicts == {"run", "ServerNotInitialized", "InvalidRequest"}

(* A dispatched message: what the gate said of it, how far its handler has *)
(* come (pc) and the content changes the handler has still to apply.       *)
(* seen is the client's: the version of the document when it sent a query. *)
Pcs == {"start", "negotiate", "teardown", "parse", "reparse", "index",
        "change", "read"}
Job == [id : Nat, msg : Message, seen : Nat, verdict : Verdicts,
        pc : Pcs, left : Seq(Texts)]

ServerTypeOK ==
    /\ FeatureTypeOK
    /\ state \in {"Created", "Initialized", "ShutDown"}
    /\ posEncoding \in {"utf-8", "utf-16"}
    /\ docs \in [URIs -> Document \cup {None}]
    /\ registered \subseteq Languages
    /\ running \subseteq Job
    /\ finished \subseteq Job
    /\ connected \in BOOLEAN
    /\ view \in [URIs -> (SUBSET Diags) \cup {None}]

(* server.New and RegisterFeature, as cmd/serve.go calls them.             *)
ServerInit ==
    /\ FeatureInit
    /\ state = "Created"
    /\ posEncoding = "utf-16"
    /\ docs = [u \in URIs |-> None]
    /\ registered = {Cisco}
    /\ running = {}
    /\ finished = {}
    /\ connected = TRUE
    /\ view = [u \in URIs |-> None]

-----------------------------------------------------------------------------
(* Faults of the gate: notifications are not gated; initialize is let      *)
(* through in every state; notifications are let through after shutdown.   *)
GateRequestsOnly(method) ==
    IF state = "Initialized" \/ method \in Notifications \cup {"initialize"}
    THEN "run" ELSE "ServerNotInitialized"
GateAlwaysInitialize(method) ==
    IF state = "Initialized" \/ method = "initialize" THEN "run"
    ELSE IF state = "Created" THEN "ServerNotInitialized" ELSE "InvalidRequest"
GateLateNotifications(method) ==
    IF state = "Created" /\ method # "initialize" THEN "ServerNotInitialized"
    ELSE IF state = "ShutDown" /\ method \notin Notifications THEN "InvalidRequest"
    ELSE "run"

(* stateGate.Assign: what becomes of a message of this method now.         *)
Gate(method) ==
    CASE state = "Initialized" -> "run"
      [] state = "Created" -> IF method = "initialize"
                              THEN "run" ELSE "ServerNotInitialized"
      [] OTHER -> "InvalidRequest"

(* A fault: the client's first offer is taken unseen.                      *)
NegotiateFirst(offered) == IF offered = <<>> THEN "utf-16" ELSE offered[1]

(* negotiatePositionEncoding: the first offer the server supports.         *)
Supported(enc) == enc \in {"utf-8", "utf-16"}
Negotiate(offered) ==
    LET supported == {i \in DOMAIN offered : Supported(offered[i])}
    IN  IF supported = {} THEN "utf-16"
        ELSE offered[CHOOSE i \in supported : \A k \in supported : i <= k]

(* The handler of j goes on at pc, with the changes left still to apply.   *)
GoTo(j, pc, left) ==
    /\ running' = (running \ {j}) \cup {[j EXCEPT !.pc = pc, !.left = left]}
    /\ UNCHANGED finished

(* The handler of j returns; jrpc2 sends no reply to a notification.       *)
Return(j) ==
    /\ running' = running \ {j}
    /\ finished' = IF IsNotification(j.msg) THEN finished ELSE finished \cup {j}

(* publishDiagnostics: written to the transport, lost once that is closed. *)
Publish(u, diags) ==
    /\ view' = IF connected THEN [view EXCEPT ![u] = diags] ELSE view
    /\ UNCHANGED connected

HasFeature(lang) == lang \in registered

At(j, method, pc) ==
    /\ j.verdict = "run"
    /\ j.msg.method = method
    /\ j.pc = pc

-----------------------------------------------------------------------------
(* A fault: what is refused is dropped, request or not.                    *)
RejectSilently(j) ==
    /\ j.verdict # "run"
    /\ running' = running \ {j}
    /\ UNCHANGED <<finished, serverVars, featureVars, clientSide>>

(* reject: the handler the gate substitutes does nothing but fail.         *)
Reject(j) ==
    /\ j.verdict # "run"
    /\ Return(j)
    /\ UNCHANGED <<serverVars, featureVars, clientSide>>

(* A fault: the state is left for the initialized notification to set.     *)
InitializeKeepsState(j) ==
    /\ At(j, "initialize", "start")
    /\ GoTo(j, "negotiate", <<>>)
    /\ UNCHANGED <<serverVars, featureVars, clientSide>>

(* Initialize sets the state first, whatever it was, ...                   *)
Initialize(j) ==
    /\ At(j, "initialize", "start")
    /\ state' = "Initialized"
    /\ GoTo(j, "negotiate", <<>>)
    /\ UNCHANGED <<posEncoding, docs, registered, featureVars, clientSide>>

(* ... and then settles the position encoding.                             *)
SetPositionEncoding(j) ==
    /\ At(j, "initialize", "negotiate")
    /\ posEncoding' = Negotiate(j.msg.offered)
    /\ Return(j)
    /\ UNCHANGED <<state, docs, registered, featureVars, clientSide>>

Initialized(j) ==
    /\ At(j, "initialized", "start")
    /\ Return(j)
    /\ UNCHANGED <<serverVars, featureVars, clientSide>>

(* Shutdown fails on a server that is not initialized, otherwise it moves  *)
(* the state and only then closes the features.                            *)
Shutdown(j) ==
    /\ At(j, "shutdown", "start")
    /\ \/ /\ state # "Initialized"
          /\ Return(j)
          /\ UNCHANGED state
       \/ /\ state = "Initialized"
          /\ state' = "ShutDown"
          /\ GoTo(j, "teardown", <<>>)
    /\ UNCHANGED <<posEncoding, docs, registered, featureVars, clientSide>>

(* A fault: the features are closed and stay registered.                   *)
CloseFeaturesOnly(j) ==
    /\ At(j, "shutdown", "teardown")
    /\ CloseFeature
    /\ Return(j)
    /\ UNCHANGED <<serverVars, clientSide>>

(* Router.Close: every registered feature is closed, the registry emptied. *)
CloseFeatures(j) ==
    /\ At(j, "shutdown", "teardown")
    /\ IF HasFeature(Cisco) THEN CloseFeature ELSE UNCHANGED featureVars
    /\ registered' = {}
    /\ Return(j)
    /\ UNCHANGED <<state, posEncoding, docs, clientSide>>

-----------------------------------------------------------------------------
(* DidOpen stores the document whatever its language is; without a feature *)
(* for it that is all.                                                     *)
DidOpen(j) ==
    /\ At(j, "textDocument/didOpen", "start")
    /\ docs' = [docs EXCEPT ![j.msg.uri] =
                   [lang |-> j.msg.lang, text |-> j.msg.text, version |-> j.id]]
    /\ IF HasFeature(j.msg.lang) THEN GoTo(j, "parse", <<>>) ELSE Return(j)
    /\ UNCHANGED <<state, posEncoding, registered, featureVars, clientSide>>

(* CiscoIOSFeature.DidOpen: parse, keep the tree, publish tier 1.          *)
Parse(j) ==
    LET u == j.msg.uri
    IN  /\ At(j, "textDocument/didOpen", "parse")
        /\ OpenTree(u, docs[u].text)
        /\ Publish(u, TierOne(docs[u].text))
        /\ GoTo(j, "index", <<>>)
        /\ UNCHANGED serverVars

(* DidChange of a document that is not in the store does nothing.          *)
DidChange(j) ==
    /\ At(j, "textDocument/didChange", "start")
    /\ IF docs[j.msg.uri] = None \/ j.msg.texts = <<>>
       THEN Return(j)
       ELSE GoTo(j, "change", j.msg.texts)
    /\ UNCHANGED <<serverVars, featureVars, clientSide>>

(* A fault: the loop does not move on to the next change.                  *)
SameChange(j) ==
    IF Len(j.left) = 0 THEN Return(j) ELSE GoTo(j, "change", j.left)

(* Leave one content change behind: on to the next, or out of the loop.    *)
NextChange(j) ==
    IF Len(j.left) <= 1 THEN Return(j) ELSE GoTo(j, "change", Tail(j.left))

(* A fault: the changed document is not put back into the store.           *)
ApplyChangeUnstored(j) ==
    /\ At(j, "textDocument/didChange", "change")
    /\ IF HasFeature(docs[j.msg.uri].lang)
       THEN GoTo(j, "reparse", j.left) ELSE NextChange(j)
    /\ UNCHANGED <<serverVars, featureVars, clientSide>>

(* One round of DidChange's loop: the document is stored with the new text *)
(* before it is known whether its language has a feature.                  *)
ApplyChange(j) ==
    LET u == j.msg.uri
    IN  /\ At(j, "textDocument/didChange", "change")
        /\ docs' = [docs EXCEPT ![u] =
                       [@ EXCEPT !.text = Head(j.left), !.version = j.id]]
        /\ IF HasFeature(docs[u].lang)
           THEN GoTo(j, "reparse", j.left) ELSE NextChange(j)
        /\ UNCHANGED <<state, posEncoding, registered, featureVars, clientSide>>

(* CiscoIOSFeature.DidChange: parse afresh, replace the tree, publish tier 1.*)
Reparse(j) ==
    LET u == j.msg.uri
    IN  /\ At(j, "textDocument/didChange", "reparse")
        /\ ReplaceTree(u, docs[u].text)
        /\ Publish(u, TierOne(docs[u].text))
        /\ GoTo(j, "index", j.left)
        /\ UNCHANGED serverVars

(* The second half of both: rebuild the index, run the symbol passes and   *)
(* publish the full set unless those passes found nothing.                 *)
IndexAndFinish(j) ==
    LET u == j.msg.uri
    IN  /\ j.verdict = "run"
        /\ j.pc = "index"
        /\ IndexSymbols(u)
        /\ IF RefDiags[symbols'[u]] = {} THEN UNCHANGED clientSide
           ELSE Publish(u, FullSet(trees[u], symbols'[u]))
        /\ NextChange(j)
        /\ UNCHANGED serverVars

(* DidClose returns early, before the store is touched, when the document  *)
(* is unknown or its language has no feature.                              *)
DidClose(j) ==
    LET u == j.msg.uri
    IN  /\ At(j, "textDocument/didClose", "start")
        /\ IF docs[u] # None /\ HasFeature(docs[u].lang)
           THEN /\ DropDocument(u)
                /\ docs' = [docs EXCEPT ![u] = None]
           ELSE UNCHANGED <<featureVars, docs>>
        /\ Return(j)
        /\ UNCHANGED <<state, posEncoding, registered, clientSide>>

(* The request handlers: find the document and the feature, or fail, ...   *)
Query(j) ==
    LET u == j.msg.uri
    IN  /\ j.msg.method \in Queries
        /\ At(j, j.msg.method, "start")
        /\ IF docs[u] # None /\ HasFeature(docs[u].lang)
           THEN GoTo(j, "read", <<>>) ELSE Return(j)
        /\ UNCHANGED <<serverVars, featureVars, clientSide>>

(* ... then answer from the tree or from the symbol table of the feature.  *)
Answer(j) ==
    /\ j.verdict = "run"
    /\ j.pc = "read"
    /\ Return(j)
    /\ UNCHANGED <<serverVars, featureVars, clientSide>>

HandlerStep ==
    \E j \in running :
        \/ Reject(j) \/ Initialize(j) \/ SetPositionEncoding(j)
        \/ Initialized(j) \/ Shutdown(j) \/ CloseFeatures(j)
        \/ DidOpen(j) \/ Parse(j) \/ DidChange(j) \/ ApplyChange(j)
        \/ Reparse(j) \/ IndexAndFinish(j) \/ DidClose(j)
        \/ Query(j) \/ Answer(j)
=============================================================================
