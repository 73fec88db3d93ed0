----------------------------- MODULE LspSession -----------------------------
(***************************************************************************)
(* A session between an editor and `chunt serve` (cmd/serve.go): the       *)
(* editor, the jrpc2 server that dispatches its messages, and ChuntServer. *)
(*                                                                         *)
(* jrpc2 is a library outside this repository.  What is modelled of it is  *)
(* what the handlers rely on: messages are taken in the order they arrive; *)
(* Assign is asked for the handler when a message is taken, before it waits*)
(* for its turn; no message is issued while an earlier notification is     *)
(* still being handled, while a request holds back nothing that follows    *)
(* it; at most Concurrency handlers run at once; when the transport closes *)
(* the requests not yet taken are dropped and the notifications are not.   *)
(***************************************************************************)
EXTENDS ChuntServer, FiniteSets

CONSTANTS
    Methods,     \* the methods the editor of this model uses
    MaxMessages, \* how many messages it sends
    Discipline   \* "conforming": keeps to the lifecycle of the LSP specification;
                 \* "any": sends anything at any time

ASSUME SessionAssumption ==
    /\ MaxMessages \in Nat
    /\ Discipline \in {"conforming", "any"}
    /\ None \notin Job

VARIABLES
    inbox,    \* messages received and not yet taken, ordered by id
    slot,     \* the message taken, waiting for earlier notifications, or None
    issued,   \* jobs waiting for the semaphore
    nsent,    \* how many messages the editor has sent
    awaiting, \* the ids of the requests that have not been answered
    pipelined,\* has the editor sent anything before it had all replies?
    phase,    \* where the editor believes the session is
    editor    \* what the editor has open: the document it believes in, or None

dispatchVars == <<inbox, slot, issued>>
editorVars == <<nsent, awaiting, pipelined, phase, editor>>
vars == <<featureVars, serverVars, jobVars, clientSide, dispatchVars, editorVars>>

Envelope == [id : Nat, msg : Message, seen : Nat]
Phases == {"fresh", "greeting", "session", "leaving"}

TypeOK ==
    /\ ServerTypeOK
    /\ inbox \subseteq Envelope
    /\ slot \in Job \cup {None}
    /\ issued \subseteq Job
    /\ nsent \in Nat
    /\ awaiting \subseteq Nat
    /\ pipelined \in BOOLEAN
    /\ phase \in Phases
    /\ editor \in [URIs -> Document \cup {None}]

Init ==
    /\ ServerInit
    /\ inbox = {}
    /\ slot = None
    /\ issued = {}
    /\ nsent = 0
    /\ awaiting = {}
    /\ pipelined = FALSE
    /\ phase = "fresh"
    /\ editor = [u \in URIs |-> None]

-----------------------------------------------------------------------------
(* The editor.                                                             *)

(* What the LSP lifecycle lets a client send: initialize once and first,   *)
(* nothing else until it is answered, nothing after shutdown, and of a     *)
(* document only what its open or closed state allows.                     *)
Polite(msg) ==
    /\ IF msg.method = "initialize" THEN phase = "fresh" ELSE phase = "session"
    /\ msg.method = "textDocument/didOpen" => editor[msg.uri] = None
    /\ msg.method \in Queries \cup {"textDocument/didChange", "textDocument/didClose"}
          => editor[msg.uri] # None
    /\ msg.method = "textDocument/didChange" => msg.texts # <<>>

(* What the editor holds once it has sent msg as its message number id.    *)
EditorAfter(msg, id) ==
    CASE msg.method = "textDocument/didOpen" ->
            [editor EXCEPT ![msg.uri] =
                [lang |-> msg.lang, text |-> msg.text, version |-> id]]
      [] msg.method = "textDocument/didChange" /\ msg.texts # <<>>
            /\ editor[msg.uri] # None ->
            [editor EXCEPT ![msg.uri] =
                [@ EXCEPT !.text = msg.texts[Len(msg.texts)], !.version = id]]
      [] msg.method = "textDocument/didClose" ->
            [editor EXCEPT ![msg.uri] = None]
      [] OTHER -> editor

PhaseAfter(msg) ==
    CASE msg.method = "initialize" /\ phase = "fresh" -> "greeting"
      [] msg.method = "shutdown" -> "leaving"
      [] OTHER -> phase

SeenBy(msg) ==
    IF msg.method \in Queries /\ editor[msg.uri] # None
    THEN editor[msg.uri].version ELSE 0

Send(msg) ==
    LET id == nsent + 1
    IN  /\ connected
        /\ nsent < MaxMessages
        /\ msg.method \in Methods
        /\ Discipline = "conforming" => Polite(msg)
        /\ nsent' = id
        /\ inbox' = inbox \cup {[id |-> id, msg |-> msg, seen |-> SeenBy(msg)]}
        /\ awaiting' = IF IsNotification(msg) THEN awaiting ELSE awaiting \cup {id}
        /\ pipelined' = (pipelined \/ awaiting # {})
        /\ phase' = PhaseAfter(msg)
        /\ editor' = EditorAfter(msg, id)
        /\ UNCHANGED <<featureVars, serverVars, jobVars, clientSide, slot, issued>>

(* The editor closes the transport or dies, after exit or at any moment.   *)
Disconnect ==
    /\ connected
    /\ connected' = FALSE
    /\ inbox' = {e \in inbox : IsNotification(e.msg)}
    /\ UNCHANGED <<featureVars, serverVars, jobVars, view, slot, issued, editorVars>>

-----------------------------------------------------------------------------
(* The dispatcher.                                                         *)

(* A fault: two handlers at a time.                                        *)
TwoAtOnce == 2

(* jrpc2.ServerOptions.Concurrency, as cmd/serve.go sets it.               *)
Concurrency == 1

InProgress == issued \cup running

(* The oldest message is taken and the gate is asked for its handler.      *)
Assign ==
    /\ slot = None
    /\ \E e \in inbox :
         /\ \A f \in inbox : e.id <= f.id
         /\ inbox' = inbox \ {e}
         /\ slot' = [id |-> e.id, msg |-> e.msg, seen |-> e.seen,
                     verdict |-> Gate(e.msg.method), pc |-> "start", left |-> <<>>]
    /\ UNCHANGED <<featureVars, serverVars, jobVars, clientSide, issued, editorVars>>

(* The message taken is issued once every earlier notification is handled. *)
Issue ==
    /\ slot # None
    /\ \A j \in InProgress : ~IsNotification(j.msg)
    /\ issued' = issued \cup {slot}
    /\ slot' = None
    /\ UNCHANGED <<featureVars, serverVars, jobVars, clientSide, inbox, editorVars>>

(* An issued job gets the semaphore.                                       *)
Acquire(j) ==
    /\ j \in issued
    /\ Cardinality(running) < Concurrency
    /\ issued' = issued \ {j}
    /\ running' = running \cup {j}
    /\ UNCHANGED <<featureVars, serverVars, finished, clientSide, inbox, slot, editorVars>>

(* The context of a request is cancelled when the transport closes; one    *)
(* that still waits for the semaphore may then give up.                    *)
Abandon(j) ==
    /\ j \in issued
    /\ ~connected
    /\ ~IsNotification(j.msg)
    /\ issued' = issued \ {j}
    /\ UNCHANGED <<featureVars, serverVars, jobVars, clientSide, inbox, slot, editorVars>>

(* A reply is written, or lost when there is nobody to write it to.        *)
Deliver(j) ==
    /\ j \in finished
    /\ finished' = finished \ {j}
    /\ IF connected
       THEN /\ awaiting' = awaiting \ {j.id}
            /\ phase' = IF phase = "greeting" /\ j.msg.method = "initialize"
                        THEN "session" ELSE phase
       ELSE UNCHANGED <<awaiting, phase>>
    /\ UNCHANGED <<featureVars, serverVars, running, clientSide, dispatchVars,
                   nsent, pipelined, editor>>

Handle ==
    /\ HandlerStep
    /\ UNCHANGED <<dispatchVars, editorVars>>

Idle == inbox = {} /\ slot = None /\ InProgress = {}

(* jrpcSrv.Wait returns, and the process with it.                          *)
Terminated == ~connected /\ Idle /\ finished = {}

Exited == Terminated /\ UNCHANGED vars

ServerStep ==
    \/ Assign
    \/ Issue
    \/ \E j \in issued : Acquire(j) \/ Abandon(j)
    \/ Handle
    \/ \E j \in finished : Deliver(j)

Next ==
    \/ \E msg \in Message : Send(msg)
    \/ Disconnect
    \/ ServerStep
    \/ Exited

Spec == Init /\ [][Next]_vars

(* Every goroutine of the server runs on; the editor owes nothing.  The    *)
(* semaphore of jrpc2 is first come, first served.                         *)
Fairness ==
    /\ WF_vars(Assign)
    /\ WF_vars(Issue)
    /\ WF_vars(\E j \in issued : Acquire(j))
    /\ WF_vars(Handle)
    /\ WF_vars(\E j \in finished : Deliver(j))

FairSpec == Spec /\ Fairness
-----------------------------------------------------------------------------
(* Properties.                                                             *)

(* A handler is between storing a document and having analysed it.         *)
BeingAnalysed(u) ==
    \E j \in running : /\ j.pc \in {"parse", "reparse", "index"}
                       /\ j.msg.uri = u

(* Shutdown has moved the state and not yet closed the features.           *)
TearingDown == \E j \in running : j.pc = "teardown"

(* The documents the server answers for.                                   *)
Served(u) == docs[u] # None /\ HasFeature(docs[u].lang)

(* No handler is about to use the feature once Shutdown has freed its      *)
(* parser and its trees (feature.go:75-85), although a handler looks the   *)
(* feature up in one step and calls it in a later one.                     *)
NoUseAfterClose ==
    \A j \in running :
        j.pc \in {"parse", "reparse", "index", "read"} => parser = "open"

(* The tree and the symbol index of a served document are those of the     *)
(* text in the store whenever no handler is analysing it, whatever the     *)
(* client sends and in whatever order (feature.go:97-161).                 *)
AnalysisMatchesStore ==
    \A u \in URIs : Served(u) /\ ~BeingAnalysed(u) =>
        trees[u] = docs[u].text /\ symbols[u] = docs[u].text

(* A request handler answers from the analysis of the text that is in the  *)
(* store at that moment: never from a tree or an index of an earlier text  *)
(* (server/hover.go:9-19 and its siblings).                                *)
AnswersFromStore ==
    \A j \in running : j.pc = "read" =>
        LET u == j.msg.uri
        IN  /\ docs[u] # None
            /\ j.msg.method \in TreeQueries => trees[u] = docs[u].text
            /\ j.msg.method \in SymbolQueries => symbols[u] = docs[u].text

(* A request is never answered from a document older than the one the      *)
(* editor had when it asked: it may be overtaken by later edits but not    *)
(* overtake earlier ones.                                                  *)
NeverBehind ==
    \A j \in running : j.pc = "read" => docs[j.msg.uri].version >= j.seen

(* While the client listens, what it was last sent for a served document   *)
(* is the full set of diagnostics of the text in the store, whether or not *)
(* the second publish was skipped (feature.go:137-152).                    *)
ViewMatchesStore ==
    \A u \in URIs : connected /\ Served(u) /\ ~BeingAnalysed(u) =>
        view[u] = FullSet(docs[u].text, docs[u].text)

(* Before an initialize request is handled nothing a client sends leaves a *)
(* trace: no document stored, nothing analysed, nothing published          *)
(* (assigner.go:20-25).                                                    *)
QuietBeforeInitialize ==
    state = "Created" =>
        /\ parser = "open"
        /\ \A u \in URIs : docs[u] = None /\ trees[u] = None /\ view[u] = None

(* Diagnostics are published in the Initialized state only, so neither     *)
(* before initialize nor once Shutdown has been handled.                   *)
PublishesOnlyInitialized == [][view' # view => state = "Initialized"]_vars

(* "After shutdown: every request is rejected", "including a second        *)
(* initialize on a dead server": a shutdown is final                       *)
(* (assigner.go:25-26, 60).                                                *)
ShutdownIsFinal == [][state = "ShutDown" => state' = "ShutDown"]_vars

(* It is for a client that awaits each reply before it sends on, whatever  *)
(* else it sends: the gate then sees the state its handler will see, and   *)
(* notifications after shutdown are dropped, so that neither the state nor *)
(* the document store changes any more (assigner.go:20-33).                *)
AwaitedShutdown ==
    [][state = "ShutDown" /\ ~pipelined => UNCHANGED <<state, docs>>]_vars

(* A client that keeps to the lifecycle is never refused, although the     *)
(* gate is asked when a message is taken and not when it is handled.       *)
NeverRefused == \A j \in InProgress : j.verdict = "run"

(* Once every message is handled the server holds every document the       *)
(* editor holds, in the same text and version, and of the supported ones   *)
(* no other; those of another language stay after didClose                 *)
(* (text_document_sync.go:13-89).                                          *)
StoreMirrorsEditor ==
    Idle => \A u \in URIs :
        /\ editor[u] # None => docs[u] = editor[u]
        /\ Served(u) => docs[u] = editor[u]

(* Of a document the editor has closed neither tree nor index is kept, and *)
(* no tree ever becomes unreachable without having been closed.            *)
NothingRetained ==
    /\ orphans = 0
    /\ Idle => \A u \in URIs : editor[u] = None =>
                  trees[u] = None /\ symbols[u] = None

(* Every request is answered, unless the client hangs up.                  *)
EveryRequestAnswered ==
    \A i \in 1..MaxMessages : i \in awaiting ~> (i \notin awaiting \/ ~connected)

(* The server stops once the client has hung up, shutdown or not.          *)
StopsAfterDisconnect == ~connected ~> Terminated
=============================================================================
