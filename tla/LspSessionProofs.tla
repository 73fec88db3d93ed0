-------------------------- MODULE LspSessionProofs --------------------------
(***************************************************************************)
(* The safety of a session, for every set of documents and texts, every    *)
(* client and any number of messages, in four parts.                       *)
(*                                                                         *)
(* Its state.  IInv is what makes the invariants inductive: one handler    *)
(* runs at a time, a job that waits has not started, a handler that has    *)
(* come to a point meets the demands of that point, and the lifecycle      *)
(* ties the state to the registry and the parser.                          *)
(*                                                                         *)
(* The order in which messages are handled, OInv, and what follows from    *)
(* it: that a query is never answered from a document older than its       *)
(* sender knew, and that a shutdown is final for a client that awaits its  *)
(* replies.                                                                *)
(*                                                                         *)
(* What a session is to its client: it implements the DocumentService,     *)
(* whoever the client.  The initial states are initial states of the       *)
(* service, and every step of the editor, the dispatcher or a handler is   *)
(* one step of the service or none.                                        *)
(*                                                                         *)
(* And for a client that keeps to the protocol, the store mirrors what the *)
(* editor holds, and nothing is kept of closed documents.  While edits are *)
(* in flight the two differ; the invariant says of each document by what   *)
(* story the store is to become what the editor holds: the edits that are  *)
(* still pending can follow each other, the oldest can follow what is      *)
(* stored, and the latest leads to what the editor holds.                  *)
(***************************************************************************)
EXTENDS LspRefinement, FiniteSetTheorems, SequenceTheorems, WellFoundedInduction, TLAPS

(* serve.go:27: Concurrency 1.                                             *)
OneAtATime == running = {} \/ \E j \in running : running = {j}

(* A job that has not got the semaphore yet has not started.               *)
Unstarted(j) == j.pc = "start" /\ j.left = <<>>
FreshJobs ==
    /\ \A j \in issued : Unstarted(j)
    /\ slot # None => Unstarted(slot)

(* What the handler of a job relies on at the point it has reached.        *)
Progress(j) ==
    /\ j.verdict # "run" => j.pc = "start"
    /\ j.pc = "negotiate" => j.msg.method = "initialize"
    /\ j.pc = "teardown" => j.msg.method = "shutdown"
    /\ j.pc = "parse" => j.msg.method = "textDocument/didOpen" /\ Served(j.msg.uri)
    /\ j.pc \in {"change", "reparse"} =>
          /\ j.msg.method = "textDocument/didChange"
          /\ docs[j.msg.uri] # None
          /\ j.left # <<>>
    /\ j.pc = "reparse" => Served(j.msg.uri)
    /\ j.pc = "index" =>
          /\ j.msg.method \in {"textDocument/didOpen", "textDocument/didChange"}
          /\ j.msg.method = "textDocument/didOpen" => j.left = <<>>
          /\ Served(j.msg.uri)
          /\ trees[j.msg.uri] = docs[j.msg.uri].text
          /\ connected => view[j.msg.uri] = TierOne(docs[j.msg.uri].text)
    /\ j.pc = "read" => j.msg.method \in Queries /\ Served(j.msg.uri)
HandlersInv == \A j \in running : Progress(j)

Lifecycle ==
    /\ parser = "freed" => registered = {}
    /\ state = "ShutDown" => registered = {} \/ \E j \in running : j.pc = "teardown"
    /\ state = "Created" =>
         /\ \A j \in InProgress : j.verdict = "run" => j.msg.method = "initialize"
         /\ slot # None => (slot.verdict = "run" => slot.msg.method = "initialize")
         /\ \A j \in running : j.pc = "start"

IInv ==
    /\ TypeOK
    /\ OneAtATime
    /\ FreshJobs
    /\ HandlersInv
    /\ Lifecycle
    /\ QuietBeforeInitialize
    /\ AnalysisMatchesStore
    /\ ViewMatchesStore

-----------------------------------------------------------------------------
(* The inductive invariant holds of the initial states.                    *)
LEMMA InitIInv == Init => IInv
  <1> SUFFICES ASSUME Init PROVE IInv
    OBVIOUS
  <1> USE DEF Init, ServerInit, FeatureInit
  <1>1. TypeOK
    BY ContentAssumption, ServerAssumption
       DEF TypeOK, ServerTypeOK, FeatureTypeOK, Phases
  <1>2. OneAtATime /\ FreshJobs /\ HandlersInv /\ Lifecycle
    BY DEF OneAtATime, FreshJobs, HandlersInv, Lifecycle, InProgress
  <1>3. QuietBeforeInitialize /\ AnalysisMatchesStore /\ ViewMatchesStore
    BY DEF QuietBeforeInitialize, AnalysisMatchesStore, ViewMatchesStore, Served
  <1> QED
    BY <1>1, <1>2, <1>3 DEF IInv

(* What the parameters of a message are, by its method.                    *)
LEMMA MessageParts ==
  ASSUME NEW msg \in Message
  PROVE  /\ msg.method = "textDocument/didOpen" =>
              msg.uri \in URIs /\ msg.lang \in Languages /\ msg.text \in Texts
         /\ msg.method = "textDocument/didChange" =>
              msg.uri \in URIs /\ msg.texts \in Seq(Texts)
         /\ msg.method \in Queries \cup {"textDocument/didClose"} => msg.uri \in URIs
         /\ msg.method = "initialize" => msg.offered \in Seq(Encodings)
  BY ServerAssumption DEF Message, Queries, TreeQueries, SymbolQueries

(* What the editor holds after a message is again a set of documents.      *)
LEMMA EditorAfterType ==
  ASSUME TypeOK, NEW msg \in Message, NEW id \in Nat
  PROVE  EditorAfter(msg, id) \in [URIs -> Document \cup {None}]
  <1> USE MessageParts DEF TypeOK
  <1>1. CASE msg.method = "textDocument/didOpen"
    BY <1>1 DEF EditorAfter, Document
  <1>2. CASE /\ msg.method = "textDocument/didChange"
             /\ msg.texts # <<>>
             /\ editor[msg.uri] # None
    <2>1. msg.texts[Len(msg.texts)] \in Texts
      BY <1>2
    <2>2. editor[msg.uri] \in Document
      BY <1>2
    <2> QED
      BY <1>2, <2>1, <2>2 DEF EditorAfter, Document
  <1>3. CASE msg.method = "textDocument/didClose"
    BY <1>3 DEF EditorAfter
  <1> QED
    BY <1>1, <1>2, <1>3 DEF EditorAfter

(* Sending keeps the types.                                                *)
LEMMA SendType ==
  ASSUME TypeOK, NEW msg \in Message, Send(msg)
  PROVE  TypeOK'
  <1> USE DEF TypeOK, ServerTypeOK, FeatureTypeOK, Envelope
  <1>2. PhaseAfter(msg) \in Phases
    BY DEF PhaseAfter, Phases
  <1>3. SeenBy(msg) \in Nat
    BY MessageParts DEF SeenBy, Document
  <1> QED
    BY <1>2, <1>3, EditorAfterType
    DEF Send, featureVars, serverVars, jobVars, clientSide

(* A non-empty set of numbers has a least element.                         *)
LEMMA LeastNumber ==
  ASSUME NEW S, S \subseteq Nat, S # {}
  PROVE  \E i \in S : \A k \in S : i <= k
  <1>1. PICK i \in S : \A k \in S : ~ (<<k, i>> \in OpToRel(<, Nat))
    BY WFMin, NatLessThanWellFounded
  <1>2. ASSUME NEW k \in S PROVE ~ (k < i)
    BY <1>1, <1>2 DEF OpToRel
  <1> QED
    BY <1>2

(* The negotiation settles on an encoding the server supports.             *)
LEMMA NegotiateType ==
  ASSUME NEW offered \in Seq(Encodings)
  PROVE  Negotiate(offered) \in {"utf-8", "utf-16"}
  <1> DEFINE S == {i \in DOMAIN offered : Supported(offered[i])}
  <1>1. CASE S = {}
    BY <1>1 DEF Negotiate
  <1>2. CASE S # {}
    <2>1. S \subseteq Nat
      OBVIOUS
    <2>2. PICK i \in S : \A k \in S : i <= k
      BY <1>2, <2>1, LeastNumber
    <2> QED
      BY <1>2, <2>2 DEF Negotiate, Supported
  <1> QED
    BY <1>1, <1>2
-----------------------------------------------------------------------------
(* Steps of the editor and of the dispatcher.                              *)

(* A message sent waits in the inbox and disturbs nothing else.            *)
LEMMA SendStep ==
  ASSUME IInv, NEW msg \in Message, Send(msg)
  PROVE  IInv'
  <1> USE DEF IInv
  <1>1. TypeOK'
    BY SendType
  <1>2. UNCHANGED <<featureVars, serverVars, jobVars, clientSide, slot, issued>>
    BY DEF Send
  <1> QED
    BY <1>1, <1>2
    DEF featureVars, serverVars, jobVars, clientSide, OneAtATime, FreshJobs, Unstarted,
        HandlersInv, Progress, Lifecycle, InProgress, QuietBeforeInitialize,
        AnalysisMatchesStore, ViewMatchesStore, Served, HasFeature, BeingAnalysed

(* Hanging up drops requests and frees the view of every promise.          *)
LEMMA DisconnectStep ==
  ASSUME IInv, Disconnect
  PROVE  IInv'
  <1> USE DEF IInv
  <1>1. TypeOK'
    BY DEF TypeOK, ServerTypeOK, FeatureTypeOK, Disconnect, featureVars, serverVars,
           jobVars, editorVars
  <1>2. /\ UNCHANGED <<featureVars, serverVars, jobVars, view, slot, issued>>
        /\ ~connected'
    BY DEF Disconnect
  <1> QED
    BY <1>1, <1>2
    DEF featureVars, serverVars, jobVars, OneAtATime, FreshJobs, Unstarted,
        HandlersInv, Progress, Lifecycle, InProgress, QuietBeforeInitialize,
        AnalysisMatchesStore, ViewMatchesStore, Served, HasFeature, BeingAnalysed

(* A message that is taken has not started. Before initialize the gate     *)
(* lets only an initialize through.                                        *)
LEMMA AssignStep ==
  ASSUME IInv, Assign
  PROVE  IInv'
  <1> USE DEF IInv
  <1>1. PICK e \in inbox :
          /\ inbox' = inbox \ {e}
          /\ slot' = [id |-> e.id, msg |-> e.msg, seen |-> e.seen,
                      verdict |-> Gate(e.msg.method), pc |-> "start", left |-> <<>>]
    BY DEF Assign
  <1>2. Gate(e.msg.method) \in Verdicts
    BY DEF Gate, Verdicts
  <1>3. slot' \in Job
    BY <1>1, <1>2 DEF TypeOK, Envelope, Job, Pcs
  <1>4. UNCHANGED <<featureVars, serverVars, jobVars, clientSide, issued, editorVars>>
    BY DEF Assign
  <1>5. TypeOK'
    BY <1>1, <1>3, <1>4
    DEF TypeOK, ServerTypeOK, FeatureTypeOK, featureVars, serverVars, jobVars,
        clientSide, editorVars
  <1>6. FreshJobs'
    BY <1>1, <1>4 DEF FreshJobs, Unstarted
  <1>7. Lifecycle'
    BY <1>1, <1>4
    DEF Lifecycle, InProgress, Gate, featureVars, serverVars, jobVars
  <1> QED
    BY <1>4, <1>5, <1>6, <1>7
    DEF featureVars, serverVars, jobVars, clientSide, OneAtATime,
        HandlersInv, Progress, QuietBeforeInitialize,
        AnalysisMatchesStore, ViewMatchesStore, Served, HasFeature, BeingAnalysed

(* An issued job has not started.                                          *)
LEMMA IssueStep ==
  ASSUME IInv, Issue
  PROVE  IInv'
  <1> USE DEF IInv
  <1>1. TypeOK'
    BY DEF Issue, TypeOK, ServerTypeOK, FeatureTypeOK, featureVars, serverVars, jobVars,
           clientSide, editorVars
  <1>2. FreshJobs'
    BY DEF Issue, FreshJobs, Unstarted
  <1>3. Lifecycle'
    BY DEF Issue, Lifecycle, InProgress, featureVars, serverVars, jobVars
  <1> QED
    BY <1>1, <1>2, <1>3
    DEF Issue, featureVars, serverVars, jobVars, clientSide, OneAtATime,
        HandlersInv, Progress, QuietBeforeInitialize,
        AnalysisMatchesStore, ViewMatchesStore, Served, HasFeature, BeingAnalysed

(* A job starts only when no other runs, so none relies on a point past    *)
(* the first.                                                              *)
LEMMA AcquireStep ==
  ASSUME IInv, NEW j \in issued, Acquire(j)
  PROVE  IInv'
  <1> USE DEF IInv
  <1>1. running = {}
    <2>1. CASE \E k \in running : running = {k}
      <3>1. Cardinality(running) = 1
        BY <2>1, FS_Singleton
      <3> QED
        BY <3>1 DEF Acquire, Concurrency
    <2> QED
      BY <2>1 DEF OneAtATime
  <1>2. running' = {j} /\ Unstarted(j)
    BY <1>1 DEF Acquire, FreshJobs
  <1>3. TypeOK'
    BY DEF Acquire, TypeOK, ServerTypeOK, FeatureTypeOK, featureVars, serverVars,
           clientSide, editorVars
  <1>4. OneAtATime' /\ FreshJobs'
    BY <1>2 DEF Acquire, OneAtATime, FreshJobs, Unstarted
  <1>5. HandlersInv'
    BY <1>2 DEF HandlersInv, Progress, Unstarted
  <1>6. Lifecycle'
    BY <1>1, <1>2 DEF Acquire, Lifecycle, InProgress, Unstarted, featureVars, serverVars
  <1>7. (AnalysisMatchesStore /\ ViewMatchesStore /\ QuietBeforeInitialize)'
    BY <1>1, <1>2
    DEF Acquire, featureVars, serverVars, clientSide, QuietBeforeInitialize, Unstarted,
        AnalysisMatchesStore, ViewMatchesStore, Served, HasFeature, BeingAnalysed
  <1> QED
    BY <1>3, <1>4, <1>5, <1>6, <1>7

(* A request that gives up has not started either.                         *)
LEMMA AbandonStep ==
  ASSUME IInv, NEW j \in issued, Abandon(j)
  PROVE  IInv'
  <1> USE DEF IInv
  <1>1. TypeOK'
    BY DEF Abandon, TypeOK, ServerTypeOK, FeatureTypeOK, featureVars, serverVars, jobVars,
           clientSide, editorVars
  <1> QED
    BY <1>1
    DEF Abandon, featureVars, serverVars, jobVars, clientSide, OneAtATime, FreshJobs,
        Unstarted, HandlersInv, Progress, Lifecycle, InProgress, QuietBeforeInitialize,
        AnalysisMatchesStore, ViewMatchesStore, Served, HasFeature, BeingAnalysed

(* A reply touches what the client waits for alone.                        *)
LEMMA DeliverStep ==
  ASSUME IInv, NEW j \in finished, Deliver(j)
  PROVE  IInv'
  <1> USE DEF IInv
  <1>1. TypeOK'
    BY DEF Deliver, TypeOK, ServerTypeOK, FeatureTypeOK, featureVars, serverVars,
           clientSide, dispatchVars, Phases
  <1> QED
    BY <1>1
    DEF Deliver, featureVars, serverVars, dispatchVars, clientSide, OneAtATime, FreshJobs,
        Unstarted, HandlersInv, Progress, Lifecycle, InProgress, QuietBeforeInitialize,
        AnalysisMatchesStore, ViewMatchesStore, Served, HasFeature, BeingAnalysed
-----------------------------------------------------------------------------
(* Steps of the handlers.                                                  *)

(* The handler that runs is the only one: when it goes on or returns,      *)
(* there is nothing else among the running jobs.                           *)
LEMMA OnlyJob ==
  ASSUME IInv, NEW j \in running
  PROVE  /\ running = {j}
         /\ j \in Job
         /\ Progress(j)
         /\ \A pc, left : GoTo(j, pc, left) =>
              /\ running' = {[j EXCEPT !.pc = pc, !.left = left]}
              /\ finished' = finished
         /\ Return(j) => running' = {} /\ finished' \subseteq finished \cup {j}
  BY DEF IInv, OneAtATime, TypeOK, ServerTypeOK, HandlersInv, GoTo, Return

(* Nothing is left to apply: a sequence of texts.                          *)
LEMMA NothingLeft == <<>> \in Seq(Texts)
  OBVIOUS

(* A step of a handler that returns and changes nothing else.              *)
LEMMA ReturnStep ==
  ASSUME IInv, NEW j \in running, Return(j),
         j.pc \notin {"parse", "reparse", "index", "teardown"},
         UNCHANGED <<serverVars, featureVars, clientSide, dispatchVars, editorVars>>
  PROVE  IInv'
  <1> USE DEF IInv
  <1>1. running = {j} /\ j \in Job /\ running' = {} /\ finished' \subseteq finished \cup {j}
    BY OnlyJob
  <1>2. TypeOK'
    BY <1>1 DEF TypeOK, ServerTypeOK, FeatureTypeOK, featureVars, serverVars,
           clientSide, dispatchVars, editorVars
  <1>3. OneAtATime' /\ HandlersInv'
    BY <1>1 DEF OneAtATime, HandlersInv
  <1> QED
    BY <1>1, <1>2, <1>3
    DEF featureVars, serverVars, dispatchVars, clientSide, FreshJobs,
        Unstarted, Lifecycle, InProgress, QuietBeforeInitialize,
        AnalysisMatchesStore, ViewMatchesStore, Served, HasFeature, BeingAnalysed

(* A step of a handler that only goes on to a point whose demands are met. *)
LEMMA GoToStep ==
  ASSUME IInv, NEW j \in running, NEW pc \in {"change", "read"}, NEW left \in Seq(Texts),
         GoTo(j, pc, left), j.pc = "start", j.verdict = "run",
         Progress([j EXCEPT !.pc = pc, !.left = left]),
         j.msg.method # "initialize",
         UNCHANGED <<serverVars, featureVars, clientSide, dispatchVars, editorVars>>
  PROVE  IInv'
  <1> USE DEF IInv
  <1> DEFINE k == [j EXCEPT !.pc = pc, !.left = left]
  <1>1. /\ running = {j} /\ j \in Job
        /\ running' = {k} /\ finished' = finished
    BY OnlyJob
  <1>2. k \in Job /\ k.pc = pc /\ k.msg = j.msg /\ k.verdict = "run" /\ k.left = left
    BY <1>1 DEF Job, Pcs
  <1>3. TypeOK'
    BY <1>1, <1>2 DEF TypeOK, ServerTypeOK, FeatureTypeOK, featureVars, serverVars,
           clientSide, dispatchVars, editorVars
  <1>4. HandlersInv'
    BY <1>1, <1>2 DEF HandlersInv, Progress, Served, HasFeature, serverVars, featureVars, clientSide
  <1> QED
    BY <1>1, <1>2, <1>3, <1>4
    DEF featureVars, serverVars, dispatchVars, clientSide, FreshJobs, OneAtATime,
        Unstarted, Lifecycle, InProgress, QuietBeforeInitialize,
        AnalysisMatchesStore, ViewMatchesStore, Served, HasFeature, BeingAnalysed

(* The handler the gate substitutes changes nothing.                       *)
LEMMA RejectStep ==
  ASSUME IInv, NEW j \in running, Reject(j), UNCHANGED <<dispatchVars, editorVars>>
  PROVE  IInv'
  BY OnlyJob, ReturnStep DEF Reject, Progress

(* Neither does the one of the initialized notification,                   *)
LEMMA InitializedStep ==
  ASSUME IInv, NEW j \in running, Initialized(j), UNCHANGED <<dispatchVars, editorVars>>
  PROVE  IInv'
  BY ReturnStep DEF Initialized, At

(* nor reading the analysis.                                               *)
LEMMA AnswerStep ==
  ASSUME IInv, NEW j \in running, Answer(j), UNCHANGED <<dispatchVars, editorVars>>
  PROVE  IInv'
  BY ReturnStep DEF Answer

(* A query goes on to read only if the document is served.                 *)
LEMMA QueryStep ==
  ASSUME IInv, NEW j \in running, Query(j), UNCHANGED <<dispatchVars, editorVars>>
  PROVE  IInv'
  <1> DEFINE u == j.msg.uri
  <1>1. /\ j.msg.method \in Queries /\ j.verdict = "run" /\ j.pc = "start"
        /\ UNCHANGED <<serverVars, featureVars, clientSide>>
    BY DEF Query, At
  <1>2. CASE Served(u)
    <2> DEFINE k == [j EXCEPT !.pc = "read", !.left = <<>>]
    <2>1. GoTo(j, "read", <<>>)
      BY <1>2 DEF Query, Served
    <2>2. k.pc = "read" /\ k.msg = j.msg /\ k.verdict = j.verdict
      BY OnlyJob DEF Job
    <2>3. Progress(k)
      BY <1>1, <1>2, <2>2 DEF Progress
    <2>4. <<>> \in Seq(Texts)
      OBVIOUS
    <2>5. j.msg.method # "initialize"
      BY <1>1 DEF Queries, TreeQueries, SymbolQueries
    <2> QED
      BY <1>1, <2>1, <2>3, <2>4, <2>5, GoToStep
  <1>3. CASE ~Served(u)
    BY <1>1, <1>3, ReturnStep DEF Query, Served
  <1> QED
    BY <1>2, <1>3

(* A didChange goes on to its first change only if the document is stored. *)
LEMMA DidChangeStep ==
  ASSUME IInv, NEW j \in running, DidChange(j), UNCHANGED <<dispatchVars, editorVars>>
  PROVE  IInv'
  <1> DEFINE u == j.msg.uri
  <1>1. /\ j.msg.method = "textDocument/didChange" /\ j.verdict = "run" /\ j.pc = "start"
        /\ UNCHANGED <<serverVars, featureVars, clientSide>>
    BY DEF DidChange, At
  <1>2. CASE docs[u] = None \/ j.msg.texts = <<>>
    BY <1>1, <1>2, ReturnStep DEF DidChange
  <1>3. CASE docs[u] # None /\ j.msg.texts # <<>>
    <2> DEFINE k == [j EXCEPT !.pc = "change", !.left = j.msg.texts]
    <2>1. GoTo(j, "change", j.msg.texts)
      BY <1>3 DEF DidChange
    <2>4. j.msg.texts \in Seq(Texts)
      BY <1>1, OnlyJob, MessageParts DEF Job
    <2>2. k.pc = "change" /\ k.msg = j.msg /\ k.verdict = j.verdict /\ k.left = j.msg.texts
      <3>1. j \in Job
        BY OnlyJob
      <3> QED
        BY <3>1, SMTT(30) DEF Job
    <2>3. Progress(k)
      BY <1>1, <1>3, <2>2 DEF Progress
    <2> QED
      BY <1>1, <2>1, <2>3, <2>4, GoToStep
  <1> QED
    BY <1>2, <1>3

(* Initialize leaves the Created state; the feature is as it was.          *)
LEMMA InitializeStep ==
  ASSUME IInv, NEW j \in running, Initialize(j), UNCHANGED <<dispatchVars, editorVars>>
  PROVE  IInv'
  <1> USE DEF IInv
  <1> DEFINE k == [j EXCEPT !.pc = "negotiate", !.left = <<>>]
  <1>1. /\ running = {j} /\ j \in Job
        /\ running' = {k} /\ finished' = finished
    BY OnlyJob DEF Initialize
  <1>2. k \in Job /\ k.pc = "negotiate" /\ k.msg = j.msg /\ k.verdict = j.verdict
    BY <1>1, NothingLeft DEF Job, Pcs
  <1>3. /\ j.verdict = "run" /\ j.msg.method = "initialize" /\ j.pc = "start"
        /\ state' = "Initialized"
        /\ UNCHANGED <<posEncoding, docs, registered, featureVars, clientSide>>
    BY DEF Initialize, At
  <1>4. TypeOK'
    BY <1>1, <1>2, <1>3 DEF TypeOK, ServerTypeOK, FeatureTypeOK, featureVars,
           clientSide, dispatchVars, editorVars
  <1>5. HandlersInv'
    BY <1>1, <1>2, <1>3 DEF HandlersInv, Progress
  <1> QED
    BY <1>1, <1>2, <1>3, <1>4, <1>5
    DEF featureVars, dispatchVars, clientSide, FreshJobs, OneAtATime,
        Unstarted, Lifecycle, InProgress, QuietBeforeInitialize,
        AnalysisMatchesStore, ViewMatchesStore, Served, HasFeature, BeingAnalysed

(* The negotiated encoding is of no concern to the analysis.               *)
LEMMA SetPositionEncodingStep ==
  ASSUME IInv, NEW j \in running, SetPositionEncoding(j),
         UNCHANGED <<dispatchVars, editorVars>>
  PROVE  IInv'
  <1> USE DEF IInv
  <1>1. /\ running = {j} /\ j \in Job /\ running' = {} /\ finished' \subseteq finished \cup {j}
    BY OnlyJob DEF SetPositionEncoding
  <1>2. /\ j.msg.method = "initialize" /\ j.pc = "negotiate"
        /\ posEncoding' = Negotiate(j.msg.offered)
        /\ UNCHANGED <<state, docs, registered, featureVars, clientSide>>
    BY DEF SetPositionEncoding, At
  <1>3. posEncoding' \in {"utf-8", "utf-16"}
    BY <1>1, <1>2, MessageParts, NegotiateType DEF Job
  <1>4. TypeOK'
    BY <1>1, <1>2, <1>3 DEF TypeOK, ServerTypeOK, FeatureTypeOK, featureVars,
           clientSide, dispatchVars, editorVars
  <1> QED
    BY <1>1, <1>2, <1>4
    DEF featureVars, dispatchVars, clientSide, FreshJobs, OneAtATime, HandlersInv,
        Unstarted, Lifecycle, InProgress, QuietBeforeInitialize,
        AnalysisMatchesStore, ViewMatchesStore, Served, HasFeature, BeingAnalysed

(* Shutdown leaves the features to a handler at teardown.                  *)
LEMMA ShutdownStep ==
  ASSUME IInv, NEW j \in running, Shutdown(j), UNCHANGED <<dispatchVars, editorVars>>
  PROVE  IInv'
  <1> USE DEF IInv
  <1>1. /\ j.verdict = "run" /\ j.msg.method = "shutdown" /\ j.pc = "start"
        /\ UNCHANGED <<posEncoding, docs, registered, featureVars, clientSide>>
    BY DEF Shutdown, At
  <1>2. CASE state # "Initialized"
    BY <1>1, <1>2, ReturnStep DEF Shutdown, serverVars
  <1>3. CASE state = "Initialized"
    <2> DEFINE k == [j EXCEPT !.pc = "teardown", !.left = <<>>]
    <2>1. /\ running = {j} /\ j \in Job
          /\ running' = {k} /\ finished' = finished /\ state' = "ShutDown"
      BY <1>3, OnlyJob DEF Shutdown
    <2>2. k \in Job /\ k.pc = "teardown" /\ k.msg = j.msg /\ k.verdict = j.verdict
      BY <2>1, NothingLeft DEF Job, Pcs
    <2>3. TypeOK'
      BY <1>1, <2>1, <2>2 DEF TypeOK, ServerTypeOK, FeatureTypeOK, featureVars,
             clientSide, dispatchVars, editorVars
    <2>4. HandlersInv'
      BY <1>1, <2>1, <2>2 DEF HandlersInv, Progress
    <2> QED
      BY <1>1, <2>1, <2>2, <2>3, <2>4
      DEF featureVars, dispatchVars, clientSide, FreshJobs, OneAtATime,
          Unstarted, Lifecycle, InProgress, QuietBeforeInitialize,
          AnalysisMatchesStore, ViewMatchesStore, Served, HasFeature, BeingAnalysed
  <1> QED
    BY <1>2, <1>3

(* Once the features are closed no document is served.                     *)
LEMMA CloseFeaturesStep ==
  ASSUME IInv, NEW j \in running, CloseFeatures(j), UNCHANGED <<dispatchVars, editorVars>>
  PROVE  IInv'
  <1> USE DEF IInv
  <1>1. /\ running = {j} /\ j \in Job /\ running' = {} /\ finished' \subseteq finished \cup {j}
    BY OnlyJob DEF CloseFeatures
  <1>2. /\ j.verdict = "run" /\ j.msg.method = "shutdown" /\ j.pc = "teardown"
        /\ registered' = {}
        /\ UNCHANGED <<state, posEncoding, docs, clientSide>>
    BY DEF CloseFeatures, At
  <1>3. CloseFeature \/ UNCHANGED featureVars
    BY DEF CloseFeatures
  <1>4. TypeOK'
    BY <1>1, <1>2, <1>3 DEF TypeOK, ServerTypeOK, FeatureTypeOK, featureVars, CloseFeature,
           clientSide, dispatchVars, editorVars
  <1>5. state # "Created"
    BY <1>1, <1>2 DEF Lifecycle
  <1> QED
    BY <1>1, <1>2, <1>3, <1>4, <1>5
    DEF dispatchVars, clientSide, FreshJobs, OneAtATime, HandlersInv,
        Unstarted, Lifecycle, InProgress, QuietBeforeInitialize,
        AnalysisMatchesStore, ViewMatchesStore, Served, HasFeature

(* A document that was stored is of no feature's language or being         *)
(* analysed.                                                               *)
LEMMA DidOpenStep ==
  ASSUME IInv, NEW j \in running, DidOpen(j), UNCHANGED <<dispatchVars, editorVars>>
  PROVE  IInv'
  <1> USE DEF IInv
  <1> DEFINE u == j.msg.uri
             doc == [lang |-> j.msg.lang, text |-> j.msg.text, version |-> j.id]
             k == [j EXCEPT !.pc = "parse", !.left = <<>>]
  <1>1. /\ j.verdict = "run" /\ j.msg.method = "textDocument/didOpen" /\ j.pc = "start"
        /\ docs' = [docs EXCEPT ![u] = doc]
        /\ UNCHANGED <<state, posEncoding, registered, featureVars, clientSide>>
    BY DEF DidOpen, At
  <1>2. running = {j} /\ j \in Job
    BY OnlyJob
  <1>3. u \in URIs /\ doc \in Document /\ doc # None /\ doc.lang = j.msg.lang
    BY <1>1, <1>2, MessageParts, ServerAssumption DEF Job, Document
  <1>4. state # "Created"
    BY <1>1, <1>2 DEF Lifecycle, InProgress
  <1>5. /\ docs' \in [URIs -> Document \cup {None}]
        /\ docs'[u] = doc
        /\ \A v \in URIs : v # u => docs'[v] = docs[v]
    BY <1>1, <1>3 DEF TypeOK, ServerTypeOK
  <1>6. k \in Job /\ k.pc = "parse" /\ k.msg = j.msg /\ k.verdict = j.verdict
    BY <1>2, NothingLeft DEF Job, Pcs
  <1>7. \/ HasFeature(j.msg.lang) /\ running' = {k} /\ finished' = finished
        \/ ~HasFeature(j.msg.lang) /\ running' = {} /\ finished' \subseteq finished \cup {j}
    BY OnlyJob DEF DidOpen
  <1>8. TypeOK'
    BY <1>1, <1>2, <1>5, <1>6, <1>7 DEF TypeOK, ServerTypeOK, FeatureTypeOK, featureVars,
           clientSide, dispatchVars, editorVars
  <1>9. HandlersInv'
    <2>1. ASSUME HasFeature(j.msg.lang) PROVE Served(u)'
      BY <1>1, <1>3, <1>5, <2>1 DEF Served, HasFeature
    <2>2. ASSUME HasFeature(j.msg.lang) PROVE Progress(k)'
      BY <1>1, <1>6, <2>1, <2>2 DEF Progress
    <2> QED
      BY <1>7, <2>2 DEF HandlersInv
  <1>10. (AnalysisMatchesStore /\ ViewMatchesStore)'
    <2> SUFFICES ASSUME NEW v \in URIs, Served(v)', ~BeingAnalysed(v)'
                 PROVE  /\ trees'[v] = docs'[v].text /\ symbols'[v] = docs'[v].text
                        /\ connected' => view'[v] = FullSet(docs'[v].text, docs'[v].text)
      BY DEF AnalysisMatchesStore, ViewMatchesStore
    <2>1. v # u
      <3>1. ASSUME v = u, HasFeature(j.msg.lang) PROVE FALSE
        BY <1>6, <1>7, <3>1 DEF BeingAnalysed
      <3>2. ASSUME v = u, ~HasFeature(j.msg.lang) PROVE FALSE
        BY <1>1, <1>3, <1>5, <3>2 DEF Served, HasFeature
      <3> QED
        BY <3>1, <3>2
    <2>2. Served(v) /\ ~BeingAnalysed(v)
      BY <1>1, <1>2, <1>5, <2>1 DEF Served, HasFeature, BeingAnalysed
    <2> QED
      BY <1>1, <1>5, <2>1, <2>2
      DEF AnalysisMatchesStore, ViewMatchesStore, featureVars, clientSide
  <1> QED
    BY <1>1, <1>2, <1>4, <1>6, <1>7, <1>8, <1>9, <1>10
    DEF featureVars, dispatchVars, clientSide, FreshJobs, OneAtATime,
        Unstarted, Lifecycle, InProgress, QuietBeforeInitialize

(* After the parse the tree is that of the stored text and the first tier  *)
(* published.                                                              *)
LEMMA ParseStep ==
  ASSUME IInv, NEW j \in running, Parse(j), UNCHANGED <<dispatchVars, editorVars>>
  PROVE  IInv'
  <1> USE DEF IInv
  <1> DEFINE u == j.msg.uri
             k == [j EXCEPT !.pc = "index", !.left = <<>>]
  <1>1. /\ j.verdict = "run" /\ j.msg.method = "textDocument/didOpen" /\ j.pc = "parse"
        /\ OpenTree(u, docs[u].text)
        /\ Publish(u, TierOne(docs[u].text))
        /\ UNCHANGED serverVars
    BY DEF Parse, At
  <1>2. /\ running = {j} /\ j \in Job /\ Progress(j)
        /\ running' = {k} /\ finished' = finished
    BY OnlyJob DEF Parse
  <1>3. k \in Job /\ k.pc = "index" /\ k.msg = j.msg /\ k.verdict = j.verdict
    BY <1>2, NothingLeft DEF Job, Pcs
  <1>4. u \in URIs /\ Served(u)
    BY <1>1, <1>2, MessageParts DEF Job, Progress
  <1>5. docs[u].text \in Texts
    BY <1>4 DEF Served, TypeOK, ServerTypeOK, Document
  <1>6. /\ trees'[u] = docs[u].text
        /\ connected => view'[u] = TierOne(docs[u].text)
        /\ \A v \in URIs : v # u => trees'[v] = trees[v] /\ view'[v] = view[v]
        /\ UNCHANGED <<parser, symbols, connected>>
    BY <1>1, <1>4, <1>5 DEF OpenTree, Publish, TypeOK, ServerTypeOK, FeatureTypeOK
  <1>7. TypeOK'
    <2>1. TierOne(docs[u].text) \in SUBSET Diags
      BY <1>5, ContentAssumption DEF TierOne
    <2>2. FeatureTypeOK'
      <3>1. orphans' \in Nat
        BY <1>1 DEF TypeOK, ServerTypeOK, FeatureTypeOK, OpenTree
      <3>2. parser' \in {"open", "freed"} /\ symbols' \in [URIs -> Texts \cup {None}]
        BY <1>6 DEF TypeOK, ServerTypeOK, FeatureTypeOK
      <3>3. trees' \in [URIs -> Texts \cup {None}]
        BY <1>1, <1>5 DEF TypeOK, ServerTypeOK, FeatureTypeOK, OpenTree
      <3> QED
        BY <3>1, <3>2, <3>3 DEF FeatureTypeOK
    <2>3. view' \in [URIs -> (SUBSET Diags) \cup {None}]
      BY <1>1, <2>1 DEF TypeOK, ServerTypeOK, Publish
    <2> QED
      BY <1>1, <1>2, <1>3, <1>6, <2>2, <2>3
      DEF TypeOK, ServerTypeOK, serverVars, dispatchVars, editorVars
  <1>8. HandlersInv'
    <2>1. Served(u)' /\ docs'[u].text = docs[u].text
      BY <1>1, <1>4 DEF Served, HasFeature, serverVars
    <2>2. Progress(k)'
      BY <1>1, <1>3, <1>6, <2>1 DEF Progress, TierOne
    <2> QED
      BY <1>2, <2>2 DEF HandlersInv
  <1>9. (AnalysisMatchesStore /\ ViewMatchesStore)'
    BY <1>1, <1>2, <1>3, <1>6
    DEF AnalysisMatchesStore, ViewMatchesStore, Served, HasFeature, BeingAnalysed, serverVars
  <1> QED
    BY <1>1, <1>2, <1>3, <1>6, <1>7, <1>8, <1>9
    DEF serverVars, dispatchVars, FreshJobs, OneAtATime,
        Unstarted, Lifecycle, InProgress, QuietBeforeInitialize

(* So it is after a reparse.                                               *)
LEMMA ReparseStep ==
  ASSUME IInv, NEW j \in running, Reparse(j), UNCHANGED <<dispatchVars, editorVars>>
  PROVE  IInv'
  <1> USE DEF IInv
  <1> DEFINE u == j.msg.uri
             k == [j EXCEPT !.pc = "index", !.left = j.left]
  <1>1. /\ j.verdict = "run" /\ j.msg.method = "textDocument/didChange" /\ j.pc = "reparse"
        /\ ReplaceTree(u, docs[u].text)
        /\ Publish(u, TierOne(docs[u].text))
        /\ UNCHANGED serverVars
    BY DEF Reparse, At
  <1>2. /\ running = {j} /\ j \in Job /\ Progress(j)
        /\ running' = {k} /\ finished' = finished
    BY OnlyJob DEF Reparse
  <1>3. k \in Job /\ k.pc = "index" /\ k.msg = j.msg /\ k.verdict = j.verdict
    BY <1>2 DEF Job, Pcs
  <1>4. u \in URIs /\ Served(u)
    BY <1>1, <1>2, MessageParts DEF Job, Progress
  <1>5. docs[u].text \in Texts
    BY <1>4 DEF Served, TypeOK, ServerTypeOK, Document
  <1>6. /\ trees'[u] = docs[u].text
        /\ connected => view'[u] = TierOne(docs[u].text)
        /\ \A v \in URIs : v # u => trees'[v] = trees[v] /\ view'[v] = view[v]
        /\ UNCHANGED <<parser, symbols, orphans, connected>>
    BY <1>1, <1>4, <1>5 DEF ReplaceTree, Publish, TypeOK, ServerTypeOK, FeatureTypeOK
  <1>7. TypeOK'
    <2>1. TierOne(docs[u].text) \in SUBSET Diags
      BY <1>5, ContentAssumption DEF TierOne
    <2>2. trees' \in [URIs -> Texts \cup {None}]
      BY <1>1, <1>5 DEF TypeOK, ServerTypeOK, FeatureTypeOK, ReplaceTree
    <2>3. view' \in [URIs -> (SUBSET Diags) \cup {None}]
      BY <1>1, <2>1 DEF TypeOK, ServerTypeOK, Publish
    <2> QED
      BY <1>1, <1>2, <1>3, <1>6, <2>2, <2>3
      DEF TypeOK, ServerTypeOK, FeatureTypeOK, serverVars, dispatchVars, editorVars
  <1>8. HandlersInv'
    <2>1. Served(u)' /\ docs'[u].text = docs[u].text
      BY <1>1, <1>4 DEF Served, HasFeature, serverVars
    <2>2. Progress(k)'
      BY <1>1, <1>3, <1>6, <2>1 DEF Progress, TierOne
    <2> QED
      BY <1>2, <2>2 DEF HandlersInv
  <1>9. (AnalysisMatchesStore /\ ViewMatchesStore)'
    BY <1>1, <1>2, <1>3, <1>6
    DEF AnalysisMatchesStore, ViewMatchesStore, Served, HasFeature, BeingAnalysed, serverVars
  <1> QED
    BY <1>1, <1>2, <1>3, <1>6, <1>7, <1>8, <1>9
    DEF serverVars, dispatchVars, FreshJobs, OneAtATime,
        Unstarted, Lifecycle, InProgress, QuietBeforeInitialize

(* A closed document is forgotten by store and feature together.           *)
LEMMA DidCloseStep ==
  ASSUME IInv, NEW j \in running, DidClose(j), UNCHANGED <<dispatchVars, editorVars>>
  PROVE  IInv'
  <1> USE DEF IInv
  <1> DEFINE u == j.msg.uri
  <1>1. /\ j.verdict = "run" /\ j.msg.method = "textDocument/didClose" /\ j.pc = "start"
        /\ Return(j)
        /\ UNCHANGED <<state, posEncoding, registered, clientSide>>
    BY DEF DidClose, At
  <1>2. CASE ~Served(u)
    BY <1>1, <1>2, ReturnStep DEF DidClose, Served, serverVars
  <1>3. CASE Served(u)
    <2>1. DropDocument(u) /\ docs' = [docs EXCEPT ![u] = None]
      BY <1>3 DEF DidClose, Served
    <2>2. /\ running = {j} /\ j \in Job
          /\ running' = {} /\ finished' \subseteq finished \cup {j}
      BY <1>1, OnlyJob
    <2>3. u \in URIs
      BY <1>1, <2>2, MessageParts DEF Job
    <2>4. TypeOK'
      BY <1>1, <2>1, <2>2
      DEF TypeOK, ServerTypeOK, FeatureTypeOK, DropDocument, clientSide, dispatchVars, editorVars
    <2>5. (AnalysisMatchesStore /\ ViewMatchesStore)'
      BY <1>1, <2>1, <2>2, <2>3
      DEF AnalysisMatchesStore, ViewMatchesStore, Served, HasFeature, BeingAnalysed,
          DropDocument, TypeOK, ServerTypeOK, FeatureTypeOK, clientSide
    <2>6. state # "Created"
      BY <1>1, <2>2 DEF Lifecycle, InProgress
    <2> QED
      BY <1>1, <2>1, <2>2, <2>4, <2>5, <2>6
      DEF dispatchVars, FreshJobs, OneAtATime, HandlersInv, DropDocument,
          Unstarted, Lifecycle, InProgress, QuietBeforeInitialize
  <1> QED
    BY <1>2, <1>3

(* More than one content change left: one is left after the next.          *)
LEMMA TailOfLonger ==
  ASSUME NEW S, NEW s \in Seq(S), Len(s) > 1
  PROVE  Tail(s) \in Seq(S) /\ Tail(s) # <<>>
  <1>1. s # <<>> /\ Len(s) \in Nat
    BY EmptySeq
  <1>2. Tail(s) \in Seq(S) /\ Len(Tail(s)) = Len(s) - 1
    BY <1>1, HeadTailProperties
  <1>3. Len(Tail(s)) # 0
    BY <1>1, <1>2
  <1> QED
    BY <1>2, <1>3, EmptySeq

(* Where the loop over the content changes leaves the handler.             *)
LEMMA NextChangeJob ==
  ASSUME IInv, NEW j \in running, NextChange(j)
  PROVE  \/ running' = {} /\ finished' \subseteq finished \cup {j}
         \/ \E left \in Seq(Texts) :
              /\ left # <<>> /\ j.left # <<>>
              /\ running' = {[j EXCEPT !.pc = "change", !.left = left]}
              /\ finished' = finished
  <1>1. j.left \in Seq(Texts)
    BY OnlyJob DEF Job
  <1>2. CASE Len(j.left) <= 1
    BY <1>2, OnlyJob DEF NextChange
  <1>3. CASE ~(Len(j.left) <= 1)
    <2>1. Len(j.left) > 1 /\ j.left # <<>>
      BY <1>1, <1>3
    <2>2. Tail(j.left) \in Seq(Texts) /\ Tail(j.left) # <<>>
      BY <1>1, <2>1, TailOfLonger
    <2>3. GoTo(j, "change", Tail(j.left))
      BY <1>3 DEF NextChange
    <2> QED
      BY <2>1, <2>2, <2>3, OnlyJob
  <1> QED
    BY <1>2, <1>3

(* A change that was stored is being analysed, or of no feature's          *)
(* language.                                                               *)
LEMMA ApplyChangeStep ==
  ASSUME IInv, NEW j \in running, ApplyChange(j), UNCHANGED <<dispatchVars, editorVars>>
  PROVE  IInv'
  <1> USE DEF IInv
  <1> DEFINE u == j.msg.uri
             doc == [docs[u] EXCEPT !.text = Head(j.left), !.version = j.id]
  <1>1. /\ j.verdict = "run" /\ j.msg.method = "textDocument/didChange" /\ j.pc = "change"
        /\ docs' = [docs EXCEPT ![u] = doc]
        /\ UNCHANGED <<state, posEncoding, registered, featureVars, clientSide>>
    BY DEF ApplyChange, At
  <1>2. running = {j} /\ j \in Job /\ Progress(j)
    BY OnlyJob
  <1>3. /\ u \in URIs /\ docs[u] \in Document
        /\ j.left \in Seq(Texts) /\ j.left # <<>> /\ j.id \in Nat
    BY <1>1, <1>2, MessageParts DEF Job, Progress, TypeOK, ServerTypeOK
  <1>4. doc \in Document /\ doc # None /\ doc.lang = docs[u].lang
    <2>1. Head(j.left) \in Texts
      BY <1>3
    <2> QED
      BY <1>3, <2>1, ServerAssumption DEF Document
  <1>5. /\ docs' \in [URIs -> Document \cup {None}]
        /\ docs'[u] = doc
        /\ \A v \in URIs : v # u => docs'[v] = docs[v]
    BY <1>1, <1>3, <1>4 DEF TypeOK, ServerTypeOK
  <1>6. \/ /\ HasFeature(docs[u].lang)
           /\ running' = {[j EXCEPT !.pc = "reparse", !.left = j.left]}
           /\ finished' = finished
        \/ ~HasFeature(docs[u].lang) /\ running' = {} /\ finished' \subseteq finished \cup {j}
        \/ /\ ~HasFeature(docs[u].lang)
           /\ \E left \in Seq(Texts) :
                 /\ left # <<>>
                 /\ running' = {[j EXCEPT !.pc = "change", !.left = left]}
           /\ finished' = finished
    <2>1. CASE HasFeature(docs[u].lang)
      BY <2>1, OnlyJob DEF ApplyChange
    <2>2. CASE ~HasFeature(docs[u].lang)
      <3>1. NextChange(j)
        BY <2>2 DEF ApplyChange
      <3> QED
        BY <2>2, <3>1, NextChangeJob
    <2> QED
      BY <2>1, <2>2
  <1>7. ASSUME NEW k \in running'
        PROVE  /\ k \in Job /\ k.msg = j.msg /\ k.verdict = j.verdict /\ k.left # <<>>
               /\ k.pc = IF HasFeature(docs[u].lang) THEN "reparse" ELSE "change"
    <2>1. PICK left \in Seq(Texts) :
            /\ left # <<>>
            /\ k = [j EXCEPT !.pc = IF HasFeature(docs[u].lang) THEN "reparse" ELSE "change",
                             !.left = left]
      BY <1>3, <1>6, <1>7
    <2> QED
      BY <1>2, <2>1 DEF Job, Pcs
  <1>8. TypeOK'
    BY <1>1, <1>2, <1>5, <1>6, <1>7
    DEF TypeOK, ServerTypeOK, FeatureTypeOK, featureVars, clientSide, dispatchVars, editorVars
  <1>9. OneAtATime'
    BY <1>6 DEF OneAtATime
  <1>10. HandlersInv'
    <2>1. docs'[u] # None /\ (HasFeature(docs[u].lang) => Served(u)')
      BY <1>1, <1>4, <1>5 DEF Served, HasFeature
    <2> QED
      BY <1>1, <1>7, <2>1 DEF HandlersInv, Progress
  <1>11. (AnalysisMatchesStore /\ ViewMatchesStore)'
    <2> SUFFICES ASSUME NEW v \in URIs, Served(v)', ~BeingAnalysed(v)'
                 PROVE  /\ trees'[v] = docs'[v].text /\ symbols'[v] = docs'[v].text
                        /\ connected' => view'[v] = FullSet(docs'[v].text, docs'[v].text)
      BY DEF AnalysisMatchesStore, ViewMatchesStore
    <2>1. v # u
      <3>1. ASSUME v = u, HasFeature(docs[u].lang) PROVE FALSE
        BY <1>6, <1>7, <3>1 DEF BeingAnalysed
      <3>2. ASSUME v = u, ~HasFeature(docs[u].lang) PROVE FALSE
        BY <1>1, <1>4, <1>5, <3>2 DEF Served, HasFeature
      <3> QED
        BY <3>1, <3>2
    <2>2. Served(v) /\ ~BeingAnalysed(v)
      BY <1>1, <1>2, <1>5, <2>1 DEF Served, HasFeature, BeingAnalysed
    <2> QED
      BY <1>1, <1>5, <2>1, <2>2
      DEF AnalysisMatchesStore, ViewMatchesStore, featureVars, clientSide
  <1>12. state # "Created"
    BY <1>1, <1>2 DEF Lifecycle, InProgress
  <1> QED
    BY <1>1, <1>2, <1>7, <1>8, <1>9, <1>10, <1>11, <1>12
    DEF featureVars, dispatchVars, clientSide, FreshJobs,
        Unstarted, Lifecycle, InProgress, QuietBeforeInitialize

(* The index completes the analysis; the second publish, or its omission,  *)
(* the view.                                                               *)
LEMMA IndexAndFinishStep ==
  ASSUME IInv, NEW j \in running, IndexAndFinish(j), UNCHANGED <<dispatchVars, editorVars>>
  PROVE  IInv'
  <1> USE DEF IInv
  <1> DEFINE u == j.msg.uri
             t == docs[u].text
  <1>1. /\ j.verdict = "run" /\ j.pc = "index"
        /\ IndexSymbols(u)
        /\ NextChange(j)
        /\ UNCHANGED serverVars
    BY DEF IndexAndFinish
  <1>2. running = {j} /\ j \in Job /\ Progress(j)
    BY OnlyJob
  <1>3. /\ u \in URIs /\ Served(u) /\ trees[u] = t
        /\ connected => view[u] = TierOne(t)
        /\ j.msg.method \in {"textDocument/didOpen", "textDocument/didChange"}
        /\ j.msg.method = "textDocument/didOpen" => j.left = <<>>
    BY <1>1, <1>2, MessageParts DEF Job, Progress
  <1>4. t \in Texts /\ docs[u] # None
    BY <1>3 DEF Served, TypeOK, ServerTypeOK, Document
  <1>5. /\ symbols'[u] = t
        /\ symbols' \in [URIs -> Texts \cup {None}]
        /\ \A v \in URIs : v # u => symbols'[v] = symbols[v]
        /\ UNCHANGED <<parser, trees, orphans>>
    BY <1>1, <1>3, <1>4 DEF IndexSymbols, TypeOK, ServerTypeOK, FeatureTypeOK
  <1>6. /\ FullSet(t, t) \in SUBSET Diags
        /\ RefDiags[t] = {} => FullSet(t, t) = TierOne(t)
    BY <1>4, ContentAssumption DEF FullSet, TierOne
  <1>7. /\ connected => view'[u] = FullSet(t, t)
        /\ view' \in [URIs -> (SUBSET Diags) \cup {None}]
        /\ \A v \in URIs : v # u => view'[v] = view[v]
        /\ UNCHANGED connected
    <2>1. CASE RefDiags[t] = {}
      BY <1>3, <1>5, <1>6, <2>1
      DEF IndexAndFinish, clientSide, TypeOK, ServerTypeOK
    <2>2. CASE RefDiags[t] # {}
      <3>1. Publish(u, FullSet(t, t))
        BY <1>3, <1>5, <2>2 DEF IndexAndFinish
      <3> QED
        BY <1>3, <1>6, <3>1 DEF Publish, TypeOK, ServerTypeOK
    <2> QED
      BY <2>1, <2>2
  <1>8. \/ running' = {} /\ finished' \subseteq finished \cup {j}
        \/ \E left \in Seq(Texts) :
             /\ left # <<>> /\ j.left # <<>>
             /\ running' = {[j EXCEPT !.pc = "change", !.left = left]}
             /\ finished' = finished
    BY <1>1, NextChangeJob
  <1>9. ASSUME NEW k \in running'
        PROVE  /\ k \in Job /\ k.msg = j.msg /\ k.verdict = j.verdict /\ k.left # <<>>
               /\ k.pc = "change" /\ j.left # <<>>
    BY <1>2, <1>8, <1>9 DEF Job, Pcs
  <1>10. TypeOK'
    BY <1>1, <1>2, <1>5, <1>7, <1>8, <1>9
    DEF TypeOK, ServerTypeOK, FeatureTypeOK, serverVars, dispatchVars, editorVars
  <1>11. OneAtATime'
    BY <1>8 DEF OneAtATime
  <1>12. HandlersInv'
    BY <1>1, <1>3, <1>4, <1>9 DEF HandlersInv, Progress, serverVars
  <1>13. (AnalysisMatchesStore /\ ViewMatchesStore)'
    <2> SUFFICES ASSUME NEW v \in URIs, Served(v)', ~BeingAnalysed(v)'
                 PROVE  /\ trees'[v] = docs'[v].text /\ symbols'[v] = docs'[v].text
                        /\ connected' => view'[v] = FullSet(docs'[v].text, docs'[v].text)
      BY DEF AnalysisMatchesStore, ViewMatchesStore
    <2>1. CASE v = u
      BY <1>1, <1>3, <1>5, <1>7, <2>1 DEF serverVars
    <2>2. CASE v # u
      <3>1. Served(v) /\ ~BeingAnalysed(v)
        BY <1>1, <1>2, <2>2 DEF Served, HasFeature, BeingAnalysed, serverVars
      <3> QED
        BY <1>1, <1>5, <1>7, <2>2, <3>1
        DEF AnalysisMatchesStore, ViewMatchesStore, serverVars
    <2> QED
      BY <2>1, <2>2
  <1>14. state # "Created"
    BY <1>1, <1>2 DEF Lifecycle, InProgress
  <1> QED
    BY <1>1, <1>2, <1>5, <1>9, <1>10, <1>11, <1>12, <1>13, <1>14
    DEF serverVars, dispatchVars, FreshJobs,
        Unstarted, Lifecycle, InProgress, QuietBeforeInitialize
-----------------------------------------------------------------------------
(* Every step of a handler preserves the inductive invariant.              *)
LEMMA HandleStep ==
  ASSUME IInv, Handle
  PROVE  IInv'
  <1>1. UNCHANGED <<dispatchVars, editorVars>>
    BY DEF Handle
  <1>2. PICK j \in running :
          \/ Reject(j) \/ Initialize(j) \/ SetPositionEncoding(j)
          \/ Initialized(j) \/ Shutdown(j) \/ CloseFeatures(j)
          \/ DidOpen(j) \/ Parse(j) \/ DidChange(j) \/ ApplyChange(j)
          \/ Reparse(j) \/ IndexAndFinish(j) \/ DidClose(j)
          \/ Query(j) \/ Answer(j)
    BY DEF Handle, HandlerStep
  <1>3. CASE Reject(j)               BY <1>1, <1>3, RejectStep
  <1>4. CASE Initialize(j)           BY <1>1, <1>4, InitializeStep
  <1>5. CASE SetPositionEncoding(j)  BY <1>1, <1>5, SetPositionEncodingStep
  <1>6. CASE Initialized(j)          BY <1>1, <1>6, InitializedStep
  <1>7. CASE Shutdown(j)             BY <1>1, <1>7, ShutdownStep
  <1>8. CASE CloseFeatures(j)        BY <1>1, <1>8, CloseFeaturesStep
  <1>9. CASE DidOpen(j)              BY <1>1, <1>9, DidOpenStep
  <1>10. CASE Parse(j)               BY <1>1, <1>10, ParseStep
  <1>11. CASE DidChange(j)           BY <1>1, <1>11, DidChangeStep
  <1>12. CASE ApplyChange(j)         BY <1>1, <1>12, ApplyChangeStep
  <1>13. CASE Reparse(j)             BY <1>1, <1>13, ReparseStep
  <1>14. CASE IndexAndFinish(j)      BY <1>1, <1>14, IndexAndFinishStep
  <1>15. CASE DidClose(j)            BY <1>1, <1>15, DidCloseStep
  <1>16. CASE Query(j)               BY <1>1, <1>16, QueryStep
  <1>17. CASE Answer(j)              BY <1>1, <1>17, AnswerStep
  <1> QED
    BY <1>2, <1>3, <1>4, <1>5, <1>6, <1>7, <1>8, <1>9, <1>10, <1>11, <1>12,
       <1>13, <1>14, <1>15, <1>16, <1>17

(* A step that changes nothing preserves it, of course.                    *)
LEMMA StutterStep ==
  ASSUME IInv, UNCHANGED vars
  PROVE  IInv'
  BY DEF vars, featureVars, serverVars, jobVars, clientSide, dispatchVars, editorVars,
         IInv, TypeOK, ServerTypeOK, FeatureTypeOK, OneAtATime, FreshJobs, Unstarted,
         HandlersInv, Progress, Lifecycle, InProgress, QuietBeforeInitialize,
         AnalysisMatchesStore, ViewMatchesStore, Served, HasFeature, BeingAnalysed

(* Every step of a session preserves the inductive invariant.              *)
LEMMA NextIInv == IInv /\ [Next]_vars => IInv'
  <1> SUFFICES ASSUME IInv, [Next]_vars PROVE IInv'
    OBVIOUS
  <1>1. ASSUME NEW msg \in Message, Send(msg) PROVE IInv'
    BY <1>1, SendStep
  <1>2. CASE Disconnect
    BY <1>2, DisconnectStep
  <1>3. CASE ServerStep
    <2>1. CASE Assign
      BY <2>1, AssignStep
    <2>2. CASE Issue
      BY <2>2, IssueStep
    <2>3. ASSUME NEW j \in issued, Acquire(j) \/ Abandon(j) PROVE IInv'
      BY <2>3, AcquireStep, AbandonStep
    <2>4. CASE Handle
      BY <2>4, HandleStep
    <2>5. ASSUME NEW j \in finished, Deliver(j) PROVE IInv'
      BY <2>5, DeliverStep
    <2> QED
      BY <1>3, <2>1, <2>2, <2>3, <2>4, <2>5 DEF ServerStep
  <1>4. CASE Exited \/ UNCHANGED vars
    BY <1>4, StutterStep DEF Exited
  <1> QED
    BY <1>1, <1>2, <1>3, <1>4 DEF Next

(* The inductive invariant holds throughout every session.                 *)
THEOREM Invariance == Spec => []IInv
  BY InitIInv, NextIInv, PTL DEF Spec
-----------------------------------------------------------------------------
(* What the invariant says of the program.                                 *)

(* Every variable keeps its type, whatever the client sends.               *)
THEOREM TypeCorrect == Spec => []TypeOK
  <1>1. IInv => TypeOK
    BY DEF IInv
  <1> QED
    BY <1>1, Invariance, PTL

(* A handler that has looked the feature up and is about to call it finds  *)
(* its parser open (feature.go:75-85): Close empties the registry, and no  *)
(* other handler runs between a lookup and the call.                       *)
THEOREM UseAfterClose == Spec => []NoUseAfterClose
  <1>1. ASSUME IInv PROVE NoUseAfterClose
    <2> SUFFICES ASSUME NEW j \in running, j.pc \in {"parse", "reparse", "index", "read"}
                 PROVE  parser = "open"
      BY DEF NoUseAfterClose
    <2>1. Served(j.msg.uri)
      BY <1>1 DEF IInv, HandlersInv, Progress
    <2>2. registered # {}
      BY <2>1 DEF Served, HasFeature
    <2> QED
      BY <1>1, <2>2 DEF IInv, Lifecycle, TypeOK, ServerTypeOK, FeatureTypeOK
  <1> QED
    BY <1>1, Invariance, PTL

(* Between two handlers the tree and the symbol index of every served      *)
(* document are those of the text in the store (feature.go:97-161).        *)
THEOREM Analysed == Spec => []AnalysisMatchesStore
  <1>1. IInv => AnalysisMatchesStore
    BY DEF IInv
  <1> QED
    BY <1>1, Invariance, PTL

(* Hover, completion, definition, references and document symbols are      *)
(* answered from the analysis of the text then in the store.               *)
THEOREM Answered == Spec => []AnswersFromStore
  <1>1. ASSUME IInv PROVE AnswersFromStore
    <2> SUFFICES ASSUME NEW j \in running, j.pc = "read"
                 PROVE  /\ docs[j.msg.uri] # None
                        /\ trees[j.msg.uri] = docs[j.msg.uri].text
                        /\ symbols[j.msg.uri] = docs[j.msg.uri].text
      BY DEF AnswersFromStore
    <2>1. running = {j} /\ j \in Job
      BY <1>1, OnlyJob
    <2>2. j.msg.method \in Queries /\ Served(j.msg.uri)
      BY <1>1 DEF IInv, HandlersInv, Progress
    <2>3. j.msg.uri \in URIs
      BY <2>1, <2>2, MessageParts DEF Job
    <2>4. ~BeingAnalysed(j.msg.uri)
      BY <2>1 DEF BeingAnalysed
    <2> QED
      BY <1>1, <2>2, <2>3, <2>4 DEF IInv, AnalysisMatchesStore, Served
  <1> QED
    BY <1>1, Invariance, PTL

(* Skipping the second publish when the symbol passes found nothing never  *)
(* leaves the client with less than the full set (feature.go:137-152).     *)
THEOREM Viewed == Spec => []ViewMatchesStore
  <1>1. IInv => ViewMatchesStore
    BY DEF IInv
  <1> QED
    BY <1>1, Invariance, PTL

(* Nothing sent before initialize is handled leaves a trace.               *)
THEOREM Quiet == Spec => []QuietBeforeInitialize
  <1>1. IInv => QuietBeforeInitialize
    BY DEF IInv
  <1> QED
    BY <1>1, Invariance, PTL

(* Only a handler of an initialized server publishes diagnostics.          *)
LEMMA PublishStep ==
  ASSUME IInv, [Next]_vars, view' # view
  PROVE  state = "Initialized"
  <1>1. PICK j \in running : Parse(j) \/ Reparse(j) \/ IndexAndFinish(j)
    BY DEF Next, ServerStep, Send, Disconnect, Assign, Issue, Acquire, Abandon, Deliver,
           Exited, vars, clientSide, Handle, HandlerStep, Reject, Initialize,
           SetPositionEncoding, Initialized, Shutdown, CloseFeatures, DidOpen,
           DidChange, ApplyChange, DidClose, Query, Answer
  <1>2. j.pc \in {"parse", "reparse", "index"}
    BY <1>1 DEF Parse, Reparse, IndexAndFinish, At
  <1>3. running = {j} /\ Served(j.msg.uri)
    BY <1>2, OnlyJob DEF Progress
  <1>4. registered # {}
    BY <1>3 DEF Served, HasFeature
  <1>5. state # "Created" /\ state # "ShutDown"
    BY <1>2, <1>3, <1>4 DEF IInv, Lifecycle
  <1> QED
    BY <1>5 DEF IInv, TypeOK, ServerTypeOK

(* Diagnostics are published neither before initialize nor after shutdown. *)
THEOREM Published == Spec => PublishesOnlyInitialized
  <1>1. IInv /\ [Next]_vars => [view' # view => state = "Initialized"]_vars
    BY PublishStep
  <1> QED
    BY <1>1, Invariance, PTL DEF Spec, PublishesOnlyInitialized

-----------------------------------------------------------------------------
(* The messages the gate has been asked about, and with those still to be  *)
(* taken all that are not handled to their end.                            *)
Assigned == ({slot} \ {None}) \cup InProgress
InFlight == inbox \cup Assigned

(* Messages are numbered in the order they are sent.                       *)
Numbered ==
    /\ nsent <= MaxMessages
    /\ \A m \in InFlight \cup finished : m.id \in 1..nsent
    /\ \A m \in InFlight : m.seen < m.id
    /\ \A u \in URIs : editor[u] # None => editor[u].version <= nsent

(* Each is in one place only, and its number names it there.               *)
OnePlace ==
    /\ issued \cap running = {}
    /\ InProgress \cap finished = {}
    /\ \A j, k \in InProgress \cup finished : j.id = k.id => j = k
    /\ \A d, e \in inbox : d.id = e.id => d = e

(* They are taken in this order, and of those being handled a notification *)
(* is the youngest.                                                        *)
InOrder ==
    /\ slot # None => \A j \in InProgress \cup finished : j.id < slot.id
    /\ \A e \in inbox :
         /\ slot # None => slot.id < e.id
         /\ \A j \in InProgress \cup finished : j.id < e.id
    /\ \A j, k \in InProgress : IsNotification(k.msg) => j.id <= k.id

(* The editor awaits the reply to each request that may still be replied   *)
(* to; one that awaits each reply awaits at most that of its last message. *)
Awaiting ==
    /\ \A m \in InFlight \cup finished : IsNotification(m.msg) \/ m.id \in awaiting
    /\ ~pipelined => awaiting \subseteq {nsent}

(* No document will ever be served again.                                  *)
Dead == registered = {} \/ TearingDown

(* What the gate said still tells of the server when the handler runs.     *)
Verdict ==
    /\ \A j \in Assigned :
         /\ j.verdict = "InvalidRequest" => Dead
         /\ j.verdict = "ServerNotInitialized" /\ IsNotification(j.msg) =>
               \A u \in URIs : docs[u] = None
    /\ slot # None /\ slot.verdict = "ServerNotInitialized" =>
         \A j \in InProgress : j.verdict = "run" => j.msg.method = "initialize"

(* After a shutdown that was awaited only its own handler may do anything. *)
Frozen ==
    state = "ShutDown" /\ ~pipelined =>
        \A j \in Assigned : j.verdict = "run" => j.pc = "teardown"

(* A message that gives document u the text the editor then believes in.   *)
Writes(msg, u) ==
    /\ msg.method \in {"textDocument/didOpen", "textDocument/didChange"}
    /\ msg.uri = u
    /\ msg.method = "textDocument/didChange" => msg.texts # <<>>

(* The server has, or will have before it turns to a later message, the    *)
(* document u in version s or a later one, or it does not have it at all.  *)
Reaches(u, s) ==
    \/ \E m \in InFlight : m.id = s /\ Writes(m.msg, u)
    \/ Dead
    \/ /\ \A m \in InFlight : IsNotification(m.msg) => s < m.id
       /\ docs[u] # None => s <= docs[u].version

(* So it is of every document the editor has open, and of every document a *)
(* query in flight was asked about. The handler of a write that has come   *)
(* past its store has stored its own version.                              *)
Fresh ==
    /\ \A u \in URIs : editor[u] # None => Reaches(u, editor[u].version)
    /\ \A m \in InFlight : m.msg.method \in Queries =>
          m.seen = 0 \/ Reaches(m.msg.uri, m.seen)
    /\ \A j \in running : j.pc \in {"parse", "reparse", "index"} =>
          docs[j.msg.uri].version = j.id

OInv ==
    /\ Numbered
    /\ OnePlace
    /\ InOrder
    /\ Awaiting
    /\ Verdict
    /\ Frozen
    /\ Fresh
-----------------------------------------------------------------------------
(* At the start nothing has been sent.                                     *)
LEMMA InitOInv == Init => OInv
  <1> SUFFICES ASSUME Init PROVE OInv
    OBVIOUS
  <1> USE DEF Init, ServerInit, FeatureInit
  <1>1. /\ InFlight = {} /\ Assigned = {} /\ finished = {} /\ InProgress = {}
        /\ inbox = {} /\ slot = None
    BY DEF InFlight, Assigned, InProgress
  <1>2. Numbered /\ OnePlace /\ InOrder /\ Awaiting
    BY <1>1, SessionAssumption DEF Numbered, OnePlace, InOrder, Awaiting
  <1>3. Verdict /\ Frozen /\ Fresh
    BY <1>1 DEF Verdict, Frozen, Fresh
  <1> QED
    BY <1>2, <1>3 DEF OInv

(* What is in flight has a number and a message, and is not None.          *)
LEMMA FlightType ==
  ASSUME TypeOK
  PROVE  /\ \A m \in InFlight : m.id \in Nat /\ m.seen \in Nat /\ m.msg \in Message
         /\ \A j \in Assigned \cup InProgress \cup finished : j \in Job
  BY DEF TypeOK, ServerTypeOK, InFlight, Assigned, InProgress, Envelope, Job

(* What reaches a version goes on to when no notification is lost, none    *)
(* older comes up, and documents are written by notifications in flight.   *)
LEMMA ReachesKept ==
  ASSUME TypeOK, NEW u \in URIs, NEW s \in Nat, Reaches(u, s), Dead => Dead',
         \A m \in InFlight : m.id = s /\ Writes(m.msg, u) =>
            \/ \E n \in InFlight' : n.id = m.id /\ n.msg = m.msg
            \/ /\ \A n \in InFlight' : IsNotification(n.msg) => s < n.id
               /\ Dead' \/ docs'[u] = None \/ s <= docs'[u].version,
         \A n \in InFlight' : IsNotification(n.msg) =>
            \/ s < n.id
            \/ \E m \in InFlight : m.id = n.id /\ IsNotification(m.msg),
         \/ docs'[u] = None
         \/ docs'[u] = docs[u]
         \/ \E m \in InFlight : IsNotification(m.msg) /\ docs'[u].version = m.id
  PROVE  Reaches(u, s)'
  <1>1. CASE \E m \in InFlight : m.id = s /\ Writes(m.msg, u)
    <2>1. PICK m \in InFlight : m.id = s /\ Writes(m.msg, u)
      BY <1>1
    <2>2. ASSUME NEW n \in InFlight', n.id = m.id, n.msg = m.msg PROVE Reaches(u, s)'
      BY <2>1, <2>2 DEF Reaches, Writes
    <2> QED
      BY <2>1, <2>2 DEF Reaches
  <1>2. CASE Dead
    BY <1>2 DEF Reaches
  <1>3. CASE /\ \A m \in InFlight : IsNotification(m.msg) => s < m.id
             /\ docs[u] # None => s <= docs[u].version
    <2>1. \A n \in InFlight' : IsNotification(n.msg) => s < n.id
      BY <1>3
    <2>2. docs'[u] # None => s <= docs'[u].version
      BY <1>3, FlightType
    <2> QED
      BY <2>1, <2>2 DEF Reaches
  <1> QED
    BY <1>1, <1>2, <1>3 DEF Reaches
-----------------------------------------------------------------------------
(* The numbering and the order of the messages: the editor and the         *)
(* dispatcher.                                                             *)
Queued == Numbered /\ OnePlace /\ InOrder /\ Awaiting

(* What the editor holds after a message is as old as before, or new.      *)
LEMMA EditorVersions ==
  ASSUME TypeOK, NEW msg \in Message, NEW id \in Nat, NEW u \in URIs
  PROVE  \/ EditorAfter(msg, id)[u] \in {None, editor[u]}
         \/ /\ EditorAfter(msg, id)[u].version = id
            /\ EditorAfter(msg, id)[u] # None
            /\ Writes(msg, u)
  <1> USE MessageParts, ServerAssumption DEF TypeOK
  <1>1. CASE msg.method = "textDocument/didOpen"
    BY <1>1 DEF EditorAfter, Document, Writes
  <1>2. CASE /\ msg.method = "textDocument/didChange"
             /\ msg.texts # <<>>
             /\ editor[msg.uri] # None
    <2>1. msg.texts[Len(msg.texts)] \in Texts
      BY <1>2
    <2>2. editor[msg.uri] \in Document
      BY <1>2
    <2> QED
      BY <1>2, <2>1, <2>2 DEF EditorAfter, Document, Writes
  <1>3. CASE msg.method = "textDocument/didClose"
    BY <1>3 DEF EditorAfter
  <1> QED
    BY <1>1, <1>2, <1>3 DEF EditorAfter

(* A message sent is younger than all others.                              *)
LEMMA SendQueued ==
  ASSUME IInv, OInv, NEW msg \in Message, Send(msg)
  PROVE  Queued'
  <1> USE DEF IInv, OInv
  <1> DEFINE e == [id |-> nsent + 1, msg |-> msg, seen |-> SeenBy(msg)]
  <1>1. /\ nsent < MaxMessages /\ nsent' = nsent + 1 /\ inbox' = inbox \cup {e}
        /\ awaiting' = IF IsNotification(msg) THEN awaiting ELSE awaiting \cup {nsent'}
        /\ pipelined' = (pipelined \/ awaiting # {})
        /\ editor' = EditorAfter(msg, nsent + 1)
        /\ UNCHANGED <<slot, issued, running, finished>>
    BY DEF Send, jobVars
  <1>2. InFlight' = InFlight \cup {e} /\ InProgress' = InProgress
    BY <1>1 DEF InFlight, Assigned, InProgress
  <1>3. nsent \in Nat /\ MaxMessages \in Nat
    BY SessionAssumption DEF TypeOK
  <1>4. SeenBy(msg) <= nsent
    BY <1>3, MessageParts DEF SeenBy, Numbered
  <1>5. \A u \in URIs : editor'[u] # None => editor'[u].version <= nsent'
    <2>1. \A u \in URIs : editor[u] # None => editor[u].version <= nsent + 1
      BY <1>3 DEF Numbered, TypeOK, Document
    <2> QED
      BY <1>1, <1>3, <2>1, EditorVersions
  <1>6. Numbered'
    <2>1. e.id \in 1..nsent' /\ e.seen < e.id
      BY <1>1, <1>3, <1>4, MessageParts DEF SeenBy, TypeOK, Document
    <2>2. \A m \in InFlight \cup finished : m.id \in 1..nsent'
      BY <1>1, <1>3 DEF Numbered
    <2>3. nsent' <= MaxMessages
      BY <1>1, <1>3
    <2> HIDE DEF e
    <2>4. \A m \in InFlight' \cup finished' : m.id \in 1..nsent'
      BY <1>1, <1>2, <2>1, <2>2
    <2>5. \A m \in InFlight' : m.seen < m.id
      BY <1>2, <2>1 DEF Numbered
    <2> QED
      BY <1>5, <2>3, <2>4, <2>5 DEF Numbered
  <1>7. OnePlace' /\ InOrder'
    <2>1. \A m \in InFlight \cup finished : m.id < e.id
      BY <1>3, FlightType DEF Numbered
    <2>2. slot # None => slot \in InFlight
      BY DEF InFlight, Assigned
    <2> QED
      BY <1>1, <1>2, <2>1, <2>2 DEF OnePlace, InOrder, InFlight, Assigned
  <1>8. Awaiting'
    <2>1. IsNotification(e.msg) \/ e.id \in awaiting'
      BY <1>1
    <2>2. awaiting \subseteq awaiting'
      BY <1>1
    <2>3. ~pipelined' => awaiting' \subseteq {nsent'}
      BY <1>1
    <2> HIDE DEF e
    <2> QED
      BY <1>1, <1>2, <2>1, <2>2, <2>3 DEF Awaiting
  <1> QED
    BY <1>6, <1>7, <1>8 DEF Queued

(* Hanging up empties the queue and the replies.                           *)
LEMMA DisconnectQueued ==
  ASSUME IInv, OInv, Disconnect
  PROVE  Queued'
  <1> USE DEF OInv
  <1>1. inbox' \subseteq inbox /\ UNCHANGED <<slot, issued, running, finished, editorVars>>
    BY DEF Disconnect, jobVars
  <1>2. InFlight' \subseteq InFlight /\ InProgress' = InProgress
    BY <1>1 DEF InFlight, Assigned, InProgress
  <1> QED
    BY <1>1, <1>2 DEF Queued, Numbered, OnePlace, InOrder, Awaiting, editorVars

(* The oldest message is taken.                                            *)
LEMMA AssignQueued ==
  ASSUME IInv, OInv, Assign
  PROVE  Queued'
  <1> USE DEF OInv
  <1>1. PICK e \in inbox :
          /\ \A f \in inbox : e.id <= f.id
          /\ inbox' = inbox \ {e}
          /\ slot' = [id |-> e.id, msg |-> e.msg, seen |-> e.seen,
                      verdict |-> Gate(e.msg.method), pc |-> "start", left |-> <<>>]
    BY DEF Assign
  <1>2. slot = None /\ UNCHANGED <<issued, running, finished, editorVars>>
    BY DEF Assign, jobVars
  <1>3. InProgress' = InProgress
    BY <1>2 DEF InProgress
  <1>4. /\ e \in InFlight /\ e.id = slot'.id /\ e.msg = slot'.msg /\ e.seen = slot'.seen
        /\ slot' # None
    <2>1. Gate(e.msg.method) \in Verdicts
      BY DEF Gate, Verdicts
    <2>2. slot' \in Job
      BY <1>1, <2>1, NothingLeft DEF Job, Pcs, IInv, TypeOK, Envelope
    <2> QED
      BY <1>1, <2>2, SessionAssumption DEF InFlight, Assigned
  <1>5. Numbered' /\ OnePlace' /\ Awaiting'
    <2>1. \A m \in InFlight' : m \in InFlight \/ m = slot'
      BY <1>1, <1>2, <1>3 DEF InFlight, Assigned
    <2>2. inbox' \subseteq inbox
      BY <1>1
    <2>3. Numbered'
      BY <1>2, <1>4, <2>1 DEF Numbered, editorVars
    <2>4. OnePlace'
      BY <1>2, <1>3, <2>2 DEF OnePlace
    <2>5. Awaiting'
      BY <1>2, <1>4, <2>1 DEF Awaiting, editorVars
    <2> QED
      BY <2>3, <2>4, <2>5
  <1>6. InOrder'
    <2>1. \A f \in inbox' : slot'.id < f.id
      BY <1>1, <1>4 DEF OnePlace, IInv, TypeOK, Envelope
    <2> QED
      BY <1>1, <1>2, <1>3, <1>4, <2>1 DEF InOrder
  <1> QED
    BY <1>5, <1>6 DEF Queued

(* It is issued when only requests are being handled.                      *)
LEMMA IssueQueued ==
  ASSUME IInv, OInv, Issue
  PROVE  Queued'
  <1> USE DEF OInv
  <1>1. /\ slot # None /\ slot' = None /\ issued' = issued \cup {slot}
        /\ \A j \in InProgress : ~IsNotification(j.msg)
        /\ UNCHANGED <<inbox, running, finished, editorVars>>
    BY DEF Issue, jobVars
  <1>2. /\ InFlight' = InFlight
        /\ InProgress' = InProgress \cup {slot}
        /\ slot \in InFlight
    BY <1>1 DEF InFlight, Assigned, InProgress
  <1>3. slot.id \in Nat /\ \A j \in InProgress \cup finished : j.id \in Nat
    BY <1>2, FlightType DEF IInv, Job
  <1>4. \A j \in InProgress \cup finished : j.id < slot.id
    BY <1>1 DEF InOrder
  <1>5. \A e \in inbox : slot.id < e.id
    BY <1>1 DEF InOrder
  <1>6. Numbered' /\ Awaiting'
    BY <1>1, <1>2 DEF Numbered, Awaiting, editorVars
  <1>7. OnePlace'
    BY <1>1, <1>2, <1>3, <1>4 DEF OnePlace, InProgress
  <1>8. InOrder'
    BY <1>1, <1>2, <1>3, <1>4, <1>5 DEF InOrder
  <1> QED
    BY <1>6, <1>7, <1>8 DEF Queued

(* The semaphore changes the order of nothing.                             *)
LEMMA AcquireQueued ==
  ASSUME IInv, OInv, NEW j \in issued, Acquire(j)
  PROVE  Queued'
  <1> USE DEF OInv
  <1>1. /\ issued' = issued \ {j} /\ running' = running \cup {j}
        /\ UNCHANGED <<inbox, slot, finished, editorVars>>
    BY DEF Acquire
  <1>2. InProgress' = InProgress /\ InFlight' = InFlight
    BY <1>1 DEF InFlight, Assigned, InProgress
  <1> QED
    BY <1>1, <1>2 DEF Queued, Numbered, OnePlace, InOrder, Awaiting, editorVars

(* A cancelled job goes to the replies; nothing else moves.                *)
LEMMA AbandonQueued ==
  ASSUME IInv, OInv, NEW j \in issued, Abandon(j)
  PROVE  Queued'
  <1> USE DEF OInv
  <1>1. /\ issued' = issued \ {j}
        /\ UNCHANGED <<inbox, slot, running, finished, editorVars>>
    BY DEF Abandon, jobVars
  <1>2. InProgress' \subseteq InProgress /\ InFlight' \subseteq InFlight
    BY <1>1 DEF InFlight, Assigned, InProgress
  <1> QED
    BY <1>1, <1>2 DEF Queued, Numbered, OnePlace, InOrder, Awaiting, editorVars

(* Only the reply delivered is no longer awaited.                          *)
LEMMA DeliverQueued ==
  ASSUME IInv, OInv, NEW j \in finished, Deliver(j)
  PROVE  Queued'
  <1> USE DEF OInv
  <1>1. /\ finished' = finished \ {j}
        /\ awaiting' \in {awaiting, awaiting \ {j.id}}
        /\ UNCHANGED <<inbox, slot, issued, running, nsent, pipelined, editor>>
    BY DEF Deliver, dispatchVars
  <1>2. InProgress' = InProgress /\ InFlight' = InFlight
    BY <1>1 DEF InFlight, Assigned, InProgress
  <1>3. Numbered' /\ OnePlace' /\ InOrder'
    BY <1>1, <1>2 DEF Numbered, OnePlace, InOrder
  <1>4. \A m \in InFlight' \cup finished' : m.id # j.id
    <2>1. ASSUME NEW m \in InProgress \cup finished' PROVE m.id # j.id
      BY <1>1, <2>1 DEF OnePlace
    <2>2. ASSUME NEW m \in inbox \cup ({slot} \ {None}) PROVE m.id # j.id
      <3>1. j.id < m.id
        BY <2>2 DEF InOrder
      <3> QED
        BY <3>1, FlightType DEF IInv, Job
    <2> QED
      BY <1>2, <2>1, <2>2 DEF InFlight, Assigned
  <1>5. Awaiting'
    BY <1>1, <1>2, <1>4 DEF Awaiting
  <1> QED
    BY <1>3, <1>5 DEF Queued

(* What a handler's step makes of its job: it goes on, or it returns.      *)
GoesOn(j) == \E k \in Job : /\ k.id = j.id /\ k.msg = j.msg /\ k.seen = j.seen
                            /\ k.verdict = j.verdict
                            /\ running' = {k} /\ finished' = finished

(* A handler that goes on keeps its place, ...                             *)
LEMMA GoesOnQueued ==
  ASSUME IInv, OInv, NEW j \in running, GoesOn(j), UNCHANGED <<dispatchVars, editorVars>>
  PROVE  /\ Queued'
         /\ \A m \in InFlight' : \E n \in InFlight : n.id = m.id /\ n.msg = m.msg /\ n.seen = m.seen
         /\ \A m \in InFlight : \E n \in InFlight' : n.id = m.id /\ n.msg = m.msg
  <1> USE DEF OInv
  <1>1. PICK k \in Job : /\ k.id = j.id /\ k.msg = j.msg /\ k.seen = j.seen
                         /\ running' = {k} /\ finished' = finished
    BY DEF GoesOn
  <1>2. running = {j} /\ UNCHANGED <<inbox, slot, issued, editorVars>>
    BY OnlyJob DEF dispatchVars
  <1>3. /\ InProgress' = (InProgress \ {j}) \cup {k}
        /\ InFlight' \subseteq InFlight \cup {k}
        /\ j \in InProgress /\ j \in InFlight /\ k \in InFlight'
        /\ InFlight \subseteq InFlight' \cup {j}
    <2>1. j \notin issued
      BY <1>2 DEF OnePlace
    <2> QED
      BY <1>1, <1>2, <2>1 DEF InFlight, Assigned, InProgress
  <1>4. Numbered' /\ Awaiting'
    BY <1>1, <1>2, <1>3 DEF Numbered, Awaiting, editorVars
  <1>5. OnePlace'
    <2>1. \A m \in issued \cup finished : m # j
      BY <1>2, <1>3 DEF OnePlace
    <2>2. \A m \in issued \cup finished : m # k
      BY <1>1, <1>3, <2>1 DEF OnePlace, InProgress
    <2> QED
      BY <1>1, <1>2, <1>3, <2>1, <2>2 DEF OnePlace, InProgress
  <1>6. InOrder'
    BY <1>1, <1>2, <1>3 DEF InOrder
  <1> QED
    BY <1>1, <1>3, <1>4, <1>5, <1>6 DEF Queued

(* ... and one that returns leaves only younger notifications behind.      *)
LEMMA ReturnQueued ==
  ASSUME IInv, OInv, NEW j \in running, Return(j), UNCHANGED <<dispatchVars, editorVars>>
  PROVE  /\ Queued'
         /\ running' = {} /\ InFlight' = InFlight \ {j} /\ j \in InFlight
         /\ IsNotification(j.msg) =>
              \A m \in InFlight' : IsNotification(m.msg) => j.id < m.id
  <1> USE DEF OInv
  <1>1. /\ running = {j} /\ running' = {}
        /\ finished' = IF IsNotification(j.msg) THEN finished ELSE finished \cup {j}
        /\ UNCHANGED <<inbox, slot, issued, editorVars>>
    BY OnlyJob DEF Return, dispatchVars
  <1>2. j \in InProgress /\ j \notin issued /\ j \notin finished /\ j.id \in Nat
    BY <1>1, FlightType DEF OnePlace, InProgress, IInv, Job
  <1>3. \A m \in inbox \cup ({slot} \ {None}) : j.id < m.id
    BY <1>2 DEF InOrder
  <1>4. InProgress' = InProgress \ {j} /\ InFlight' = InFlight \ {j} /\ j \in InFlight
    <2>1. j \notin inbox \cup ({slot} \ {None})
      BY <1>2, <1>3
    <2> QED
      BY <1>1, <1>2, <2>1 DEF InProgress, Assigned, InFlight
  <1>5. InProgress' \cup finished' \subseteq InProgress \cup finished
    BY <1>1, <1>2, <1>4
  <1>6. Numbered' /\ Awaiting'
    BY <1>1, <1>4, <1>5 DEF Numbered, Awaiting, editorVars
  <1>7. OnePlace' /\ InOrder'
    BY <1>1, <1>2, <1>4, <1>5 DEF OnePlace, InOrder
  <1>8. ASSUME IsNotification(j.msg), NEW m \in InFlight', IsNotification(m.msg)
        PROVE  j.id < m.id
    <2>1. CASE m \in inbox \cup ({slot} \ {None})
      BY <1>3, <2>1
    <2>2. CASE m \in InProgress'
      <3>1. m \in InProgress /\ m # j
        BY <1>4, <2>2
      <3>2. j.id <= m.id /\ j.id # m.id /\ m.id \in Nat
        BY <1>2, <1>8, <3>1, FlightType DEF InOrder, OnePlace, IInv, Job
      <3> QED
        BY <1>2, <3>2
    <2> QED
      BY <1>1, <1>4, <1>8, <2>1, <2>2 DEF InFlight, Assigned
  <1> QED
    BY <1>1, <1>4, <1>6, <1>7, <1>8 DEF Queued
-----------------------------------------------------------------------------
(* The verdicts of the gate, what is frozen and what is fresh: the editor  *)
(* and the dispatcher.                                                     *)
Kept == Verdict /\ Frozen /\ Fresh

(* Nothing in flight is older than a document it is about, so versions are *)
(* numbers.                                                                *)
LEMMA EditorVersionType ==
  ASSUME TypeOK, NEW u \in URIs, editor[u] # None
  PROVE  editor[u].version \in Nat
  BY DEF TypeOK, Document

(* A message sent joins the queue as the last.                             *)
LEMMA SendKept ==
  ASSUME IInv, OInv, NEW msg \in Message, Send(msg)
  PROVE  Kept'
  <1> USE DEF IInv, OInv
  <1> DEFINE e == [id |-> nsent + 1, msg |-> msg, seen |-> SeenBy(msg)]
  <1>1. /\ inbox' = inbox \cup {e}
        /\ pipelined' = (pipelined \/ awaiting # {})
        /\ editor' = EditorAfter(msg, nsent + 1)
        /\ UNCHANGED <<slot, issued, running, docs, registered, state>>
    BY DEF Send, jobVars, serverVars
  <1>2. /\ InFlight' = InFlight \cup {e} /\ Assigned' = Assigned
        /\ InProgress' = InProgress /\ (Dead <=> Dead')
    BY <1>1 DEF InFlight, Assigned, InProgress, Dead, TearingDown
  <1>3. Verdict' /\ Frozen'
    BY <1>1, <1>2 DEF Verdict, Frozen
  <1>4. nsent \in Nat
    BY DEF TypeOK
  <1>5. ASSUME NEW u \in URIs, NEW s \in Nat, s <= nsent, Reaches(u, s)
        PROVE  Reaches(u, s)'
    <2>1. e.id = nsent + 1
      OBVIOUS
    <2> HIDE DEF e
    <2> QED
      BY <1>1, <1>2, <1>4, <1>5, <2>1 DEF Reaches
  <1>6. ASSUME NEW u \in URIs, editor'[u] # None
        PROVE  Reaches(u, editor[u].version)'
    <2>1. CASE editor'[u] = editor[u]
      <3>1. PICK s \in Nat : s = editor[u].version /\ s <= nsent
        BY <1>6, <2>1, EditorVersionType DEF Numbered
      <3>2. Reaches(u, s)'
        BY <1>5, <1>6, <2>1, <3>1 DEF Fresh
      <3> QED
        BY <2>1, <3>1, <3>2
    <2>2. CASE editor'[u].version = nsent + 1 /\ Writes(msg, u)
      <3>1. e.id = nsent + 1 /\ e.msg = msg /\ e \in InFlight'
        BY <1>2
      <3> QED
        BY <2>2, <3>1 DEF Reaches
    <2> QED
      BY <1>1, <1>4, <1>6, <2>1, <2>2, EditorVersions
  <1>7. ASSUME NEW m \in InFlight', m.msg.method \in Queries, m.seen # 0
        PROVE  Reaches(m.msg.uri, m.seen)'
    <2>1. CASE m \in InFlight
      <3>1. /\ m.msg.uri \in URIs /\ m.seen \in Nat /\ m.seen <= nsent
            /\ Reaches(m.msg.uri, m.seen)
        BY <1>4, <1>7, <2>1, FlightType, MessageParts DEF Fresh, Numbered
      <3> QED
        BY <1>5, <3>1
    <2>2. CASE m = e
      <3>1. /\ msg.uri \in URIs /\ editor[msg.uri] # None
            /\ m.seen = editor[msg.uri].version /\ m.msg = msg
        BY <1>7, <2>2, MessageParts DEF SeenBy
      <3>2. PICK u \in URIs : u = msg.uri
        BY <3>1
      <3>3. PICK s \in Nat : s = editor[u].version /\ s <= nsent
        BY <3>1, <3>2, EditorVersionType DEF Numbered
      <3>4. Reaches(u, s)'
        BY <1>5, <3>1, <3>2, <3>3 DEF Fresh
      <3> QED
        BY <3>1, <3>2, <3>3, <3>4
    <2> QED
      BY <1>2, <2>1, <2>2
  <1>8. \A j \in running' : j.pc \in {"parse", "reparse", "index"} =>
           docs'[j.msg.uri].version = j.id
    BY <1>1 DEF Fresh
  <1>9. Fresh'
    BY <1>6, <1>7, <1>8 DEF Fresh
  <1> QED
    BY <1>3, <1>9 DEF Kept

(* The steps that move jobs about, or drop requests, and nothing else.     *)
LEMMA MoveKept ==
  ASSUME IInv, OInv, UNCHANGED <<state, docs, registered, pipelined, editor>>,
         InFlight' \subseteq InFlight, Assigned' \subseteq Assigned,
         \A m \in InFlight : IsNotification(m.msg) => m \in InFlight',
         \A j \in running' : j \in running \/ j.pc = "start",
         TearingDown => TearingDown',
         slot' # None => slot' = slot /\ InProgress' \subseteq InProgress
  PROVE  Kept'
  <1> USE DEF IInv, OInv
  <1>1. Dead => Dead'
    BY DEF Dead
  <1>2. Verdict' /\ Frozen'
    BY <1>1 DEF Verdict, Frozen
  <1>3. ASSUME NEW u \in URIs, NEW s \in Nat, Reaches(u, s)
        PROVE  Reaches(u, s)'
    BY <1>1, <1>3 DEF Reaches, Writes, IsNotification, Notifications
  <1>4. ASSUME NEW u \in URIs, editor'[u] # None
        PROVE  Reaches(u, editor[u].version)'
    <2>1. PICK s \in Nat : s = editor[u].version
      BY <1>4, EditorVersionType
    <2> QED
      BY <1>3, <1>4, <2>1 DEF Fresh
  <1>5. ASSUME NEW m \in InFlight', m.msg.method \in Queries, m.seen # 0
        PROVE  Reaches(m.msg.uri, m.seen)'
    BY <1>3, <1>5, FlightType, MessageParts DEF Fresh
  <1>6. Fresh'
    BY <1>4, <1>5 DEF Fresh
  <1> QED
    BY <1>2, <1>6 DEF Kept

(* Hanging up takes messages away, which disturbs no order.                *)
LEMMA DisconnectKept ==
  ASSUME IInv, OInv, Disconnect
  PROVE  Kept'
  <1>1. /\ inbox' = {e \in inbox : IsNotification(e.msg)}
        /\ UNCHANGED <<slot, issued, running, state, docs, registered, pipelined, editor>>
    BY DEF Disconnect, jobVars, serverVars, editorVars
  <1> QED
    BY <1>1, MoveKept DEF InFlight, Assigned, InProgress, TearingDown

(* The gate refuses a notification before initialize, when there is no     *)
(* document, or any message after shutdown, when there is nothing served.  *)
LEMMA AssignKept ==
  ASSUME IInv, OInv, Assign
  PROVE  Kept'
  <1> USE DEF IInv, OInv
  <1>1. PICK e \in inbox :
          /\ inbox' = inbox \ {e}
          /\ slot' = [id |-> e.id, msg |-> e.msg, seen |-> e.seen,
                      verdict |-> Gate(e.msg.method), pc |-> "start", left |-> <<>>]
    BY DEF Assign
  <1>2. /\ slot = None
        /\ UNCHANGED <<issued, running, docs, state, registered, pipelined, editor>>
    BY DEF Assign, jobVars, serverVars, editorVars
  <1>3. /\ InProgress' = InProgress /\ Assigned' = InProgress \cup {slot'}
        /\ Assigned = InProgress /\ (Dead <=> Dead')
    <2>1. Gate(e.msg.method) \in Verdicts
      BY DEF Gate, Verdicts
    <2>2. slot' \in Job
      BY <1>1, <2>1, NothingLeft DEF Job, Pcs, TypeOK, Envelope
    <2> QED
      BY <1>2, <2>2, SessionAssumption DEF Assigned, InProgress, Dead, TearingDown
  <1>4. /\ \A m \in InFlight : \E n \in InFlight' : n.id = m.id /\ n.msg = m.msg
        /\ \A n \in InFlight' : \E m \in InFlight : m.id = n.id /\ m.msg = n.msg /\ m.seen = n.seen
    <2>1. slot'.id = e.id /\ slot'.msg = e.msg /\ slot'.seen = e.seen
      BY <1>1
    <2>2. InFlight = inbox \cup InProgress /\ InFlight' = (inbox \ {e}) \cup InProgress \cup {slot'}
      BY <1>1, <1>3 DEF InFlight
    <2> QED
      BY <2>1, <2>2
  <1>5. slot'.verdict = Gate(e.msg.method) /\ slot'.msg = e.msg /\ slot'.pc = "start"
    BY <1>1
  <1>6. Verdict'
    <2>1. slot'.verdict = "InvalidRequest" => Dead'
      BY <1>2, <1>3, <1>5 DEF Gate, Lifecycle, Dead, TearingDown, TypeOK, ServerTypeOK
    <2>2. slot'.verdict = "ServerNotInitialized" => state = "Created"
      BY <1>5 DEF Gate
    <2>3. slot'.verdict = "ServerNotInitialized" => \A u \in URIs : docs'[u] = None
      BY <1>2, <2>2 DEF QuietBeforeInitialize
    <2>4. slot'.verdict = "ServerNotInitialized" =>
             \A j \in InProgress' : j.verdict = "run" => j.msg.method = "initialize"
      BY <1>3, <2>2 DEF Lifecycle
    <2> QED
      BY <1>2, <1>3, <2>1, <2>3, <2>4 DEF Verdict
  <1>7. Frozen'
    BY <1>2, <1>3, <1>5 DEF Frozen, Gate
  <1>8. ASSUME NEW u \in URIs, NEW s \in Nat, Reaches(u, s)
        PROVE  Reaches(u, s)'
    BY <1>2, <1>3, <1>4, <1>8 DEF Reaches
  <1>9. ASSUME NEW u \in URIs, editor'[u] # None
        PROVE  Reaches(u, editor[u].version)'
    <2>1. PICK s \in Nat : s = editor[u].version
      BY <1>2, <1>9, EditorVersionType
    <2> QED
      BY <1>2, <1>8, <1>9, <2>1 DEF Fresh
  <1>10. ASSUME NEW n \in InFlight', n.msg.method \in Queries, n.seen # 0
         PROVE  Reaches(n.msg.uri, n.seen)'
    BY <1>4, <1>8, <1>10, FlightType, MessageParts DEF Fresh
  <1>11. Fresh'
    BY <1>2, <1>9, <1>10 DEF Fresh
  <1> QED
    BY <1>6, <1>7, <1>11 DEF Kept

(* Issuing moves a job from the slot to the issued ones.                   *)
LEMMA IssueKept ==
  ASSUME IInv, OInv, Issue
  PROVE  Kept'
  <1>1. /\ slot # None /\ slot' = None /\ issued' = issued \cup {slot}
        /\ UNCHANGED <<inbox, running, state, docs, registered, pipelined, editor>>
    BY DEF Issue, jobVars, serverVars, editorVars
  <1>2. InFlight' = InFlight /\ Assigned' = Assigned
    BY <1>1 DEF InFlight, Assigned, InProgress
  <1> QED
    BY <1>1, <1>2, MoveKept DEF TearingDown

(* Getting the semaphore moves an issued job to the running ones.          *)
LEMMA AcquireKept ==
  ASSUME IInv, OInv, NEW j \in issued, Acquire(j)
  PROVE  Kept'
  <1>1. /\ issued' = issued \ {j} /\ running' = running \cup {j} /\ j.pc = "start"
        /\ UNCHANGED <<inbox, slot, state, docs, registered, pipelined, editor>>
    BY DEF Acquire, serverVars, editorVars, IInv, FreshJobs, Unstarted
  <1>2. InFlight' = InFlight /\ Assigned' = Assigned /\ InProgress' = InProgress
    BY <1>1 DEF InFlight, Assigned, InProgress
  <1> QED
    BY <1>1, <1>2, MoveKept DEF TearingDown

(* A cancelled job is answered without having run.                         *)
LEMMA AbandonKept ==
  ASSUME IInv, OInv, NEW j \in issued, Abandon(j)
  PROVE  Kept'
  <1>1. /\ issued' = issued \ {j} /\ ~IsNotification(j.msg)
        /\ UNCHANGED <<inbox, slot, running, state, docs, registered, pipelined, editor>>
    BY DEF Abandon, jobVars, serverVars, editorVars
  <1>2. /\ InFlight' \subseteq InFlight /\ Assigned' \subseteq Assigned
        /\ InFlight \subseteq InFlight' \cup {j} /\ InProgress' \subseteq InProgress
    BY <1>1 DEF InFlight, Assigned, InProgress
  <1> QED
    BY <1>1, <1>2, MoveKept DEF TearingDown

(* A reply leaves; whoever awaited it awaits one less.                     *)
LEMMA DeliverKept ==
  ASSUME IInv, OInv, NEW j \in finished, Deliver(j)
  PROVE  Kept'
  <1>1. UNCHANGED <<inbox, slot, issued, running, state, docs, registered, pipelined, editor>>
    BY DEF Deliver, dispatchVars, serverVars
  <1> QED
    BY <1>1, MoveKept DEF InFlight, Assigned, InProgress, TearingDown
-----------------------------------------------------------------------------
(* The handlers.                                                           *)

(* What each step of a handler is to the order: its job goes on or is at   *)
(* an end; only the handler of a notification writes documents, in its own *)
(* version; one that ends leaves its own version, or a later one, or none. *)
Effect(j) ==
    /\ Dead => Dead'
    /\ \/ docs' = docs
       \/ /\ j.verdict = "run" /\ IsNotification(j.msg)
          /\ \A u \in URIs : \/ docs'[u] \in {None, docs[u]}
                             \/ docs'[u].version = j.id
    /\ \A k \in running' : k.pc \in {"parse", "reparse", "index"} =>
          docs'[k.msg.uri].version = k.id
    /\ Return(j) => \A u \in URIs : Writes(j.msg, u) =>
          Dead' \/ docs'[u] = None \/ j.id <= docs'[u].version

(* A handler's step keeps its verdict and the documents' versions.         *)
LEMMA HandlerKept ==
  ASSUME IInv, OInv, NEW j \in running, UNCHANGED <<dispatchVars, editorVars>>,
         GoesOn(j) \/ Return(j), Effect(j)
  PROVE  (Verdict /\ Fresh)'
  <1> USE DEF IInv, OInv
  <1>1. running = {j} /\ j \in Job /\ j \in Assigned /\ j \in InFlight /\ j \in InProgress
    BY OnlyJob DEF InFlight, Assigned, InProgress
  <1>2. UNCHANGED <<inbox, slot, issued, editor>>
    BY DEF dispatchVars, editorVars
  <1>3. /\ \A k \in InProgress' : \E m \in InProgress :
              m.id = k.id /\ m.msg = k.msg /\ m.seen = k.seen /\ m.verdict = k.verdict
        /\ GoesOn(j) => \A m \in InProgress : \E k \in InProgress' :
              m.id = k.id /\ m.msg = k.msg
    BY <1>1, <1>2 DEF GoesOn, Return, InProgress
  <1>4. /\ \A k \in Assigned' : \E m \in Assigned :
              m.id = k.id /\ m.msg = k.msg /\ m.seen = k.seen /\ m.verdict = k.verdict
        /\ \A k \in InFlight' : \E m \in InFlight :
              m.id = k.id /\ m.msg = k.msg /\ m.seen = k.seen
        /\ GoesOn(j) => \A m \in InFlight : \E k \in InFlight' :
              m.id = k.id /\ m.msg = k.msg
    BY <1>2, <1>3 DEF InFlight, Assigned
  <1>5. ASSUME NEW m \in Assigned, m.verdict = "ServerNotInitialized", IsNotification(m.msg),
               NEW u \in URIs
        PROVE  docs'[u] = None
    <2>1. docs[u] = None
      BY <1>5 DEF Verdict
    <2>2. CASE docs' = docs
      BY <2>1, <2>2
    <2>3. CASE j.verdict = "run" /\ IsNotification(j.msg)
      <3>1. m \in InProgress => m = j
        <4> SUFFICES ASSUME m \in InProgress PROVE m = j
          OBVIOUS
        <4>1. m.id <= j.id /\ j.id <= m.id /\ m.id \in Nat /\ j.id \in Nat
          BY <1>1, <1>5, <2>3, FlightType DEF InOrder, Job
        <4> QED
          BY <1>1, <4>1 DEF OnePlace
      <3>2. m \notin {slot} \ {None}
        BY <1>1, <1>5, <2>3 DEF Verdict, Assigned, IsNotification, Notifications
      <3> QED
        BY <1>5, <2>3, <3>1, <3>2 DEF Assigned
    <2> QED
      BY <2>2, <2>3 DEF Effect
  <1>6. Verdict'
    <2>1. \A k \in Assigned' : k.verdict = "InvalidRequest" => Dead'
      BY <1>4 DEF Verdict, Effect
    <2>2. \A k \in Assigned' : k.verdict = "ServerNotInitialized" /\ IsNotification(k.msg) =>
             \A u \in URIs : docs'[u] = None
      BY <1>4, <1>5
    <2>3. slot' # None /\ slot'.verdict = "ServerNotInitialized" =>
             \A k \in InProgress' : k.verdict = "run" => k.msg.method = "initialize"
      BY <1>2, <1>3 DEF Verdict
    <2> QED
      BY <2>1, <2>2, <2>3 DEF Verdict
  <1>7. ASSUME NEW u \in URIs, NEW s \in Nat, Reaches(u, s)
        PROVE  Reaches(u, s)'
    <2>1. Dead => Dead'
      BY DEF Effect
    <2>2. ASSUME NEW m \in InFlight, m.id = s, Writes(m.msg, u)
          PROVE  \/ \E n \in InFlight' : n.id = m.id /\ n.msg = m.msg
                 \/ /\ \A n \in InFlight' : IsNotification(n.msg) => s < n.id
                    /\ Dead' \/ docs'[u] = None \/ s <= docs'[u].version
      <3>1. CASE GoesOn(j)
        BY <1>4, <3>1
      <3>2. CASE Return(j) /\ m # j
        BY <3>2, ReturnQueued
      <3>3. CASE Return(j) /\ m = j
        <4>1. IsNotification(j.msg)
          BY <2>2, <3>3 DEF Writes, IsNotification, Notifications
        <4>2. \A n \in InFlight' : IsNotification(n.msg) => s < n.id
          BY <2>2, <3>3, <4>1, ReturnQueued
        <4>3. Dead' \/ docs'[u] = None \/ s <= docs'[u].version
          BY <2>2, <3>3 DEF Effect
        <4> QED
          BY <4>2, <4>3
      <3> QED
        BY <3>1, <3>2, <3>3
    <2>3. \A n \in InFlight' : IsNotification(n.msg) =>
             \E m \in InFlight : m.id = n.id /\ IsNotification(m.msg)
      BY <1>4
    <2>4. \/ docs'[u] = None
          \/ docs'[u] = docs[u]
          \/ \E m \in InFlight : IsNotification(m.msg) /\ docs'[u].version = m.id
      BY <1>1 DEF Effect
    <2> QED
      BY <1>7, <2>1, <2>2, <2>3, <2>4, ReachesKept
  <1>8. ASSUME NEW u \in URIs, editor'[u] # None
        PROVE  Reaches(u, editor[u].version)'
    <2>1. PICK s \in Nat : s = editor[u].version
      BY <1>2, <1>8, EditorVersionType
    <2> QED
      BY <1>2, <1>7, <1>8, <2>1 DEF Fresh
  <1>9. ASSUME NEW n \in InFlight', n.msg.method \in Queries, n.seen # 0
        PROVE  Reaches(n.msg.uri, n.seen)'
    BY <1>4, <1>7, <1>9, FlightType, MessageParts DEF Fresh
  <1>10. Fresh'
    BY <1>8, <1>9 DEF Fresh, Effect
  <1> QED
    BY <1>6, <1>10

(* A job that goes on is a job.                                            *)
LEMMA GoToGoesOn ==
  ASSUME IInv, NEW j \in running, NEW pc \in Pcs, NEW left \in Seq(Texts), GoTo(j, pc, left)
  PROVE  GoesOn(j) /\ running' = {[j EXCEPT !.pc = pc, !.left = left]}
  <1> DEFINE k == [j EXCEPT !.pc = pc, !.left = left]
  <1>1. j \in Job /\ running' = {k} /\ finished' = finished
    BY OnlyJob
  <1>2. /\ k \in Job /\ k.id = j.id /\ k.msg = j.msg /\ k.seen = j.seen
        /\ k.verdict = j.verdict
    BY <1>1 DEF Job
  <1> QED
    BY <1>1, <1>2 DEF GoesOn

(* A handler that goes on does not return: it still runs.                  *)
LEMMA GoesOnRuns ==
  ASSUME IInv, NEW j \in running, GoesOn(j)
  PROVE  ~ Return(j)
  BY OnlyJob DEF GoesOn, Return

(* After a shutdown that was awaited a handler that may do anything is     *)
(* that of the shutdown.                                                   *)
LEMMA FrozenJob ==
  ASSUME OInv, NEW j \in running, state = "ShutDown", ~pipelined, j.verdict = "run"
  PROVE  j.pc = "teardown"
  BY DEF OInv, Frozen, Assigned, InProgress

(* A step that leaves the state as it is keeps frozen what was.            *)
LEMMA FrozenKept ==
  ASSUME IInv, OInv, NEW j \in running, UNCHANGED <<dispatchVars, editorVars, state>>,
         Return(j) \/ (j.verdict = "run" /\ j.pc # "teardown")
  PROVE  Frozen'
  <1> SUFFICES ASSUME state = "ShutDown", ~pipelined
               PROVE  \A m \in Assigned' : m.verdict = "run" => m.pc = "teardown"
    BY DEF Frozen, editorVars
  <1>1. Return(j)
    BY FrozenJob
  <1>2. Assigned' \subseteq Assigned
    BY <1>1 DEF Return, Assigned, InProgress, dispatchVars
  <1> QED
    BY <1>2 DEF OInv, Frozen

(* The handlers that change neither documents nor registry nor state, and  *)
(* do not end the handling of a write, ...                                 *)
LEMMA ReadingStep ==
  ASSUME IInv, OInv, NEW j \in running, UNCHANGED <<dispatchVars, editorVars>>,
         UNCHANGED <<docs, registered, state>>, j.pc # "teardown",
         \/ Return(j) /\ \A u \in URIs : Writes(j.msg, u) =>
                             Dead \/ docs[u] = None \/ j.id <= docs[u].version
         \/ \E pc \in Pcs, left \in Seq(Texts) :
               /\ GoTo(j, pc, left) /\ j.verdict = "run"
               /\ pc \in {"parse", "reparse", "index"} => docs[j.msg.uri].version = j.id
  PROVE  Kept'
  <1>1. GoesOn(j) \/ Return(j)
    BY GoToGoesOn
  <1>2. Frozen'
    BY FrozenKept
  <1>3. running = {j} /\ j \in Job
    BY OnlyJob
  <1>4. ~ TearingDown
    BY <1>3 DEF TearingDown
  <1>5. \A k \in running' : k.pc \in {"parse", "reparse", "index"} =>
           docs'[k.msg.uri].version = k.id
    <2>1. CASE Return(j)
      BY <1>3, <2>1 DEF Return
    <2>2. ASSUME NEW pc \in Pcs, NEW left \in Seq(Texts), GoTo(j, pc, left),
                 pc \in {"parse", "reparse", "index"} => docs[j.msg.uri].version = j.id,
                 NEW k \in running', k.pc \in {"parse", "reparse", "index"}
          PROVE  docs'[k.msg.uri].version = k.id
      <3>1. k = [j EXCEPT !.pc = pc, !.left = left]
        BY <1>3, <2>2 DEF GoTo
      <3>2. k.pc = pc /\ k.msg = j.msg /\ k.id = j.id
        BY <1>3, <3>1 DEF Job
      <3> QED
        BY <2>2, <3>2
    <2> QED
      BY <2>1, <2>2
  <1>6. Effect(j)
    <2>1. Dead => Dead'
      BY <1>4 DEF Dead
    <2>2. Return(j) => \A u \in URIs : Writes(j.msg, u) =>
             Dead' \/ docs'[u] = None \/ j.id <= docs'[u].version
      BY <1>1, <2>1, GoToGoesOn, GoesOnRuns
    <2> QED
      BY <1>5, <2>1, <2>2 DEF Effect
  <1> QED
    BY <1>1, <1>2, <1>6, HandlerKept DEF Kept

(* A rejection changes nothing but the jobs.                               *)
LEMMA RejectKept ==
  ASSUME IInv, OInv, NEW j \in running, Reject(j), UNCHANGED <<dispatchVars, editorVars>>
  PROVE  Kept'
  <1>1. /\ j.verdict # "run" /\ Return(j) /\ UNCHANGED <<docs, registered, state>>
        /\ j.pc = "start" /\ j \in Job /\ j \in Assigned
    BY OnlyJob DEF Reject, serverVars, Progress, Assigned, InProgress
  <1>2. ASSUME NEW u \in URIs, Writes(j.msg, u)
        PROVE  Dead \/ docs[u] = None \/ j.id <= docs[u].version
    <2>1. IsNotification(j.msg)
      BY <1>2 DEF Writes, IsNotification, Notifications
    <2> QED
      BY <1>1, <2>1 DEF OInv, Verdict, Job, Verdicts
  <1> QED
    BY <1>1, <1>2, ReadingStep

(* ... among them those of requests and of initialized, ...                *)
LEMMA RequestKept ==
  ASSUME IInv, OInv, NEW j \in running, UNCHANGED <<dispatchVars, editorVars>>,
         Initialized(j) \/ SetPositionEncoding(j) \/ Query(j) \/ Answer(j)
  PROVE  Kept'
  <1>1. /\ UNCHANGED <<docs, registered, state>>
        /\ j.pc \notin {"teardown", "change", "parse", "reparse", "index"}
        /\ j.verdict = "run" /\ Progress(j)
    BY OnlyJob DEF Initialized, SetPositionEncoding, Query, Answer, At, serverVars
  <1>2. \A u \in URIs : ~ Writes(j.msg, u)
    BY <1>1 DEF Initialized, SetPositionEncoding, Query, Answer, At, Writes, Progress,
                Queries, TreeQueries, SymbolQueries
  <1>3. Return(j) \/ GoTo(j, "read", <<>>)
    BY DEF Initialized, SetPositionEncoding, Query, Answer
  <1>4. "read" \in Pcs \ {"parse", "reparse", "index"}
    BY DEF Pcs
  <1> QED
    BY <1>1, <1>2, <1>3, <1>4, NothingLeft, ReadingStep

(* ... and the analysis of what has been stored.                           *)
LEMMA AnalysisKept ==
  ASSUME IInv, OInv, NEW j \in running, UNCHANGED <<dispatchVars, editorVars>>,
         DidChange(j) \/ Parse(j) \/ Reparse(j) \/ IndexAndFinish(j)
  PROVE  Kept'
  <1>1. /\ UNCHANGED <<docs, registered, state>>
        /\ j.pc # "teardown" /\ j.verdict = "run" /\ Progress(j) /\ j \in Job
        /\ j.msg.method \in {"textDocument/didOpen", "textDocument/didChange"}
    BY OnlyJob DEF DidChange, Parse, Reparse, IndexAndFinish, At, serverVars, Progress
  <1>2. /\ {"change", "index"} \subseteq Pcs /\ <<>> \in Seq(Texts) /\ j.left \in Seq(Texts)
        /\ j.id \in Nat
    BY <1>1 DEF Pcs, Job
  <1>3. CASE DidChange(j)
    <2>1. CASE docs[j.msg.uri] = None \/ j.msg.texts = <<>>
      <3>1. Return(j) /\ j.msg.method = "textDocument/didChange"
        BY <1>3, <2>1 DEF DidChange, At
      <3> QED
        BY <1>1, <2>1, <3>1, ReadingStep DEF Writes
    <2>2. CASE ~ (docs[j.msg.uri] = None \/ j.msg.texts = <<>>)
      <3>1. GoTo(j, "change", j.msg.texts)
        BY <1>3, <2>2 DEF DidChange
      <3>2. j.msg.texts \in Seq(Texts)
        BY <1>1, <1>3, MessageParts DEF Job, DidChange, At
      <3> QED
        BY <1>1, <1>2, <3>1, <3>2, ReadingStep
    <2> QED
      BY <2>1, <2>2
  <1>4. CASE Parse(j) \/ Reparse(j)
    <2>1. docs[j.msg.uri].version = j.id
      BY <1>4 DEF Parse, Reparse, At, OInv, Fresh
    <2>2. GoTo(j, "index", <<>>) \/ GoTo(j, "index", j.left)
      BY <1>4 DEF Parse, Reparse
    <2> QED
      BY <1>1, <1>2, <2>1, <2>2, ReadingStep
  <1>5. CASE IndexAndFinish(j)
    <2>1. docs[j.msg.uri].version = j.id /\ NextChange(j)
      BY <1>5 DEF IndexAndFinish, OInv, Fresh
    <2>2. CASE Return(j)
      BY <1>1, <1>2, <2>1, <2>2, ReadingStep DEF Writes
    <2>3. CASE ~ Return(j)
      <3>1. Len(j.left) > 1 /\ GoTo(j, "change", Tail(j.left))
        BY <1>2, <2>1, <2>3 DEF NextChange
      <3>2. Tail(j.left) \in Seq(Texts)
        BY <1>2, <3>1
      <3> QED
        BY <1>1, <1>2, <3>1, <3>2, ReadingStep
    <2> QED
      BY <2>2, <2>3
  <1> QED
    BY <1>3, <1>4, <1>5

(* The handler of a notification that writes its document in its own       *)
(* version, or forgets it.                                                 *)
LEMMA WritingStep ==
  ASSUME IInv, OInv, NEW j \in running, UNCHANGED <<dispatchVars, editorVars>>,
         UNCHANGED <<registered, state>>, j.verdict = "run", IsNotification(j.msg),
         j.pc # "teardown",
         \A v \in URIs : docs'[v] \in {None, docs[v]} \/ docs'[v].version = j.id,
         Writes(j.msg, j.msg.uri) => docs'[j.msg.uri].version = j.id,
         \/ Return(j)
         \/ \E pc \in Pcs, left \in Seq(Texts) :
               /\ GoTo(j, pc, left)
               /\ pc \in {"parse", "reparse", "index"} => docs'[j.msg.uri].version = j.id
  PROVE  Kept'
  <1>1. GoesOn(j) \/ Return(j)
    BY GoToGoesOn
  <1>2. Frozen'
    BY FrozenKept
  <1>3. running = {j} /\ j \in Job /\ j.id \in Nat /\ docs \in [URIs -> Document \cup {None}]
    BY OnlyJob DEF Job, IInv, TypeOK, ServerTypeOK
  <1>4. ~ TearingDown
    BY <1>3 DEF TearingDown
  <1>6. \A k \in running' : k.pc \in {"parse", "reparse", "index"} =>
           docs'[k.msg.uri].version = k.id
    <2>1. CASE Return(j)
      BY <1>3, <2>1 DEF Return
    <2>2. ASSUME NEW pc \in Pcs, NEW left \in Seq(Texts), GoTo(j, pc, left),
                 pc \in {"parse", "reparse", "index"} => docs'[j.msg.uri].version = j.id,
                 NEW k \in running', k.pc \in {"parse", "reparse", "index"}
          PROVE  docs'[k.msg.uri].version = k.id
      <3>1. k = [j EXCEPT !.pc = pc, !.left = left]
        BY <1>3, <2>2 DEF GoTo
      <3>2. k.pc = pc /\ k.msg = j.msg /\ k.id = j.id
        BY <1>3, <3>1 DEF Job
      <3> QED
        BY <2>2, <3>2
    <2> QED
      BY <2>1, <2>2
  <1>7. ASSUME NEW u \in URIs, Writes(j.msg, u)
        PROVE  docs'[u] = None \/ j.id <= docs'[u].version
    <2>1. u = j.msg.uri
      BY <1>7 DEF Writes
    <2> QED
      BY <1>3, <1>7, <2>1
  <1>8. Effect(j)
    BY <1>4, <1>6, <1>7 DEF Effect, Dead
  <1> QED
    BY <1>1, <1>2, <1>8, HandlerKept DEF Kept

(* What a handler stores is its own message, the latest of its document.   *)
LEMMA StoreKept ==
  ASSUME IInv, OInv, NEW j \in running, UNCHANGED <<dispatchVars, editorVars>>,
         DidOpen(j) \/ ApplyChange(j) \/ DidClose(j)
  PROVE  Kept'
  <1> DEFINE u == j.msg.uri
  <1>1. /\ UNCHANGED <<registered, state>> /\ j.verdict = "run" /\ IsNotification(j.msg)
        /\ j.pc # "teardown" /\ j \in Job /\ Progress(j) /\ u \in URIs
        /\ j.left \in Seq(Texts) /\ docs \in [URIs -> Document \cup {None}]
    BY OnlyJob, MessageParts
    DEF DidOpen, ApplyChange, DidClose, At, IsNotification, Notifications, Job,
        IInv, TypeOK, ServerTypeOK
  <1>2. CASE DidOpen(j)
    <2>1. /\ docs'[u].version = j.id
          /\ \A v \in URIs : docs'[v] = docs[v] \/ docs'[v].version = j.id
      BY <1>1, <1>2 DEF DidOpen
    <2>2. GoTo(j, "parse", <<>>) \/ Return(j)
      BY <1>2 DEF DidOpen
    <2>3. "parse" \in Pcs
      BY DEF Pcs
    <2>4. \/ Return(j)
          \/ \E pc \in Pcs, left \in Seq(Texts) :
                /\ GoTo(j, pc, left)
                /\ pc \in {"parse", "reparse", "index"} => docs'[u].version = j.id
      BY <2>1, <2>2, <2>3, NothingLeft
    <2> QED
      BY <1>1, <2>1, <2>4, WritingStep
  <1>3. CASE ApplyChange(j)
    <2>1. docs[u] \in Document
      BY <1>1, <1>3 DEF ApplyChange, At, Progress
    <2>2. /\ docs'[u].version = j.id
          /\ \A v \in URIs : docs'[v] = docs[v] \/ docs'[v].version = j.id
      BY <1>1, <1>3, <2>1 DEF ApplyChange, Document
    <2>3. \/ GoTo(j, "reparse", j.left)
          \/ Return(j)
          \/ Len(j.left) > 1 /\ GoTo(j, "change", Tail(j.left))
      BY <1>1, <1>3 DEF ApplyChange, NextChange
    <2>4. {"reparse", "change"} \subseteq Pcs
      BY DEF Pcs
    <2>5. Len(j.left) > 1 => Tail(j.left) \in Seq(Texts)
      BY <1>1
    <2>6. \/ Return(j)
          \/ \E pc \in Pcs, left \in Seq(Texts) :
                /\ GoTo(j, pc, left)
                /\ pc \in {"parse", "reparse", "index"} => docs'[u].version = j.id
      BY <1>1, <2>2, <2>3, <2>4, <2>5
    <2> QED
      BY <1>1, <2>2, <2>6, WritingStep
  <1>4. CASE DidClose(j)
    <2>1. \A v \in URIs : docs'[v] \in {None, docs[v]}
      BY <1>1, <1>4 DEF DidClose
    <2>2. Return(j) /\ ~ Writes(j.msg, u)
      BY <1>4 DEF DidClose, At, Writes
    <2> QED
      BY <1>1, <2>1, <2>2, WritingStep
  <1> QED
    BY <1>2, <1>3, <1>4

(* An awaited initialize finds no shutdown done.                           *)
LEMMA InitializeKept ==
  ASSUME IInv, OInv, NEW j \in running, Initialize(j), UNCHANGED <<dispatchVars, editorVars>>
  PROVE  Kept'
  <1>1. /\ UNCHANGED <<docs, registered>> /\ state' = "Initialized"
        /\ GoTo(j, "negotiate", <<>>) /\ j.pc = "start" /\ running = {j} /\ j \in Job
    BY OnlyJob DEF Initialize, At
  <1>2. Frozen'
    BY <1>1 DEF Frozen
  <1>3. GoesOn(j) /\ running' = {[j EXCEPT !.pc = "negotiate", !.left = <<>>]}
    BY <1>1, GoToGoesOn, NothingLeft DEF Pcs
  <1>4. \A k \in running' : k.pc = "negotiate"
    BY <1>1, <1>3 DEF Job
  <1>5. Effect(j)
    BY <1>1, <1>3, <1>4, GoesOnRuns DEF Effect, Dead, TearingDown
  <1> QED
    BY <1>2, <1>3, <1>5, HandlerKept DEF Kept

(* The awaited shutdown is the youngest message and the only request, so   *)
(* nothing else is in flight when its handler runs.                        *)
LEMMA ShutdownAlone ==
  ASSUME IInv, OInv, NEW j \in running, j.msg.method = "shutdown", ~pipelined
  PROVE  Assigned = {j}
  <1> USE DEF IInv, OInv
  <1>1. running = {j} /\ j \in InProgress /\ j \in Assigned /\ j \in InFlight
    BY OnlyJob DEF Assigned, InFlight, InProgress
  <1>2. ~ IsNotification(j.msg)
    BY DEF IsNotification, Notifications
  <1>3. j.id = nsent
    BY <1>1, <1>2 DEF Awaiting
  <1>4. j.id \in Nat /\ nsent \in Nat
    BY <1>1, FlightType DEF TypeOK, Job
  <1>5. slot = None
    <2> SUFFICES ASSUME slot # None PROVE FALSE
      OBVIOUS
    <2>1. j.id < slot.id /\ slot.id \in 1..nsent
      BY <1>1 DEF InOrder, Numbered, InFlight, Assigned
    <2> QED
      BY <1>3, <1>4, <2>1
  <1>6. ASSUME NEW m \in InProgress PROVE m = j
    <2>1. m \in InFlight /\ m.id \in 1..nsent /\ m.id \in Nat
      BY <1>6, FlightType DEF InFlight, Assigned, Numbered
    <2>2. CASE IsNotification(m.msg)
      <3>1. j.id <= m.id
        BY <1>1, <1>6, <2>2 DEF InOrder
      <3>2. m.id = j.id
        BY <1>3, <1>4, <2>1, <3>1
      <3> QED
        BY <1>1, <1>6, <3>2 DEF OnePlace
    <2>3. CASE ~ IsNotification(m.msg)
      <3>1. m.id = nsent
        BY <2>1, <2>3 DEF Awaiting
      <3> QED
        BY <1>1, <1>3, <1>6, <3>1 DEF OnePlace
    <2> QED
      BY <2>2, <2>3
  <1> QED
    BY <1>1, <1>5, <1>6 DEF Assigned

(* An awaited shutdown has nothing behind it.                              *)
LEMMA ShutdownKept ==
  ASSUME IInv, OInv, NEW j \in running, Shutdown(j), UNCHANGED <<dispatchVars, editorVars>>
  PROVE  Kept'
  <1>1. /\ UNCHANGED <<docs, registered>> /\ j.msg.method = "shutdown"
        /\ j.verdict = "run" /\ j.pc = "start" /\ running = {j} /\ j \in Job
    BY OnlyJob DEF Shutdown, At
  <1>2. CASE state # "Initialized"
    <2>1. Return(j) /\ UNCHANGED state
      BY <1>2 DEF Shutdown
    <2> QED
      BY <1>1, <2>1, ReadingStep DEF Writes
  <1>3. CASE state = "Initialized"
    <2>1. GoTo(j, "teardown", <<>>) /\ state' = "ShutDown"
      BY <1>3 DEF Shutdown
    <2>2. GoesOn(j) /\ running' = {[j EXCEPT !.pc = "teardown", !.left = <<>>]}
      BY <2>1, GoToGoesOn, NothingLeft DEF Pcs
    <2>3. \A k \in running' : k.pc = "teardown"
      BY <1>1, <2>2 DEF Job
    <2>4. Effect(j)
      BY <1>1, <2>2, <2>3, GoesOnRuns DEF Effect, Dead, TearingDown
    <2>5. Frozen'
      <3> SUFFICES ASSUME ~pipelined
                   PROVE  \A m \in Assigned' : m.verdict = "run" => m.pc = "teardown"
        BY DEF Frozen, editorVars
      <3>1. Assigned = {j}
        BY <1>1, ShutdownAlone
      <3>2. Assigned' \subseteq running'
        <4>1. slot' = None \/ slot' = j
          BY <3>1 DEF Assigned, dispatchVars
        <4>2. issued' \subseteq {j} /\ j \notin issued
          BY <1>1, <3>1 DEF Assigned, InProgress, dispatchVars, OInv, OnePlace
        <4>3. slot # j
          <5> SUFFICES ASSUME slot = j PROVE FALSE
            OBVIOUS
          <5>1. j.id < j.id
            BY <1>1, SessionAssumption DEF OInv, InOrder, InProgress
          <5> QED
            BY <1>1, <5>1 DEF Job
        <4> QED
          BY <4>1, <4>2, <4>3 DEF Assigned, InProgress, dispatchVars
      <3> QED
        BY <2>3, <3>2
    <2> QED
      BY <2>2, <2>4, <2>5, HandlerKept DEF Kept
  <1> QED
    BY <1>2, <1>3

(* Closing the features changes neither state nor store.                   *)
LEMMA CloseFeaturesKept ==
  ASSUME IInv, OInv, NEW j \in running, CloseFeatures(j), UNCHANGED <<dispatchVars, editorVars>>
  PROVE  Kept'
  <1>1. /\ UNCHANGED <<docs, state>> /\ registered' = {} /\ j.msg.method = "shutdown"
        /\ Return(j) /\ running = {j}
    BY OnlyJob DEF CloseFeatures, At
  <1>2. running' = {}
    BY <1>1 DEF Return
  <1>3. Effect(j)
    BY <1>1, <1>2 DEF Effect, Dead
  <1>4. Frozen'
    BY <1>1, FrozenKept
  <1> QED
    BY <1>1, <1>3, <1>4, HandlerKept DEF Kept
-----------------------------------------------------------------------------
(* Whatever its handler does, a job goes on or returns.                    *)
LEMMA HandlerGoesOn ==
  ASSUME IInv, NEW j \in running,
         \/ Reject(j) \/ Initialize(j) \/ SetPositionEncoding(j)
         \/ Initialized(j) \/ Shutdown(j) \/ CloseFeatures(j)
         \/ DidOpen(j) \/ Parse(j) \/ DidChange(j) \/ ApplyChange(j)
         \/ Reparse(j) \/ IndexAndFinish(j) \/ DidClose(j)
         \/ Query(j) \/ Answer(j)
  PROVE  GoesOn(j) \/ Return(j)
  <1>1. \/ Return(j)
        \/ \E pc \in {"negotiate", "teardown", "parse", "reparse", "index", "change", "read"} :
             \/ GoTo(j, pc, <<>>) \/ GoTo(j, pc, j.left)
             \/ Len(j.left) > 1 /\ GoTo(j, pc, Tail(j.left))
             \/ j.msg.method = "textDocument/didChange" /\ GoTo(j, pc, j.msg.texts)
    <2>1. j.left \in Seq(Texts)
      BY OnlyJob DEF Job
    <2>2. NextChange(j) => Return(j) \/ (Len(j.left) > 1 /\ GoTo(j, "change", Tail(j.left)))
      BY <2>1 DEF NextChange
    <2> QED
      BY <2>2
      DEF Reject, Initialize, SetPositionEncoding, Initialized, Shutdown, CloseFeatures,
          DidOpen, Parse, DidChange, ApplyChange, Reparse, IndexAndFinish, DidClose, Query,
          Answer, At
  <1>2. GoesOn(j) \/ Return(j)
    <2>1. /\ j.left \in Seq(Texts)
          /\ Len(j.left) > 1 => Tail(j.left) \in Seq(Texts)
          /\ j.msg.method = "textDocument/didChange" => j.msg.texts \in Seq(Texts)
      <3>1. j.left \in Seq(Texts) /\ j.msg \in Message
        BY OnlyJob DEF Job
      <3> QED
        BY <3>1, MessageParts
    <2>2. {"negotiate", "teardown", "parse", "reparse", "index", "change", "read"} \subseteq Pcs
      BY DEF Pcs
    <2> QED
      BY <1>1, <2>1, <2>2, NothingLeft, GoToGoesOn
  <1> QED
    BY <1>2

(* Every step of a handler.                                                *)
LEMMA HandleOInv ==
  ASSUME IInv, OInv, Handle
  PROVE  OInv'
  <1>1. UNCHANGED <<dispatchVars, editorVars>>
    BY DEF Handle
  <1>2. PICK j \in running :
          \/ Reject(j) \/ Initialize(j) \/ SetPositionEncoding(j)
          \/ Initialized(j) \/ Shutdown(j) \/ CloseFeatures(j)
          \/ DidOpen(j) \/ Parse(j) \/ DidChange(j) \/ ApplyChange(j)
          \/ Reparse(j) \/ IndexAndFinish(j) \/ DidClose(j)
          \/ Query(j) \/ Answer(j)
    BY DEF Handle, HandlerStep
  <1>3. Kept'
    <2>1. CASE Reject(j)
      BY <1>1, <2>1, RejectKept
    <2>2. CASE Initialized(j) \/ SetPositionEncoding(j) \/ Query(j) \/ Answer(j)
      BY <1>1, <2>2, RequestKept
    <2>3. CASE DidChange(j) \/ Parse(j) \/ Reparse(j) \/ IndexAndFinish(j)
      BY <1>1, <2>3, AnalysisKept
    <2>4. CASE DidOpen(j) \/ ApplyChange(j) \/ DidClose(j)
      BY <1>1, <2>4, StoreKept
    <2>5. CASE Initialize(j)
      BY <1>1, <2>5, InitializeKept
    <2>6. CASE Shutdown(j)
      BY <1>1, <2>6, ShutdownKept
    <2>7. CASE CloseFeatures(j)
      BY <1>1, <2>7, CloseFeaturesKept
    <2> QED
      BY <1>2, <2>1, <2>2, <2>3, <2>4, <2>5, <2>6, <2>7
  <1>4. GoesOn(j) \/ Return(j)
    BY <1>2, HandlerGoesOn
  <1>6. Queued'
    BY <1>1, <1>4, GoesOnQueued, ReturnQueued
  <1> QED
    BY <1>3, <1>6 DEF OInv, Queued, Kept

(* A stuttering step.                                                      *)
LEMMA StutterOInv ==
  ASSUME OInv, UNCHANGED vars
  PROVE  OInv'
  BY DEF vars, serverVars, jobVars, dispatchVars, editorVars, OInv, Numbered, OnePlace,
         InOrder, Awaiting, Verdict, Frozen, Fresh, Reaches, Dead, TearingDown, InFlight,
         Assigned, InProgress

(* Every step of a session preserves the order of its messages.            *)
LEMMA NextOInv == IInv /\ OInv /\ [Next]_vars => OInv'
  <1> SUFFICES ASSUME IInv, OInv, [Next]_vars PROVE OInv'
    OBVIOUS
  <1> USE DEF OInv, Queued, Kept
  <1>1. ASSUME NEW msg \in Message, Send(msg) PROVE OInv'
    BY <1>1, SendQueued, SendKept
  <1>2. CASE Disconnect
    BY <1>2, DisconnectQueued, DisconnectKept
  <1>3. CASE Assign
    BY <1>3, AssignQueued, AssignKept
  <1>4. CASE Issue
    BY <1>4, IssueQueued, IssueKept
  <1>5. ASSUME NEW j \in issued, Acquire(j) PROVE OInv'
    BY <1>5, AcquireQueued, AcquireKept
  <1>6. ASSUME NEW j \in issued, Abandon(j) PROVE OInv'
    BY <1>6, AbandonQueued, AbandonKept
  <1>7. CASE Handle
    BY <1>7, HandleOInv
  <1>8. ASSUME NEW j \in finished, Deliver(j) PROVE OInv'
    BY <1>8, DeliverQueued, DeliverKept
  <1>9. CASE Exited \/ UNCHANGED vars
    BY <1>9, StutterOInv DEF Exited
  <1> QED
    BY <1>1, <1>2, <1>3, <1>4, <1>5, <1>6, <1>7, <1>8, <1>9 DEF Next, ServerStep

(* The messages of a session are numbered, taken and handled in order.     *)
THEOREM Ordered == Spec => [](IInv /\ OInv)
  <1>1. Init => IInv /\ OInv
    BY InitIInv, InitOInv
  <1>2. IInv /\ OInv /\ [Next]_vars => IInv' /\ OInv'
    BY NextIInv, NextOInv
  <1> QED
    BY <1>1, <1>2, PTL DEF Spec

(* A query is answered from the version of the document its sender knew,   *)
(* or from a later one: the notifications sent before it are handled       *)
(* before it, and versions follow their order.                             *)
THEOREM NotBehind == Spec => []NeverBehind
  <1>1. ASSUME IInv, OInv PROVE NeverBehind
    <2> SUFFICES ASSUME NEW j \in running, j.pc = "read"
                 PROVE  docs[j.msg.uri].version >= j.seen
      BY DEF NeverBehind
    <2> DEFINE u == j.msg.uri
    <2>1. running = {j} /\ j \in Job /\ Progress(j)
      BY <1>1, OnlyJob
    <2>2. j.msg.method \in Queries /\ Served(u) /\ u \in URIs
      BY <2>1, MessageParts DEF Progress, Job
    <2>3. docs[u] \in Document /\ docs[u].version \in Nat /\ j.seen \in Nat
      BY <1>1, <2>1, <2>2 DEF IInv, TypeOK, ServerTypeOK, Served, Document, Job
    <2>4. CASE j.seen = 0
      BY <2>3, <2>4
    <2>5. CASE j.seen # 0
      <3>1. j \in InProgress /\ j \in InFlight
        BY DEF InFlight, Assigned, InProgress
      <3>2. Reaches(u, j.seen)
        BY <1>1, <2>2, <2>5, <3>1 DEF OInv, Fresh
      <3>3. ~ Dead
        BY <2>1, <2>2 DEF Dead, TearingDown, Served, HasFeature
      <3>4. ASSUME NEW m \in InFlight, m.id = j.seen, Writes(m.msg, u) PROVE FALSE
        <4>1. m.id < j.id /\ m.id \in Nat /\ j.id \in Nat
          BY <1>1, <3>1, <3>4, FlightType DEF OInv, Numbered, IInv
        <4>2. CASE m \in InProgress
          BY <1>1, <3>1, <3>4, <4>1, <4>2
          DEF OInv, InOrder, Writes, IsNotification, Notifications
        <4>3. CASE m \in inbox \cup ({slot} \ {None})
          <5>1. j.id < m.id
            BY <1>1, <3>1, <4>3 DEF OInv, InOrder
          <5> QED
            BY <4>1, <5>1
        <4> QED
          BY <4>2, <4>3 DEF InFlight, Assigned
      <3> QED
        BY <2>2, <2>3, <3>2, <3>3, <3>4 DEF Reaches, Served
    <2> QED
      BY <2>4, <2>5
  <1> QED
    BY <1>1, Ordered, PTL

(* For a client that awaits each reply a shutdown ends the session: what   *)
(* it sends afterwards changes neither the state nor the documents.        *)
LEMMA ShutdownStays ==
  ASSUME IInv, OInv, [Next]_vars, state = "ShutDown", ~pipelined
  PROVE  UNCHANGED <<state, docs>>
  <1>1. ASSUME Handle PROVE UNCHANGED <<state, docs>>
    <2>1. PICK j \in running :
            \/ Reject(j) \/ Initialize(j) \/ SetPositionEncoding(j)
            \/ Initialized(j) \/ Shutdown(j) \/ CloseFeatures(j)
            \/ DidOpen(j) \/ Parse(j) \/ DidChange(j) \/ ApplyChange(j)
            \/ Reparse(j) \/ IndexAndFinish(j) \/ DidClose(j)
            \/ Query(j) \/ Answer(j)
      BY <1>1 DEF Handle, HandlerStep
    <2>2. Reject(j) \/ CloseFeatures(j)
      <3>1. j.verdict = "run" => j.pc = "teardown"
        BY FrozenJob
      <3> QED
        BY <2>1, <3>1
        DEF At, Initialize, SetPositionEncoding, Initialized, Shutdown, DidOpen, Parse,
            DidChange, ApplyChange, Reparse, IndexAndFinish, DidClose, Query, Answer
    <2> QED
      BY <2>2 DEF Reject, CloseFeatures, serverVars
  <1>2. ASSUME ~ Handle PROVE UNCHANGED <<state, docs>>
    BY <1>2
    DEF Next, ServerStep, Send, Disconnect, Assign, Issue, Acquire, Abandon, Deliver,
        Exited, vars, serverVars
  <1> QED
    BY <1>1, <1>2

(* AwaitedShutdown: for a client that never sent anything while it awaited *)
(* a reply, no handler changes state or store once the server is shut      *)
(* down.                                                                   *)
THEOREM AwaitedIsFinal == Spec => AwaitedShutdown
  <1>1. IInv /\ OInv /\ [Next]_vars =>
          [state = "ShutDown" /\ ~pipelined => UNCHANGED <<state, docs>>]_vars
    BY ShutdownStays
  <1> QED
    BY <1>1, Ordered, PTL DEF Spec, AwaitedShutdown
-----------------------------------------------------------------------------
(* A client that keeps to the lifecycle: until initialize is answered      *)
(* nothing else is in flight, until it sends shutdown the server is        *)
(* initialized, and shutdown is the last it sends.                         *)
Courtesy ==
    /\ \A j \in Assigned : j.verdict = "run"
    /\ phase = "fresh" => InFlight = {} /\ finished = {} /\ state = "Created"
    /\ phase = "greeting" =>
         /\ state # "ShutDown"
         /\ \A m \in InFlight : m.msg.method = "initialize"
         /\ \A j \in running : j.pc # "start" => state = "Initialized"
         /\ finished # {} => state = "Initialized"
    /\ phase = "session" =>
         /\ state = "Initialized"
         /\ \A m \in InFlight : m.msg.method # "shutdown"
    /\ phase = "leaving" =>
         /\ state = "Initialized" \/ inbox = {}
         /\ \A m \in InFlight : m.msg.method = "shutdown" => m.id = nsent

(* A conforming client sends what its phase allows.                        *)
LEMMA SendCourtesy ==
  ASSUME IInv, OInv, Courtesy, Discipline = "conforming", NEW msg \in Message, Send(msg)
  PROVE  Courtesy'
  <1> DEFINE e == [id |-> nsent + 1, msg |-> msg, seen |-> SeenBy(msg)]
  <1>1. /\ Polite(msg) /\ inbox' = inbox \cup {e} /\ phase' = PhaseAfter(msg)
        /\ nsent' = nsent + 1
        /\ UNCHANGED <<slot, issued, running, finished, state>>
    BY DEF Send, jobVars, serverVars
  <1>2. InFlight' = InFlight \cup {e} /\ Assigned' = Assigned
    BY <1>1 DEF InFlight, Assigned, InProgress
  <1>3. e.msg = msg /\ e.id = nsent'
    BY <1>1
  <1> HIDE DEF e
  <1>4. CASE msg.method = "initialize"
    <2>1. phase = "fresh" /\ phase' = "greeting"
      BY <1>1, <1>4 DEF Polite, PhaseAfter
    <2>2. running = {}
      BY <2>1 DEF Courtesy, InFlight, Assigned, InProgress
    <2> QED
      BY <1>1, <1>2, <1>3, <1>4, <2>1, <2>2 DEF Courtesy
  <1>5. CASE msg.method # "initialize"
    <2>1. phase = "session" /\ phase' = IF msg.method = "shutdown" THEN "leaving" ELSE phase
      BY <1>1, <1>5 DEF Polite, PhaseAfter
    <2> QED
      BY <1>1, <1>2, <1>3, <1>5, <2>1 DEF Courtesy
  <1> QED
    BY <1>4, <1>5

(* Taken in order, a message finds the server in the state it was sent for.*)
LEMMA AssignCourtesy ==
  ASSUME IInv, OInv, Courtesy, Assign
  PROVE  Courtesy'
  <1>1. PICK e \in inbox :
          /\ inbox' = inbox \ {e}
          /\ slot' = [id |-> e.id, msg |-> e.msg, seen |-> e.seen,
                      verdict |-> Gate(e.msg.method), pc |-> "start", left |-> <<>>]
    BY DEF Assign
  <1>2. slot = None /\ UNCHANGED <<issued, running, finished, state, phase, nsent>>
    BY DEF Assign, jobVars, serverVars, editorVars
  <1>3. e \in InFlight
    BY DEF InFlight
  <1>4. Gate(e.msg.method) = "run"
    BY <1>3 DEF Courtesy, Gate, IInv, TypeOK, ServerTypeOK, Phases
  <1>5. /\ Assigned' \subseteq Assigned \cup {slot'}
        /\ \A m \in InFlight' : \E n \in InFlight : n.id = m.id /\ n.msg = m.msg
    <2>1. slot'.id = e.id /\ slot'.msg = e.msg
      BY <1>1
    <2>2. InFlight' \subseteq InFlight \cup {slot'}
      BY <1>1, <1>2 DEF InFlight, Assigned, InProgress
    <2> QED
      BY <1>2, <1>3, <2>1, <2>2 DEF Assigned, InProgress
  <1>6. slot'.verdict = "run"
    BY <1>1, <1>4
  <1>7. phase # "fresh"
    BY <1>3 DEF Courtesy
  <1> QED
    BY <1>1, <1>2, <1>5, <1>6, <1>7 DEF Courtesy

(* The steps of the dispatcher and the transport that only move jobs.      *)
LEMMA MoveCourtesy ==
  ASSUME IInv, Courtesy, Disconnect \/ Issue \/ \E j \in issued : Acquire(j) \/ Abandon(j)
  PROVE  Courtesy'
  <1>1. /\ UNCHANGED <<finished, state, phase, nsent>> /\ inbox' \subseteq inbox
        /\ \A k \in running' : k \in running \/ k.pc = "start"
    BY DEF Disconnect, Issue, Acquire, Abandon, jobVars, serverVars, editorVars, IInv,
           FreshJobs, Unstarted
  <1>2. InFlight' \subseteq InFlight /\ Assigned' \subseteq Assigned
    BY DEF Disconnect, Issue, Acquire, Abandon, jobVars, InFlight, Assigned, InProgress
  <1> QED
    BY <1>1, <1>2 DEF Courtesy

(* The reply to initialize opens the session.                              *)
LEMMA DeliverCourtesy ==
  ASSUME Courtesy, NEW j \in finished, Deliver(j)
  PROVE  Courtesy'
  <1>1. /\ UNCHANGED <<inbox, slot, issued, running, state, nsent>>
        /\ finished' = finished \ {j}
        /\ phase' = phase \/ (phase = "greeting" /\ phase' = "session")
    BY DEF Deliver, serverVars, dispatchVars
  <1>2. InFlight' = InFlight /\ Assigned' = Assigned
    BY <1>1 DEF InFlight, Assigned, InProgress
  <1> QED
    BY <1>1, <1>2 DEF Courtesy

(* The state moves forth with initialize and to its end with shutdown,     *)
(* which is the last message.                                              *)
LEMMA HandleCourtesy ==
  ASSUME IInv, OInv, Courtesy, Handle
  PROVE  Courtesy'
  <1>1. PICK j \in running :
          \/ Reject(j) \/ Initialize(j) \/ SetPositionEncoding(j)
          \/ Initialized(j) \/ Shutdown(j) \/ CloseFeatures(j)
          \/ DidOpen(j) \/ Parse(j) \/ DidChange(j) \/ ApplyChange(j)
          \/ Reparse(j) \/ IndexAndFinish(j) \/ DidClose(j)
          \/ Query(j) \/ Answer(j)
    BY DEF Handle, HandlerStep
  <1>2. /\ UNCHANGED <<inbox, slot, issued, phase, nsent>>
        /\ running = {j} /\ j \in Job /\ Progress(j)
        /\ j \in Assigned /\ j \in InFlight
    BY OnlyJob DEF Handle, dispatchVars, editorVars, InFlight, Assigned, InProgress
  <1>3. ~ Reject(j)
    BY <1>2 DEF Courtesy, Reject
  <1>4. GoesOn(j) \/ Return(j)
    BY <1>1, HandlerGoesOn
  <1>5. /\ \A k \in Assigned' : \E m \in Assigned : m.verdict = k.verdict
        /\ \A k \in InFlight' : \E m \in InFlight : m.id = k.id /\ m.msg = k.msg
    <2>1. \A k \in running' : k.verdict = j.verdict /\ k.id = j.id /\ k.msg = j.msg
      BY <1>2, <1>4 DEF GoesOn, Return
    <2> QED
      BY <1>2, <2>1 DEF InFlight, Assigned, InProgress
  <1>6. CASE Initialize(j)
    <2>1. state' = "Initialized"
      BY <1>6 DEF Initialize
    <2> QED
      BY <1>2, <1>5, <2>1 DEF Courtesy
  <1>7. CASE Shutdown(j)
    <2>1. j.msg.method = "shutdown" /\ state' \in {state, "ShutDown"}
      BY <1>7 DEF Shutdown, At
    <2>2. phase = "leaving" /\ j.id = nsent
      BY <1>2, <2>1 DEF Courtesy, IInv, TypeOK, Phases
    <2>3. inbox = {}
      <3> SUFFICES ASSUME NEW e \in inbox PROVE FALSE
        OBVIOUS
      <3>1. j.id < e.id /\ e.id \in 1..nsent
        BY <1>2 DEF OInv, InOrder, Numbered, InFlight, InProgress
      <3> QED
        BY <1>2, <2>2, <3>1 DEF Job
    <2> QED
      BY <1>2, <1>5, <2>2, <2>3 DEF Courtesy
  <1>8. CASE SetPositionEncoding(j)
    <2>1. j.pc = "negotiate" /\ UNCHANGED state /\ running' = {}
      BY <1>8, OnlyJob DEF SetPositionEncoding, At
    <2> QED
      BY <1>2, <1>5, <2>1 DEF Courtesy
  <1>9. CASE ~ (Initialize(j) \/ Shutdown(j) \/ SetPositionEncoding(j))
    <2>1. UNCHANGED state
      BY <1>1, <1>9 DEF Reject, Initialized, CloseFeatures, DidOpen, Parse, DidChange,
         ApplyChange, Reparse, IndexAndFinish, DidClose, Query, Answer, serverVars
    <2>2. j.msg.method # "initialize"
      BY <1>1, <1>2, <1>3, <1>9 DEF Initialized, CloseFeatures, DidOpen, Parse, DidChange,
         ApplyChange, Reparse, IndexAndFinish, DidClose, Query, Answer, At, Progress,
         Queries, TreeQueries, SymbolQueries
    <2>3. phase \notin {"fresh", "greeting"}
      BY <1>2, <2>2 DEF Courtesy
    <2> QED
      BY <1>2, <1>5, <2>1, <2>3 DEF Courtesy
  <1> QED
    BY <1>6, <1>7, <1>8, <1>9

(* Every step of a conforming session.                                     *)
LEMMA NextCourtesy ==
  ASSUME IInv, OInv, Courtesy, Discipline = "conforming", [Next]_vars
  PROVE  Courtesy'
  <1>1. ASSUME NEW msg \in Message, Send(msg) PROVE Courtesy'
    BY <1>1, SendCourtesy
  <1>2. CASE Assign
    BY <1>2, AssignCourtesy
  <1>3. CASE Disconnect \/ Issue \/ \E j \in issued : Acquire(j) \/ Abandon(j)
    BY <1>3, MoveCourtesy
  <1>4. CASE Handle
    BY <1>4, HandleCourtesy
  <1>5. ASSUME NEW j \in finished, Deliver(j) PROVE Courtesy'
    BY <1>5, DeliverCourtesy
  <1>6. CASE Exited \/ UNCHANGED vars
    BY <1>6 DEF Exited, vars, jobVars, dispatchVars, editorVars, serverVars, Courtesy,
       InFlight, Assigned, InProgress
  <1> QED
    BY <1>1, <1>2, <1>3, <1>4, <1>5, <1>6 DEF Next, ServerStep

(* A client that keeps to the lifecycle is never refused.                  *)
THEOREM Unrefused == Discipline = "conforming" => (Spec => []NeverRefused)
  <1> SUFFICES ASSUME Discipline = "conforming" PROVE Spec => []NeverRefused
    OBVIOUS
  <1>1. Init => Courtesy
    BY DEF Init, ServerInit, Courtesy, InFlight, Assigned, InProgress
  <1>2. IInv /\ OInv /\ Courtesy /\ [Next]_vars => Courtesy'
    BY NextCourtesy
  <1>3. Courtesy => NeverRefused
    BY DEF Courtesy, NeverRefused, Assigned
  <1> QED
    BY <1>1, <1>2, <1>3, Ordered, PTL DEF Spec

-----------------------------------------------------------------------------
(* What a session is to its client.                                        *)

(* cmd/serve.go registers the one feature.                                 *)
OneFeature == registered \subseteq {Cisco}

RInv == IInv /\ OInv /\ OneFeature

(* Nothing is registered after the start.                                  *)
LEMMA NextOneFeature == OneFeature /\ [Next]_vars => OneFeature'
  <1> SUFFICES ASSUME OneFeature, [Next]_vars PROVE OneFeature'
    OBVIOUS
  <1>1. registered' \in {registered, {}}
    BY DEF Next, ServerStep, Send, Disconnect, Assign, Issue, Acquire, Abandon, Deliver,
           Exited, vars, serverVars, Handle, HandlerStep, Reject, Initialize,
           SetPositionEncoding, Initialized, Shutdown, CloseFeatures, DidOpen, Parse,
           DidChange, ApplyChange, Reparse, IndexAndFinish, DidClose, Query, Answer
  <1> QED
    BY <1>1 DEF OneFeature

(* RInv holds throughout a session.                                        *)
THEOREM Always == Spec => []RInv
  <1>1. Init => OneFeature
    BY DEF Init, ServerInit, OneFeature
  <1> QED
    BY <1>1, Ordered, NextOneFeature, PTL DEF Spec, RInv

-----------------------------------------------------------------------------
(* The initial states are those of the service.                            *)
LEMMA InitImplements == Init => Service!Init
  <1> SUFFICES ASSUME Init PROVE Service!Init
    OBVIOUS
  <1> USE DEF Init, ServerInit
  <1>1. Serving = TRUE
    BY DEF Serving, HasFeature, TearingDown
  <1>2. Stored = [u \in URIs |-> None]
    BY DEF Stored
  <1>3. Shown = [u \in URIs |-> None]
    BY DEF Shown, BeingAnalysed
  <1>4. Asked = {}
    BY DEF Asked, Reading
  <1> QED
    BY <1>1, <1>2, <1>3, <1>4 DEF Service!Init

(* A step the service does not see: the documents are the same, the same   *)
(* ones are being analysed, and nobody is shown anything else.             *)
LEMMA Unseen ==
  ASSUME UNCHANGED <<state, docs, registered, connected>>,
         TearingDown' <=> TearingDown,
         \A u \in URIs : BeingAnalysed(u)' <=> BeingAnalysed(u),
         \A u \in URIs : view'[u] = view[u] \/ BeingAnalysed(u),
         Asked' = Asked
  PROVE  UNCHANGED Service!vars
  <1>1. UNCHANGED Serving
    BY DEF Serving, HasFeature
  <1>2. UNCHANGED Stored
    BY DEF Stored
  <1>3. UNCHANGED Shown
    BY DEF Shown
  <1> QED
    BY <1>1, <1>2, <1>3 DEF Service!vars

(* Messages sent, taken, issued and started, replies delivered.            *)
LEMMA QueueImplements ==
  ASSUME RInv,
         \/ \E msg \in Message : Send(msg)
         \/ Assign \/ Issue
         \/ \E j \in issued : Acquire(j) \/ Abandon(j)
         \/ \E j \in finished : Deliver(j)
         \/ UNCHANGED vars
  PROVE  UNCHANGED Service!vars
  <1>1. UNCHANGED <<state, docs, registered, connected, view, trees, symbols>>
    BY DEF Send, Assign, Issue, Acquire, Abandon, Deliver, vars, serverVars, featureVars,
           clientSide
  <1>2. \A k \in running' : k \in running \/ k.pc = "start"
    BY DEF Send, Assign, Issue, Acquire, Abandon, Deliver, vars, jobVars, RInv, IInv,
           FreshJobs, Unstarted
  <1>3. running \subseteq running'
    BY DEF Send, Assign, Issue, Acquire, Abandon, Deliver, vars, jobVars
  <1>4. TearingDown' <=> TearingDown
    BY <1>2, <1>3 DEF TearingDown
  <1>5. \A u \in URIs : BeingAnalysed(u)' <=> BeingAnalysed(u)
    BY <1>2, <1>3 DEF BeingAnalysed
  <1>6. Asked' = Asked
    <2>1. Reading' = Reading
      BY <1>2, <1>3 DEF Reading
    <2> QED
      BY <1>1, <2>1 DEF Asked, AnswerSource
  <1> QED
    BY <1>1, <1>4, <1>5, <1>6, Unseen

(* Nobody is shown anything any more.                                      *)
LEMMA DisconnectImplements ==
  ASSUME RInv, Disconnect
  PROVE  Service!Hangup
  <1>1. /\ ~connected'
        /\ UNCHANGED <<state, docs, registered, running, trees, symbols>>
    BY DEF Disconnect, serverVars, featureVars, jobVars
  <1>2. Shown' = [u \in URIs |-> None]
    BY <1>1 DEF Shown
  <1>3. UNCHANGED <<Serving, Stored, Asked>>
    BY <1>1 DEF Serving, HasFeature, TearingDown, Stored, Asked, Reading, AnswerSource
  <1> QED
    BY <1>1, <1>2, <1>3, SessionAssumption DEF Service!Hangup, Disconnect, RInv, IInv,
       TypeOK, ServerTypeOK
-----------------------------------------------------------------------------
(* The handlers. What the service sees of the job that runs.               *)
LEMMA JobSeen ==
  ASSUME RInv, NEW j \in running
  PROVE  /\ running = {j} /\ j \in Job /\ Progress(j)
         /\ TearingDown <=> j.pc = "teardown"
         /\ \A u \in URIs : BeingAnalysed(u) <=>
               j.pc \in {"parse", "reparse", "index"} /\ j.msg.uri = u
         /\ Asked = IF j.pc = "read"
                    THEN {[id |-> j.id, about |-> AnswerSource(j)]} ELSE {}
  <1>1. running = {j} /\ j \in Job /\ Progress(j)
    BY OnlyJob DEF RInv
  <1>2. Reading = IF j.pc = "read" THEN {j} ELSE {}
    BY <1>1 DEF Reading
  <1>3. Asked = IF j.pc = "read" THEN {[id |-> j.id, about |-> AnswerSource(j)]} ELSE {}
    BY <1>2 DEF Asked
  <1> QED
    BY <1>1, <1>3 DEF TearingDown, BeingAnalysed

(* And of what becomes of it.                                              *)
LEMMA ReturnSeen ==
  ASSUME RInv, NEW j \in running, Return(j)
  PROVE  ~TearingDown' /\ Asked' = {} /\ \A u \in URIs : ~BeingAnalysed(u)'
  <1>1. running' = {}
    BY OnlyJob DEF RInv
  <1> QED
    BY <1>1 DEF TearingDown, Asked, Reading, BeingAnalysed

(* What the service sees of a handler that goes on.                        *)
LEMMA GoToSeen ==
  ASSUME RInv, NEW j \in running, NEW pc, NEW left, GoTo(j, pc, left)
  PROVE  /\ TearingDown' <=> pc = "teardown"
         /\ \A u \in URIs : BeingAnalysed(u)' <=>
               pc \in {"parse", "reparse", "index"} /\ j.msg.uri = u
         /\ Asked' = IF pc = "read"
                     THEN {[id |-> j.id, about |-> AnswerSource(j)']} ELSE {}
  <1> DEFINE k == [j EXCEPT !.pc = pc, !.left = left]
  <1>1. running' = {k} /\ j \in Job
    BY OnlyJob DEF RInv
  <1>2. k.pc = pc /\ k.msg = j.msg /\ k.id = j.id
    BY <1>1 DEF Job
  <1> HIDE DEF k
  <1>3. Reading' = IF pc = "read" THEN {k} ELSE {}
    BY <1>1, <1>2 DEF Reading
  <1>4. AnswerSource(k)' = AnswerSource(j)'
    BY <1>2 DEF AnswerSource
  <1>5. Asked' = IF pc = "read" THEN {[id |-> j.id, about |-> AnswerSource(j)']} ELSE {}
    BY <1>2, <1>3, <1>4 DEF Asked
  <1> QED
    BY <1>1, <1>2, <1>5 DEF TearingDown, BeingAnalysed

(* The steps that neither the store, the analysis shown nor the questions  *)
(* open depend on.                                                         *)
LEMMA PlainImplements ==
  ASSUME RInv, NEW j \in running,
         UNCHANGED <<state, docs, registered, connected, view>>,
         j.pc \in {"start", "negotiate"},
         Return(j) \/ \E pc \in {"negotiate", "change"}, left \in Seq(Texts) : GoTo(j, pc, left)
  PROVE  UNCHANGED Service!vars
  <1>1. /\ ~TearingDown /\ Asked = {}
        /\ \A u \in URIs : ~BeingAnalysed(u)
    BY JobSeen
  <1>2. /\ ~TearingDown' /\ Asked' = {}
        /\ \A u \in URIs : ~BeingAnalysed(u)'
    BY ReturnSeen, GoToSeen
  <1> QED
    BY <1>1, <1>2, Unseen

(* A rejection does nothing the service sees.                              *)
LEMMA RejectImplements ==
  ASSUME RInv, NEW j \in running, Reject(j)
  PROVE  UNCHANGED Service!vars
  BY JobSeen, PlainImplements DEF Reject, Progress, serverVars, clientSide

(* The service sees neither initialized nor the position encoding.         *)
LEMMA InitializedImplements ==
  ASSUME RInv, NEW j \in running, Initialized(j) \/ SetPositionEncoding(j)
  PROVE  UNCHANGED Service!vars
  BY PlainImplements DEF Initialized, SetPositionEncoding, At, serverVars, clientSide

(* Taking up a didChange does nothing the service sees.                    *)
LEMMA DidChangeImplements ==
  ASSUME RInv, NEW j \in running, DidChange(j)
  PROVE  UNCHANGED Service!vars
  <1>1. /\ UNCHANGED <<state, docs, registered, connected, view>>
        /\ j.pc = "start"
        /\ Return(j) \/ GoTo(j, "change", j.msg.texts)
    BY DEF DidChange, At, serverVars, clientSide
  <1>2. j.msg.texts \in Seq(Texts)
    BY JobSeen, MessageParts DEF DidChange, At, Job
  <1> QED
    BY <1>1, <1>2, PlainImplements

(* Initialize and Shutdown are seen where they set the state, ...          *)
LEMMA InitializeImplements ==
  ASSUME RInv, NEW j \in running, Initialize(j)
  PROVE  Service!Initialize
  <1>1. /\ state' = "Initialized" /\ j.pc = "start"
        /\ GoTo(j, "negotiate", <<>>)
        /\ UNCHANGED <<docs, registered, connected, view>>
    BY DEF Initialize, At, clientSide
  <1>2. /\ ~TearingDown /\ Asked = {} /\ \A u \in URIs : ~BeingAnalysed(u)
        /\ ~TearingDown' /\ Asked' = {} /\ \A u \in URIs : ~BeingAnalysed(u)'
    BY <1>1, JobSeen, GoToSeen
  <1>3. UNCHANGED <<Serving, Stored, Shown>>
    BY <1>1, <1>2 DEF Serving, HasFeature, Stored, Shown
  <1> QED
    BY <1>1, <1>2, <1>3 DEF Service!Initialize

(* Moving the state to ShutDown is the end of the service.                 *)
LEMMA ShutdownImplements ==
  ASSUME RInv, NEW j \in running, Shutdown(j)
  PROVE  Service!Shutdown \/ UNCHANGED Service!vars
  <1>1. /\ j.pc = "start" /\ UNCHANGED <<docs, registered, connected, view>>
    BY DEF Shutdown, At, clientSide
  <1>2. CASE state # "Initialized"
    BY <1>1, <1>2, PlainImplements DEF Shutdown
  <1>3. CASE state = "Initialized"
    <2>1. state' = "ShutDown" /\ GoTo(j, "teardown", <<>>)
      BY <1>3 DEF Shutdown
    <2>2. /\ Asked = {} /\ \A u \in URIs : ~BeingAnalysed(u)
          /\ TearingDown' /\ Asked' = {} /\ \A u \in URIs : ~BeingAnalysed(u)'
      BY <1>1, <2>1, JobSeen, GoToSeen
    <2>3. Serving' = FALSE /\ UNCHANGED <<Stored, Shown>>
      BY <1>1, <2>2 DEF Serving, Stored, Shown
    <2> QED
      BY <1>1, <1>3, <2>1, <2>2, <2>3 DEF Service!Shutdown
  <1> QED
    BY <1>2, <1>3

(* ... the closing of the features is not.                                 *)
LEMMA CloseFeaturesImplements ==
  ASSUME RInv, NEW j \in running, CloseFeatures(j)
  PROVE  UNCHANGED Service!vars
  <1>1. /\ j.pc = "teardown" /\ Return(j) /\ registered' = {}
        /\ UNCHANGED <<state, docs, connected, view>>
    BY DEF CloseFeatures, At, clientSide
  <1>2. /\ TearingDown /\ Asked = {} /\ \A u \in URIs : ~BeingAnalysed(u)
        /\ Asked' = {} /\ \A u \in URIs : ~BeingAnalysed(u)'
    BY <1>1, JobSeen, ReturnSeen
  <1>3. UNCHANGED <<Serving, Stored, Shown>>
    BY <1>1, <1>2 DEF Serving, HasFeature, Stored, Shown
  <1> QED
    BY <1>1, <1>2, <1>3 DEF Service!vars
-----------------------------------------------------------------------------
(* A document is supported when it is of the one feature's language and    *)
(* that feature is still registered.                                       *)
LEMMA Supports ==
  ASSUME RInv, NEW lang
  PROVE  HasFeature(lang) <=> lang \in {Cisco} /\ HasFeature(Cisco)
  BY DEF RInv, OneFeature, HasFeature

(* Where a handler writes the store the service puts the document, and     *)
(* from there to the end of its analysis shows the report on it.           *)
LEMMA PutImplements ==
  ASSUME RInv, NEW j \in running, j.pc \in {"start", "change"}, state # "Created",
         UNCHANGED <<state, registered, connected, view>>,
         NEW u \in URIs, u = j.msg.uri, NEW d \in Document,
         docs' = [docs EXCEPT ![u] = d],
         IF HasFeature(d.lang)
         THEN \E pc \in {"parse", "reparse"} : \E left : GoTo(j, pc, left)
         ELSE Return(j) \/ \E left : GoTo(j, "change", left)
  PROVE  Service!Put(u, [lang |-> d.lang, text |-> d.text])
  <1>1. /\ ~TearingDown /\ Asked = {} /\ \A v \in URIs : ~BeingAnalysed(v)
    BY JobSeen
  <1>2. /\ ~TearingDown' /\ Asked' = {}
        /\ \A v \in URIs : BeingAnalysed(v)' <=> HasFeature(d.lang) /\ v = u
    BY ReturnSeen, GoToSeen
  <1>3. Serving' = Serving /\ (Serving <=> HasFeature(Cisco))
    BY <1>1, <1>2 DEF Serving, HasFeature
  <1>4. docs \in [URIs -> Document \cup {None}] /\ d # None /\ d.text \in Texts
    BY ServerAssumption DEF RInv, IInv, TypeOK, ServerTypeOK, Document
  <1>5. Stored' = [Stored EXCEPT ![u] = [lang |-> d.lang, text |-> d.text]]
    BY <1>4 DEF Stored
  <1>6. Shown' = IF Serving /\ connected /\ d.lang \in {Cisco}
                 THEN [Shown EXCEPT ![u] = Report[d.text]] ELSE Shown
    <2>1. Serving /\ d.lang \in {Cisco} <=> HasFeature(d.lang)
      BY <1>3, Supports
    <2>2. Shown = [v \in URIs |-> IF ~connected THEN None ELSE view[v]]
      BY <1>1 DEF Shown
    <2>3. Shown' = [v \in URIs |->
                       IF ~connected THEN None
                       ELSE IF HasFeature(d.lang) /\ v = u THEN Report[docs'[v].text]
                       ELSE view[v]]
      BY <1>2 DEF Shown
    <2>4. docs'[u] = d
      BY <1>4
    <2>5. CASE Serving /\ connected /\ d.lang \in {Cisco}
      BY <2>1, <2>2, <2>3, <2>4, <2>5
    <2>6. CASE ~ (Serving /\ connected /\ d.lang \in {Cisco})
      BY <2>1, <2>2, <2>3, <2>6
    <2> QED
      BY <2>5, <2>6
  <1> QED
    BY <1>1, <1>2, <1>3, <1>5, <1>6 DEF Service!Put

(* Storing an opened document is the service's edit.                       *)
LEMMA DidOpenImplements ==
  ASSUME RInv, NEW j \in running, DidOpen(j)
  PROVE  \E u \in URIs : Service!Open(u)
  <1> DEFINE u == j.msg.uri
  <1>1. PICK d : d = [lang |-> j.msg.lang, text |-> j.msg.text, version |-> j.id]
    OBVIOUS
  <1>2. /\ j.pc = "start" /\ j.verdict = "run" /\ j.msg.method = "textDocument/didOpen"
        /\ docs' = [docs EXCEPT ![u] = d]
        /\ IF HasFeature(d.lang) THEN GoTo(j, "parse", <<>>) ELSE Return(j)
        /\ UNCHANGED <<state, registered, connected, view>>
    BY <1>1 DEF DidOpen, At, clientSide
  <1>3. u \in URIs /\ d \in Document
    BY <1>1, <1>2, JobSeen, MessageParts DEF Job, Document
  <1>4. state # "Created"
    BY <1>2 DEF RInv, IInv, Lifecycle, InProgress
  <1>5. Service!Put(u, [lang |-> d.lang, text |-> d.text])
    BY <1>2, <1>3, <1>4, PutImplements
  <1>6. [lang |-> d.lang, text |-> d.text] \in Service!Content
    BY <1>3 DEF Service!Content, Document
  <1> QED
    BY <1>3, <1>5, <1>6 DEF Service!Open

(* Storing a change is the service's edit.                                 *)
LEMMA ApplyChangeImplements ==
  ASSUME RInv, NEW j \in running, ApplyChange(j)
  PROVE  \E u \in URIs : Service!Edit(u)
  <1> DEFINE u == j.msg.uri
  <1>1. /\ j.pc = "change" /\ j.verdict = "run" /\ j.msg.method = "textDocument/didChange"
        /\ j.left \in Seq(Texts) /\ j.left # <<>> /\ j.id \in Nat /\ docs[u] # None /\ u \in URIs
    BY JobSeen, MessageParts DEF ApplyChange, At, Progress, Job
  <1>2. docs[u] \in Document /\ Head(j.left) \in Texts
    BY <1>1 DEF RInv, IInv, TypeOK, ServerTypeOK
  <1>3. PICK d : d = [docs[u] EXCEPT !.text = Head(j.left), !.version = j.id]
    OBVIOUS
  <1>4. d \in Document /\ d.lang = docs[u].lang /\ d.text = Head(j.left)
    BY <1>1, <1>2, <1>3 DEF Document
  <1>5. /\ docs' = [docs EXCEPT ![u] = d]
        /\ IF HasFeature(d.lang) THEN GoTo(j, "reparse", j.left) ELSE NextChange(j)
        /\ UNCHANGED <<state, registered, connected, view>>
    BY <1>3, <1>4 DEF ApplyChange, clientSide
  <1>6. NextChange(j) => Return(j) \/ GoTo(j, "change", Tail(j.left))
    BY DEF NextChange
  <1>7. state # "Created"
    BY <1>1 DEF RInv, IInv, Lifecycle, InProgress
  <1>8. Service!Put(u, [lang |-> d.lang, text |-> d.text])
    BY <1>1, <1>4, <1>5, <1>6, <1>7, PutImplements
  <1>9. /\ Stored[u] = [lang |-> docs[u].lang, text |-> docs[u].text] /\ Stored[u] # None
        /\ [lang |-> d.lang, text |-> d.text] = [Stored[u] EXCEPT !.text = d.text]
    <2>1. Stored[u] = [lang |-> docs[u].lang, text |-> docs[u].text]
      BY <1>1 DEF Stored
    <2>2. [lang |-> docs[u].lang, text |-> docs[u].text] # None
      BY <1>2, ContentIsSome DEF Document
    <2> QED
      BY <1>4, <2>1, <2>2
  <1> QED
    BY <1>1, <1>2, <1>4, <1>8, <1>9 DEF Service!Edit
-----------------------------------------------------------------------------
(* The analysis of what has been stored is what the service showed since:  *)
(* the first publish is not seen, ...                                      *)
LEMMA ParseImplements ==
  ASSUME RInv, NEW j \in running, Parse(j) \/ Reparse(j)
  PROVE  UNCHANGED Service!vars
  <1> DEFINE u == j.msg.uri
  <1>1. /\ j.pc \in {"parse", "reparse"}
        /\ Publish(u, TierOne(docs[u].text))
        /\ \E left : GoTo(j, "index", left)
        /\ UNCHANGED <<state, docs, registered>>
    BY DEF Parse, Reparse, At, serverVars
  <1>2. /\ ~TearingDown /\ Asked = {} /\ \A v \in URIs : BeingAnalysed(v) <=> v = u
        /\ ~TearingDown' /\ Asked' = {} /\ \A v \in URIs : BeingAnalysed(v)' <=> v = u
    BY <1>1, JobSeen, GoToSeen
  <1>3. connected' = connected /\ \A v \in URIs : v # u => view'[v] = view[v]
    BY <1>1 DEF Publish, RInv, IInv, TypeOK, ServerTypeOK
  <1> QED
    BY <1>1, <1>2, <1>3, Unseen

(* ... and after the second, or its omission, the client has it all.       *)
LEMMA IndexAndFinishImplements ==
  ASSUME RInv, NEW j \in running, IndexAndFinish(j), IInv'
  PROVE  UNCHANGED Service!vars
  <1> DEFINE u == j.msg.uri
  <1>1. /\ j.pc = "index" /\ NextChange(j)
        /\ UNCHANGED <<state, docs, registered, connected>>
        /\ \A v \in URIs : v # u => view'[v] = view[v]
    BY DEF IndexAndFinish, serverVars, clientSide, Publish, RInv, IInv, TypeOK, ServerTypeOK
  <1>2. Return(j) \/ GoTo(j, "change", Tail(j.left))
    BY <1>1 DEF NextChange
  <1>3. /\ ~TearingDown /\ Asked = {} /\ \A v \in URIs : BeingAnalysed(v) <=> v = u
        /\ ~TearingDown' /\ Asked' = {} /\ \A v \in URIs : ~BeingAnalysed(v)'
    BY <1>1, <1>2, JobSeen, ReturnSeen, GoToSeen
  <1>4. u \in URIs /\ Served(u) /\ docs[u].text \in Texts
    <2>1. u \in URIs /\ Served(u)
      BY <1>1, JobSeen, MessageParts DEF Progress, Job
    <2> QED
      BY <2>1 DEF Served, RInv, IInv, TypeOK, ServerTypeOK, Document
  <1>5. connected => view'[u] = Report[docs[u].text]
    <2>1. Served(u)' /\ docs'[u].text = docs[u].text
      BY <1>1, <1>4 DEF Served, HasFeature
    <2>2. connected' => view'[u] = FullSet(docs[u].text, docs[u].text)
      BY <1>3, <1>4, <2>1 DEF IInv, ViewMatchesStore
    <2> QED
      BY <1>1, <1>4, <2>2 DEF Report
  <1>6. Shown' = Shown
    BY <1>1, <1>3, <1>4, <1>5 DEF Shown
  <1>7. UNCHANGED <<Serving, Stored>>
    BY <1>1, <1>3 DEF Serving, HasFeature, Stored
  <1> QED
    BY <1>1, <1>3, <1>6, <1>7 DEF Service!vars

(* What the server serves the service does, while no features are closed.  *)
LEMMA ServedIs ==
  ASSUME RInv, NEW u \in URIs, ~TearingDown, docs[u] # None, HasFeature(docs[u].lang)
  PROVE  Service!Served(u) /\ Stored[u].text = docs[u].text /\ docs[u].text \in Texts
  <1>1. docs[u] \in Document
    BY DEF RInv, IInv, TypeOK, ServerTypeOK
  <1>2. Serving /\ docs[u].lang \in {Cisco}
    BY Supports DEF Serving
  <1>3. /\ Stored[u] = [lang |-> docs[u].lang, text |-> docs[u].text]
        /\ Stored[u] # None
    <2>1. Stored[u] = [lang |-> docs[u].lang, text |-> docs[u].text]
      BY DEF Stored
    <2>2. [lang |-> docs[u].lang, text |-> docs[u].text] # None
      BY <1>1, ContentIsSome DEF Document
    <2> QED
      BY <2>1, <2>2
  <1> QED
    BY <1>1, <1>2, <1>3 DEF Service!Served, Document

(* A document closed is forgotten if it was served.                        *)
LEMMA DidCloseImplements ==
  ASSUME RInv, NEW j \in running, DidClose(j)
  PROVE  (\E u \in URIs : Service!Close(u)) \/ UNCHANGED Service!vars
  <1> DEFINE u == j.msg.uri
  <1>1. /\ j.pc = "start" /\ j.msg.method = "textDocument/didClose" /\ Return(j)
        /\ UNCHANGED <<state, registered, connected, view>>
    BY DEF DidClose, At, clientSide
  <1>2. /\ ~TearingDown /\ Asked = {} /\ \A v \in URIs : ~BeingAnalysed(v)
        /\ ~TearingDown' /\ Asked' = {} /\ \A v \in URIs : ~BeingAnalysed(v)'
    BY <1>1, JobSeen, ReturnSeen
  <1>3. u \in URIs
    BY <1>1, JobSeen, MessageParts DEF Job
  <1>4. CASE docs[u] # None /\ HasFeature(docs[u].lang)
    <2>1. docs' = [docs EXCEPT ![u] = None]
      BY <1>4 DEF DidClose
    <2>2. Stored' = [Stored EXCEPT ![u] = None]
      BY <1>3, <2>1 DEF Stored, RInv, IInv, TypeOK, ServerTypeOK
    <2>3. UNCHANGED <<Serving, Shown>>
      BY <1>1, <1>2 DEF Serving, HasFeature, Shown
    <2>4. Service!Served(u)
      BY <1>2, <1>3, <1>4, ServedIs
    <2> QED
      BY <1>1, <1>2, <1>3, <2>2, <2>3, <2>4 DEF Service!Close
  <1>5. CASE ~ (docs[u] # None /\ HasFeature(docs[u].lang))
    <2>1. UNCHANGED docs
      BY <1>5 DEF DidClose
    <2> QED
      BY <1>1, <2>1, PlainImplements
  <1> QED
    BY <1>4, <1>5

(* A question is about the text in the store when its document was found.  *)
LEMMA QueryImplements ==
  ASSUME RInv, NEW j \in running, Query(j)
  PROVE  (\E u \in URIs : Service!Ask(u)) \/ UNCHANGED Service!vars
  <1> DEFINE u == j.msg.uri
  <1>1. /\ j.pc = "start" /\ j.msg.method \in Queries
        /\ UNCHANGED <<state, docs, registered, connected, view, trees, symbols>>
    BY DEF Query, At, serverVars, clientSide, featureVars
  <1>2. u \in URIs
    BY <1>1, JobSeen, MessageParts DEF Job
  <1>3. CASE docs[u] # None /\ HasFeature(docs[u].lang)
    <2>1. GoTo(j, "read", <<>>)
      BY <1>3 DEF Query
    <2>2. /\ ~TearingDown /\ Asked = {} /\ \A v \in URIs : ~BeingAnalysed(v)
          /\ ~TearingDown' /\ \A v \in URIs : ~BeingAnalysed(v)'
          /\ Asked' = {[id |-> j.id, about |-> AnswerSource(j)']}
      BY <1>1, <2>1, JobSeen, GoToSeen
    <2>3. AnswerSource(j)' = docs[u].text
      <3>1. trees[u] = docs[u].text /\ symbols[u] = docs[u].text
        BY <1>2, <1>3, <2>2 DEF RInv, IInv, AnalysisMatchesStore, Served
      <3> QED
        BY <1>1, <3>1 DEF AnswerSource
    <2>4. Service!Served(u) /\ Stored[u].text = docs[u].text
      BY <1>2, <1>3, <2>2, ServedIs
    <2>5. j.id \in 1..MaxMessages
      <3>1. j.id \in 1..nsent /\ nsent <= MaxMessages /\ nsent \in Nat
        BY DEF RInv, OInv, Numbered, InFlight, Assigned, InProgress, IInv, TypeOK
      <3> QED
        BY <3>1, SessionAssumption
    <2>6. UNCHANGED <<Serving, Stored, Shown>>
      BY <1>1, <2>2 DEF Serving, HasFeature, Stored, Shown
    <2> QED
      BY <1>1, <1>2, <2>2, <2>3, <2>4, <2>5, <2>6 DEF Service!Ask
  <1>4. CASE ~ (docs[u] # None /\ HasFeature(docs[u].lang))
    BY <1>1, <1>4, PlainImplements DEF Query
  <1> QED
    BY <1>3, <1>4

(* An answer is one of the service, from the stored text.                  *)
LEMMA AnswerImplements ==
  ASSUME RInv, NEW j \in running, Answer(j)
  PROVE  Service!Reply
  <1>1. /\ j.pc = "read" /\ Return(j)
        /\ UNCHANGED <<state, docs, registered, connected, view>>
    BY DEF Answer, serverVars, clientSide
  <1>2. /\ ~TearingDown /\ \A v \in URIs : ~BeingAnalysed(v)
        /\ ~TearingDown' /\ Asked' = {} /\ \A v \in URIs : ~BeingAnalysed(v)'
        /\ Asked = {[id |-> j.id, about |-> AnswerSource(j)]}
    BY <1>1, JobSeen, ReturnSeen
  <1>3. UNCHANGED <<Serving, Stored, Shown>>
    BY <1>1, <1>2 DEF Serving, HasFeature, Stored, Shown
  <1> QED
    BY <1>1, <1>2, <1>3 DEF Service!Reply
-----------------------------------------------------------------------------
(* Every step of a session is a step of the service or none.               *)
LEMMA NextImplements ==
  ASSUME RInv, IInv', [Next]_vars
  PROVE  [Service!Next]_Service!vars
  <1>1. CASE Disconnect
    BY <1>1, DisconnectImplements DEF Service!Next
  <1>2. CASE Handle
    <2>1. PICK j \in running :
            \/ Reject(j) \/ Initialize(j) \/ SetPositionEncoding(j)
            \/ Initialized(j) \/ Shutdown(j) \/ CloseFeatures(j)
            \/ DidOpen(j) \/ Parse(j) \/ DidChange(j) \/ ApplyChange(j)
            \/ Reparse(j) \/ IndexAndFinish(j) \/ DidClose(j)
            \/ Query(j) \/ Answer(j)
      BY <1>2 DEF Handle, HandlerStep
    <2>2. \/ \E u \in URIs :
               Service!Open(u) \/ Service!Edit(u) \/ Service!Close(u) \/ Service!Ask(u)
          \/ Service!Initialize \/ Service!Shutdown \/ Service!Reply
          \/ UNCHANGED Service!vars
      BY <2>1, RejectImplements, InitializeImplements, InitializedImplements,
         ShutdownImplements, CloseFeaturesImplements, DidOpenImplements, ParseImplements,
         DidChangeImplements, ApplyChangeImplements, IndexAndFinishImplements,
         DidCloseImplements, QueryImplements, AnswerImplements
    <2> QED
      BY <2>2 DEF Service!Next
  <1>3. CASE ~Disconnect /\ ~Handle
    BY <1>3, QueueImplements DEF Next, ServerStep, Exited
  <1> QED
    BY <1>1, <1>2, <1>3

(* The server behaves as if an edit were analysed the moment it is stored, *)
(* a question answered from the text in the store and the service ended in *)
(* one step, whatever its clients send (server.go, feature.go).            *)
THEOREM Implements == Spec => Refines
  <1>1. Init => Service!Init
    BY InitImplements
  <1>2. RInv /\ RInv' /\ [Next]_vars => [Service!Next]_Service!vars
    BY NextImplements DEF RInv
  <1> QED
    BY <1>1, <1>2, Always, PTL DEF Spec, Refines, Service!Spec

-----------------------------------------------------------------------------
Opens(msg) == msg.method = "textDocument/didOpen"
Changes(msg) == msg.method = "textDocument/didChange"
Closes(msg) == msg.method = "textDocument/didClose"
Final(msg) == msg.texts[Len(msg.texts)]

Edit == [id : Nat, msg : {msg \in Message : Opens(msg) \/ Changes(msg) \/ Closes(msg)}]

(* An editor opens what is not open, or only stored for want of a feature, *)
(* and changes what is.                                                    *)
MayFirst(x, stored) ==
    /\ Opens(x.msg) => stored = None \/ stored.lang # Cisco
    /\ Changes(x.msg) => stored # None

MayFollow(x, before) ==
    /\ Opens(x.msg) => Closes(before.msg)
    /\ Changes(x.msg) => ~Closes(before.msg)

(* What an edit, if the latest, makes the editor hold.                     *)
LeadsTo(x, held) ==
    /\ Opens(x.msg) => held = [lang |-> x.msg.lang, text |-> x.msg.text, version |-> x.id]
    /\ Changes(x.msg) => held # None /\ held.text = Final(x.msg) /\ held.version = x.id
    /\ Closes(x.msg) => held = None

Settled(stored, held) ==
    /\ held # None => stored = held
    /\ held = None => stored = None \/ stored.lang # Cisco

(* The pending edits of a document, what is stored of it and what the      *)
(* editor holds.                                                           *)
Chain(edits, stored) ==
    \A x \in edits :
        \/ MayFirst(x, stored) /\ \A z \in edits : x.id <= z.id
        \/ \E y \in edits : /\ y.id < x.id /\ MayFollow(x, y)
                            /\ \A z \in edits : z.id < x.id => z.id <= y.id

Latest(edits, stored, held) ==
    \/ edits = {} /\ Settled(stored, held)
    \/ \E x \in edits : LeadsTo(x, held) /\ \A z \in edits : z.id <= x.id

(* An edit does not change the language; only opening a document does.     *)
Language(edits, stored, held) ==
    held # None =>
        \/ \E x \in edits : /\ Opens(x.msg) /\ x.msg.lang = held.lang
                            /\ \A z \in edits : z.id > x.id => Changes(z.msg)
        \/ /\ \A z \in edits : Changes(z.msg)
           /\ stored # None /\ stored.lang = held.lang

Story(edits, stored, held) ==
    /\ \A x \in edits : Changes(x.msg) => x.msg.texts # <<>>
    /\ Chain(edits, stored)
    /\ Latest(edits, stored, held)
    /\ Language(edits, stored, held)

-----------------------------------------------------------------------------
(* An edit is of one of three methods, and has the parts of its own.       *)
LEMMA EditKinds ==
  ASSUME NEW x \in Edit
  PROVE  /\ x.id \in Nat /\ x.msg \in Message
         /\ Opens(x.msg) \/ Changes(x.msg) \/ Closes(x.msg)
         /\ ~(Opens(x.msg) /\ Changes(x.msg))
         /\ ~(Opens(x.msg) /\ Closes(x.msg))
         /\ ~(Changes(x.msg) /\ Closes(x.msg))
         /\ Opens(x.msg) =>
              [lang |-> x.msg.lang, text |-> x.msg.text, version |-> x.id] \in Document \ {None}
  <1>1. x.id \in Nat /\ x.msg \in Message
    BY DEF Edit
  <1> QED
    BY <1>1, MessageParts, ServerAssumption DEF Edit, Opens, Changes, Closes, Document

(* What the editor holds once it has sent the edit x.                      *)
HeldAfter(x, held) ==
    IF Opens(x.msg) THEN [lang |-> x.msg.lang, text |-> x.msg.text, version |-> x.id]
    ELSE IF Changes(x.msg) THEN [held EXCEPT !.text = Final(x.msg), !.version = x.id]
    ELSE None

(* An edit sent goes on with the story.                                    *)
LEMMA StoryGoesOn ==
  ASSUME NEW edits \in SUBSET Edit, NEW stored, NEW held \in Document \cup {None},
         Story(edits, stored, held),
         NEW x \in Edit, \A z \in edits : z.id < x.id,
         Opens(x.msg) => held = None,
         Changes(x.msg) => held # None /\ x.msg.texts # <<>> /\ x.msg.texts \in Seq(Texts)
  PROVE  Story(edits \cup {x}, stored, HeldAfter(x, held))
  <1> DEFINE after == HeldAfter(x, held)
             all == edits \cup {x}
  <1>0. \A z \in all : z.id \in Nat
    BY EditKinds
  <1>1. \A z \in all : z.id \in Nat /\ z.id <= x.id
    BY <1>0
  <1>2. Changes(x.msg) => /\ after \in Document /\ after # None
                          /\ after.lang = held.lang /\ after.text = Final(x.msg)
                          /\ after.version = x.id
    <2> SUFFICES ASSUME Changes(x.msg)
                 PROVE  /\ after \in Document /\ after # None
                        /\ after.lang = held.lang /\ after.text = Final(x.msg)
                        /\ after.version = x.id
      OBVIOUS
    <2>1. held \in Document /\ x.id \in Nat /\ ~Opens(x.msg)
      BY EditKinds
    <2>2. Final(x.msg) \in Texts
      BY DEF Final
    <2>3. after = [held EXCEPT !.text = Final(x.msg), !.version = x.id]
      BY <2>1 DEF HeldAfter
    <2> HIDE DEF after
    <2>4. after \in Document
      BY <2>1, <2>2, <2>3 DEF Document
    <2> QED
      BY <2>1, <2>3, <2>4, ServerAssumption DEF Document
  <1>3. LeadsTo(x, after)
    BY <1>2, EditKinds DEF LeadsTo, HeldAfter
  <1>4. Latest(all, stored, after)
    BY <1>1, <1>3 DEF Latest
  <1>5. \A z \in all : Changes(z.msg) => z.msg.texts # <<>>
    BY DEF Story
  <1>6. Chain(all, stored)
    <2>1. ASSUME NEW y \in edits
          PROVE  \/ MayFirst(y, stored) /\ \A z \in all : y.id <= z.id
                 \/ \E w \in all : /\ w.id < y.id /\ MayFollow(y, w)
                                   /\ \A z \in all : z.id < y.id => z.id <= w.id
      <3>1. y.id <= x.id /\ ~(x.id < y.id)
        BY <1>0
      <3> QED
        BY <3>1 DEF Story, Chain
    <2>2. CASE edits = {}
      <3>1. MayFirst(x, stored)
        BY <2>2 DEF Story, Latest, Settled, MayFirst
      <3> QED
        BY <1>1, <2>2, <3>1 DEF Chain
    <2>3. CASE edits # {}
      <3>1. PICK y \in edits : LeadsTo(y, held) /\ \A z \in edits : z.id <= y.id
        BY <2>3 DEF Story, Latest
      <3>2. MayFollow(x, y)
        BY <3>1, EditKinds DEF LeadsTo, MayFollow
      <3>3. \A z \in all : z.id < x.id => z.id <= y.id
        BY <1>1, <3>1
      <3> QED
        BY <2>1, <3>1, <3>2, <3>3 DEF Chain
    <2> QED
      BY <2>2, <2>3
  <1>7. Language(all, stored, after)
    <2>1. CASE Opens(x.msg)
      <3>1. after.lang = x.msg.lang /\ \A z \in all : ~(z.id > x.id)
        BY <1>1, <2>1, EditKinds DEF HeldAfter
      <3> QED
        BY <2>1, <3>1 DEF Language
    <2>2. CASE Changes(x.msg)
      <3>1. after.lang = held.lang /\ held # None
        BY <1>2, <2>2
      <3> HIDE DEF after
      <3> QED
        BY <2>2, <3>1 DEF Language, Story
    <2>3. CASE Closes(x.msg)
      BY <2>3, EditKinds DEF HeldAfter, Language
    <2> QED
      BY <2>1, <2>2, <2>3, EditKinds
  <1> QED
    BY <1>4, <1>5, <1>6, <1>7 DEF Story

(* What the handler of an edit makes of what is stored.                    *)
Stores(x, stored, next) ==
    /\ Opens(x.msg) => next = [lang |-> x.msg.lang, text |-> x.msg.text, version |-> x.id]
    /\ Changes(x.msg) => /\ stored # None /\ next # None /\ next.lang = stored.lang
                         /\ next.text = Final(x.msg) /\ next.version = x.id
    /\ Closes(x.msg) => next = IF stored # None /\ stored.lang = Cisco THEN None ELSE stored

(* The oldest edit, handled, leaves the rest of the story.                 *)
LEMMA StoryComesTrue ==
  ASSUME NEW edits \in SUBSET Edit, \A y, z \in edits : y.id = z.id => y = z,
         NEW stored \in Document \cup {None}, NEW held \in Document \cup {None},
         Story(edits, stored, held),
         NEW x \in edits, \A z \in edits : x.id <= z.id,
         NEW next \in Document \cup {None}, Stores(x, stored, next)
  PROVE  Story(edits \ {x}, next, held)
  <1> DEFINE rest == edits \ {x}
  <1>0. \A z \in edits : z.id \in Nat
    BY EditKinds
  <1>1. \A z \in rest : z.id \in Nat /\ x.id \in Nat /\ x.id < z.id
    BY <1>0
  <1>2. next = None \/ next.lang # Cisco \/ ~Closes(x.msg)
    BY DEF Stores
  <1>3. next # None \/ Closes(x.msg)
    BY EditKinds DEF Stores
  <1>4. Chain(rest, next)
    <2> SUFFICES ASSUME NEW z \in rest
                 PROVE  \/ MayFirst(z, next) /\ \A w \in rest : z.id <= w.id
                        \/ \E y \in rest : /\ y.id < z.id /\ MayFollow(z, y)
                                           /\ \A w \in rest : w.id < z.id => w.id <= y.id
      BY DEF Chain
    <2>1. ~(z.id <= x.id)
      BY <1>1
    <2>2. PICK y \in edits : /\ y.id < z.id /\ MayFollow(z, y)
                             /\ \A w \in edits : w.id < z.id => w.id <= y.id
      BY <2>1 DEF Story, Chain
    <2>3. CASE y = x
      <3>1. \A w \in rest : z.id <= w.id
        BY <1>1, <2>2, <2>3
      <3>2. MayFirst(z, next)
        BY <1>2, <1>3, <2>2, <2>3 DEF MayFollow, MayFirst
      <3> QED
        BY <3>1, <3>2
    <2> QED
      BY <2>2, <2>3
  <1>5. Latest(rest, next, held)
    <2>1. PICK y \in edits : LeadsTo(y, held) /\ \A z \in edits : z.id <= y.id
      BY DEF Story, Latest
    <2>2. CASE y # x
      BY <2>1, <2>2 DEF Latest
    <2>3. CASE y = x
      <3>1. rest = {}
        BY <1>1, <2>1, <2>3
      <3>2. Settled(next, held)
        <4>1. CASE Opens(x.msg)
          BY <2>1, <2>3, <4>1, EditKinds DEF LeadsTo, Stores, Settled
        <4>2. CASE Changes(x.msg)
          <5>1. held # None /\ held.text = next.text /\ held.version = next.version /\ next # None
            BY <2>1, <2>3, <4>2 DEF LeadsTo, Stores
          <5>2. ~ \E z \in edits : Opens(z.msg)
            BY <3>1, <4>2, EditKinds
          <5>3. held.lang = next.lang
            BY <4>2, <5>1, <5>2 DEF Story, Language, Stores
          <5>4. held = next
            BY <5>1, <5>3 DEF Document
          <5> QED
            BY <5>1, <5>4 DEF Settled
        <4>3. CASE Closes(x.msg)
          BY <1>2, <2>1, <2>3, <4>3 DEF LeadsTo, Settled
        <4> QED
          BY <4>1, <4>2, <4>3, EditKinds
      <3> QED
        BY <3>1, <3>2 DEF Latest
    <2> QED
      BY <2>2, <2>3
  <1>6. Language(rest, next, held)
    <2> SUFFICES ASSUME held # None PROVE Language(rest, next, held)
      BY DEF Language
    <2>1. CASE \E o \in edits : /\ Opens(o.msg) /\ o.msg.lang = held.lang
                                /\ \A z \in edits : z.id > o.id => Changes(z.msg)
      <3>1. PICK o \in edits : /\ Opens(o.msg) /\ o.msg.lang = held.lang
                               /\ \A z \in edits : z.id > o.id => Changes(z.msg)
        BY <2>1
      <3>2. CASE o = x
        <4>1. \A z \in rest : Changes(z.msg)
          BY <1>1, <3>1, <3>2
        <4>2. next # None /\ next.lang = held.lang
          BY <3>1, <3>2, EditKinds DEF Stores
        <4> QED
          BY <4>1, <4>2 DEF Language
      <3>3. CASE o # x
        BY <3>1, <3>3 DEF Language
      <3> QED
        BY <3>2, <3>3
    <2>2. CASE /\ \A z \in edits : Changes(z.msg)
               /\ stored # None /\ stored.lang = held.lang
      BY <2>2 DEF Language, Stores
    <2> QED
      BY <2>1, <2>2 DEF Story, Language
  <1> QED
    BY <1>4, <1>5, <1>6 DEF Story
-----------------------------------------------------------------------------
(* The edits in flight that have still to reach the store; the handler of  *)
(* a didOpen stores at once, that of a didChange when it ends.             *)
EditOf(msg, u) == (Opens(msg) \/ Changes(msg) \/ Closes(msg)) /\ msg.uri = u

Begun == {j.id : j \in {k \in running : Opens(k.msg) /\ k.pc # "start"}}

Pending(u) ==
    {[id |-> m.id, msg |-> m.msg] :
        m \in {n \in InFlight : EditOf(n.msg, u) /\ n.id \notin Begun}}

Told == \A u \in URIs : Story(Pending(u), docs[u], editor[u])

(* Tree and index are those of a document the feature has been given.      *)
Unanalysed(u) ==
    \/ docs[u] = None \/ docs[u].lang # Cisco
    \/ \E j \in running : j.pc = "parse" /\ j.msg.uri = u

Untouched == \A u \in URIs : Unanalysed(u) => trees[u] = None /\ symbols[u] = None

(* The loop over the content changes of a didChange ends with the last.    *)
InHand ==
    \A j \in running : Changes(j.msg) /\ j.pc # "start" =>
        /\ j.left # <<>> /\ j.left[Len(j.left)] = Final(j.msg)
        /\ j.pc \in {"reparse", "index"} =>
             docs[j.msg.uri].text = Head(j.left) /\ docs[j.msg.uri].version = j.id

(* The one feature is there until the server is shut down.                 *)
Featured ==
    /\ registered \subseteq {Cisco}
    /\ state # "ShutDown" => registered = {Cisco}
    /\ \A j \in running : j.pc = "teardown" => state = "ShutDown"

(* There is one initialize, and by the time a shutdown is handled all that *)
(* was sent before has been.                                               *)
Greeted ==
    /\ phase = "fresh" => nsent = 0
    /\ phase = "greeting" => nsent = 1
    /\ phase \in {"session", "leaving"} =>
         \A m \in InFlight : m.msg.method # "initialize"
    /\ state = "ShutDown" =>
         \A m \in InFlight : m.msg.method # "initialize" /\ ~IsNotification(m.msg)

Mirror == Told /\ Untouched /\ InHand /\ Featured /\ Greeted /\ orphans = 0

MInv == IInv /\ OInv /\ Courtesy /\ Mirror

-----------------------------------------------------------------------------
(* At the start nothing is stored, held or pending.                        *)
LEMMA InitMInv == Init => MInv
  <1> SUFFICES ASSUME Init PROVE MInv
    OBVIOUS
  <1>1. IInv /\ OInv
    BY InitIInv, InitOInv
  <1> USE DEF Init, ServerInit, FeatureInit
  <1>2. InFlight = {} /\ Assigned = {}
    BY DEF InFlight, Assigned, InProgress
  <1>3. Courtesy
    BY <1>2 DEF Courtesy
  <1>4. \A u \in URIs : Pending(u) = {}
    BY <1>2 DEF Pending
  <1>5. Story({}, None, None)
    BY DEF Story, Chain, Latest, Settled, Language
  <1>6. Told
    BY <1>4, <1>5 DEF Told
  <1>7. Untouched /\ InHand /\ Featured /\ Greeted
    BY <1>2 DEF Untouched, Unanalysed, InHand, Featured, Greeted
  <1> QED
    BY <1>1, <1>3, <1>6, <1>7 DEF MInv, Mirror

(* The messages of the editing methods are notifications with a document.  *)
LEMMA EditMessages ==
  ASSUME NEW msg \in Message
  PROVE  /\ Opens(msg) \/ Changes(msg) \/ Closes(msg) => msg.uri \in URIs /\ IsNotification(msg)
         /\ Changes(msg) => msg.texts \in Seq(Texts)
  BY MessageParts DEF Opens, Changes, Closes, IsNotification, Notifications

(* No two messages in flight have the same number as the one handled, and  *)
(* no other notification is older.                                         *)
LEMMA OthersLater ==
  ASSUME IInv, OInv, NEW j \in running, NEW m \in InFlight, m # j
  PROVE  /\ m.id # j.id
         /\ IsNotification(j.msg) /\ IsNotification(m.msg) => j.id < m.id
  <1>1. j \in InProgress /\ j \in InFlight
    BY DEF InProgress, InFlight, Assigned
  <1>2. j.id \in Nat /\ m.id \in Nat
    BY <1>1, FlightType DEF IInv
  <1>3. CASE m \in InProgress
    <2>1. m.id # j.id
      BY <1>1, <1>3 DEF OInv, OnePlace
    <2>2. IsNotification(m.msg) => j.id <= m.id
      BY <1>1, <1>3 DEF OInv, InOrder
    <2> QED
      BY <1>2, <2>1, <2>2
  <1>4. CASE m \in inbox \cup ({slot} \ {None})
    <2>1. j.id < m.id
      BY <1>1, <1>4 DEF OInv, InOrder
    <2> QED
      BY <1>2, <2>1
  <1> QED
    BY <1>3, <1>4 DEF InFlight, Assigned

(* Two messages in flight with one number are the same.                    *)
LEMMA NumbersName ==
  ASSUME IInv, OInv, NEW m \in InFlight, NEW n \in InFlight, m.id = n.id
  PROVE  m = n
  <1>1. m.id \in Nat
    BY FlightType DEF IInv
  <1>2. CASE m \in InProgress /\ n \in InProgress
    BY <1>2 DEF OInv, OnePlace
  <1>3. CASE m \in inbox /\ n \in inbox
    BY <1>3 DEF OInv, OnePlace
  <1>4. ~(m \in InProgress /\ n \in inbox \cup ({slot} \ {None}))
    BY <1>1 DEF OInv, InOrder
  <1>5. ~(n \in InProgress /\ m \in inbox \cup ({slot} \ {None}))
    BY <1>1 DEF OInv, InOrder
  <1>6. slot # None => ~(m = slot /\ n \in inbox) /\ ~(n = slot /\ m \in inbox)
    BY <1>1 DEF OInv, InOrder
  <1> QED
    BY <1>2, <1>3, <1>4, <1>5, <1>6 DEF InFlight, Assigned

(* What is pending are edits, each with its number.                        *)
LEMMA PendingType ==
  ASSUME IInv, OInv, NEW u
  PROVE  /\ Pending(u) \in SUBSET Edit
         /\ \A x, y \in Pending(u) : x.id = y.id => x = y
         /\ \A x \in Pending(u) : x.id <= nsent
  <1>1. \A m \in InFlight : m.id \in Nat /\ m.msg \in Message /\ m.id <= nsent
    BY FlightType DEF IInv, OInv, Numbered, TypeOK
  <1>2. Pending(u) \in SUBSET Edit /\ \A x \in Pending(u) : x.id <= nsent
    BY <1>1 DEF Pending, Edit, EditOf
  <1>3. ASSUME NEW x \in Pending(u), NEW y \in Pending(u), x.id = y.id PROVE x = y
    <2>1. PICK m \in InFlight : x = [id |-> m.id, msg |-> m.msg]
      BY DEF Pending
    <2>2. PICK n \in InFlight : y = [id |-> n.id, msg |-> n.msg]
      BY DEF Pending
    <2>3. m = n
      BY <1>3, <2>1, <2>2, NumbersName
    <2> QED
      BY <2>1, <2>2, <2>3
  <1> QED
    BY <1>2, <1>3

(* Moving messages about leaves the same edits pending.                    *)
LEMMA SamePending ==
  ASSUME IInv, Begun' = Begun,
         \A m \in InFlight : IsNotification(m.msg) =>
            \E n \in InFlight' : n.id = m.id /\ n.msg = m.msg,
         \A n \in InFlight' : \E m \in InFlight : m.id = n.id /\ m.msg = n.msg
  PROVE  \A u : Pending(u)' = Pending(u)
  <1> SUFFICES ASSUME NEW u PROVE Pending(u)' = Pending(u)
    OBVIOUS
  <1>1. ASSUME NEW x \in Pending(u) PROVE x \in Pending(u)'
    <2>1. PICK m \in InFlight : /\ x = [id |-> m.id, msg |-> m.msg]
                                /\ EditOf(m.msg, u) /\ m.id \notin Begun
      BY DEF Pending
    <2>2. IsNotification(m.msg)
      BY <2>1, FlightType, EditMessages DEF IInv, EditOf
    <2>3. PICK n \in InFlight' : n.id = m.id /\ n.msg = m.msg
      BY <2>2
    <2> QED
      BY <2>1, <2>3 DEF Pending
  <1>2. ASSUME NEW x \in Pending(u)' PROVE x \in Pending(u)
    <2>1. PICK n \in InFlight' : /\ x = [id |-> n.id, msg |-> n.msg]
                                 /\ EditOf(n.msg, u) /\ n.id \notin Begun'
      BY DEF Pending
    <2>2. PICK m \in InFlight : m.id = n.id /\ m.msg = n.msg
      OBVIOUS
    <2> QED
      BY <2>1, <2>2 DEF Pending
  <1> QED
    BY <1>1, <1>2
-----------------------------------------------------------------------------
(* Steps of the editor and the dispatcher.                                 *)

(* An edit sent is pending, and goes on with the story of its document.    *)
LEMMA SendMirror ==
  ASSUME MInv, Discipline = "conforming", NEW msg \in Message, Send(msg)
  PROVE  Mirror'
  <1> USE DEF MInv, Mirror
  <1> DEFINE e == [id |-> nsent + 1, msg |-> msg, seen |-> SeenBy(msg)]
             x == [id |-> nsent + 1, msg |-> msg]
  <1>1. /\ Polite(msg) /\ inbox' = inbox \cup {e} /\ phase' = PhaseAfter(msg)
        /\ nsent' = nsent + 1 /\ editor' = EditorAfter(msg, nsent + 1)
        /\ UNCHANGED <<slot, issued, running, finished, state, docs, registered, trees,
                       symbols, orphans>>
    BY DEF Send, jobVars, serverVars, featureVars
  <1>2. InFlight' = InFlight \cup {e} /\ Begun' = Begun
    BY <1>1 DEF InFlight, Assigned, InProgress, Begun
  <1>3. nsent \in Nat /\ e.id = nsent + 1 /\ e.msg = msg
    BY DEF IInv, TypeOK
  <1>4. nsent + 1 \notin Begun
    <2>1. \A j \in running : j.id \in 1..nsent
      BY DEF OInv, Numbered, InFlight, Assigned, InProgress
    <2> QED
      BY <1>3, <2>1 DEF Begun
  <1> HIDE DEF e
  <1>5. ASSUME NEW u \in URIs, EditOf(msg, u)
        PROVE  Story(Pending(u)', docs[u], editor'[u])
    <2>1. Pending(u)' = Pending(u) \cup {x}
      BY <1>2, <1>3, <1>4, <1>5 DEF Pending
    <2>2. x \in Edit /\ x.id = nsent + 1 /\ x.msg = msg
      BY <1>3, <1>5 DEF Edit, EditOf
    <2>3. editor[u] \in Document \cup {None} /\ Story(Pending(u), docs[u], editor[u])
      BY DEF IInv, TypeOK, Told
    <2>4. \A z \in Pending(u) : z.id < x.id
      BY <1>3, <2>2, PendingType DEF Edit
    <2>5. /\ msg.uri = u
          /\ Opens(msg) => editor[u] = None
          /\ Changes(msg) => editor[u] # None /\ msg.texts # <<>> /\ msg.texts \in Seq(Texts)
      BY <1>1, <1>5, EditMessages DEF EditOf, Opens, Changes, Polite
    <2>6. editor'[u] = HeldAfter(x, editor[u])
      <3>1. editor \in [URIs -> Document \cup {None}]
        BY DEF IInv, TypeOK
      <3> QED
        BY <1>1, <1>5, <2>2, <2>5, <3>1
        DEF EditorAfter, HeldAfter, EditOf, Opens, Changes, Closes, Final
    <2> HIDE DEF x
    <2>7. Story(Pending(u) \cup {x}, docs[u], HeldAfter(x, editor[u]))
      BY <2>2, <2>3, <2>4, <2>5, PendingType, StoryGoesOn
    <2> QED
      BY <2>1, <2>6, <2>7
  <1>6. ASSUME NEW u \in URIs, ~EditOf(msg, u)
        PROVE  Story(Pending(u)', docs[u], editor'[u])
    <2>1. Pending(u)' = Pending(u)
      BY <1>2, <1>3, <1>6 DEF Pending
    <2>2. editor'[u] = editor[u]
      <3>1. editor \in [URIs -> Document \cup {None}]
        BY DEF IInv, TypeOK
      <3> QED
        BY <1>1, <1>6, <3>1 DEF EditorAfter, EditOf, Opens, Changes, Closes
    <2> QED
      BY <2>1, <2>2 DEF Told
  <1>7. Told'
    BY <1>1, <1>5, <1>6 DEF Told
  <1>8. Greeted'
    <2>1. /\ msg.method = "initialize" <=> phase = "fresh"
          /\ phase \in {"fresh", "session"}
      BY <1>1 DEF Polite
    <2>2. state' # "ShutDown"
      BY <1>1, <2>1 DEF Courtesy
    <2>3. phase' \in {"greeting", "session", "leaving"} /\ (phase' = "greeting" => phase = "fresh")
      BY <1>1, <2>1 DEF PhaseAfter
    <2>4. phase = "fresh" => phase' = "greeting"
      BY <1>1, <2>1 DEF PhaseAfter
    <2> QED
      BY <1>1, <1>2, <1>3, <2>1, <2>2, <2>3, <2>4 DEF Greeted
  <1> QED
    BY <1>1, <1>7, <1>8 DEF Untouched, Unanalysed, InHand, Featured

(* The dispatcher and the transport move messages about, and touch neither *)
(* the documents nor the feature.                                          *)
Moved ==
    /\ UNCHANGED <<docs, editor, trees, symbols, orphans, registered, state, nsent>>
    /\ running \subseteq running' /\ \A k \in running' : k \in running \/ k.pc = "start"
    /\ \A m \in InFlight : IsNotification(m.msg) =>
          \E n \in InFlight' : n.id = m.id /\ n.msg = m.msg
    /\ \A n \in InFlight' : \E m \in InFlight : m.id = n.id /\ m.msg = n.msg
    /\ \/ phase' = phase
       \/ /\ phase = "greeting" /\ phase' = "session"
          /\ \A m \in InFlight : m.msg.method # "initialize"

(* Taking the oldest message moves it to the slot.                         *)
LEMMA AssignMoves ==
  ASSUME IInv, OInv, Assign
  PROVE  Moved
  <1>1. PICK e \in inbox :
          /\ inbox' = inbox \ {e}
          /\ slot' = [id |-> e.id, msg |-> e.msg, seen |-> e.seen,
                      verdict |-> Gate(e.msg.method), pc |-> "start", left |-> <<>>]
    BY DEF Assign
  <1>2. /\ slot = None
        /\ UNCHANGED <<issued, running, docs, editor, trees, symbols, orphans, registered,
                       state, nsent, phase>>
    BY DEF Assign, jobVars, serverVars, editorVars, featureVars
  <1>3. slot'.id = e.id /\ slot'.msg = e.msg
    BY <1>1
  <1>4. slot' # None
    <2>1. slot' \in Job
      BY <1>1, NothingLeft DEF Job, Pcs, Gate, Verdicts, IInv, TypeOK, Envelope
    <2> QED
      BY <2>1, SessionAssumption
  <1>5. InFlight = inbox \cup InProgress /\ InFlight' = (inbox \ {e}) \cup InProgress \cup {slot'}
    BY <1>1, <1>2, <1>4 DEF InFlight, Assigned, InProgress
  <1> QED
    BY <1>1, <1>2, <1>3, <1>5 DEF Moved

(* The other moves.                                                        *)
LEMMA DispatchMoves ==
  ASSUME IInv, Disconnect \/ Issue \/ \E j \in issued : Acquire(j) \/ Abandon(j)
  PROVE  Moved
  <1>1. /\ UNCHANGED <<docs, editor, trees, symbols, orphans, registered, state, nsent, phase>>
        /\ running \subseteq running' /\ \A k \in running' : k \in running \/ k.pc = "start"
    BY DEF Disconnect, Issue, Acquire, Abandon, jobVars, serverVars, editorVars, featureVars,
           IInv, FreshJobs, Unstarted
  <1>2. /\ InFlight' \subseteq InFlight
        /\ \A m \in InFlight : IsNotification(m.msg) => m \in InFlight'
    BY DEF Disconnect, Issue, Acquire, Abandon, jobVars, InFlight, Assigned, InProgress
  <1> QED
    BY <1>1, <1>2 DEF Moved

(* The reply delivered to a greeting is that of the one initialize there   *)
(* is.                                                                     *)
LEMMA DeliverMoves ==
  ASSUME MInv, NEW j \in finished, Deliver(j)
  PROVE  Moved
  <1> USE DEF MInv, Mirror
  <1>1. /\ UNCHANGED <<inbox, slot, issued, running, docs, editor, trees, symbols, orphans,
                       registered, state, nsent>>
        /\ phase' = phase \/ (phase = "greeting" /\ phase' = "session")
    BY DEF Deliver, serverVars, dispatchVars, featureVars
  <1>2. InFlight' = InFlight
    BY <1>1 DEF InFlight, Assigned, InProgress
  <1>3. ASSUME phase = "greeting", NEW m \in InFlight PROVE FALSE
    <2>1. nsent = 1 /\ j.id \in 1..nsent /\ m.id \in 1..nsent
      BY <1>3 DEF Greeted, OInv, Numbered
    <2>2. j.id = 1 /\ m.id = 1
      BY <2>1
    <2>3. m \notin InProgress
      BY <2>2 DEF OInv, OnePlace
    <2>4. m \notin inbox \cup ({slot} \ {None})
      BY <2>2 DEF OInv, InOrder
    <2> QED
      BY <2>3, <2>4 DEF InFlight, Assigned
  <1> QED
    BY <1>1, <1>2, <1>3 DEF Moved

(* What only moves messages changes none of the stories.                   *)
LEMMA MovedMirror ==
  ASSUME MInv, Moved
  PROVE  Mirror'
  <1> USE DEF MInv, Mirror, Moved
  <1>1. Begun' = Begun
    BY DEF Begun
  <1>2. \A u : Pending(u)' = Pending(u)
    BY <1>1, SamePending
  <1>3. Told'
    BY <1>2 DEF Told
  <1>4. Untouched' /\ InHand' /\ Featured'
    BY DEF Untouched, Unanalysed, InHand, Featured
  <1>5. Greeted'
    BY DEF Greeted
  <1> QED
    BY <1>3, <1>4, <1>5
-----------------------------------------------------------------------------
(* The handlers and the stories.                                           *)

(* The edit a handler has in hand, and whether it is still pending.        *)
Hand(j) == [id |-> j.id, msg |-> j.msg]
Held(j) == (Opens(j.msg) /\ j.pc = "start") \/ Changes(j.msg) \/ Closes(j.msg)

(* The three methods are different ones.                                   *)
LEMMA EditMethods ==
  ASSUME NEW msg
  PROVE  /\ ~(Opens(msg) /\ Changes(msg)) /\ ~(Opens(msg) /\ Closes(msg))
         /\ ~(Changes(msg) /\ Closes(msg))
  BY DEF Opens, Changes, Closes

(* The handler that runs has begun its didOpen, or its edit is pending.    *)
LEMMA BegunIs ==
  ASSUME IInv, NEW j \in running
  PROVE  Begun = IF Opens(j.msg) /\ j.pc # "start" THEN {j.id} ELSE {}
  <1>1. running = {j}
    BY OnlyJob
  <1> QED
    BY <1>1 DEF Begun

(* A handler that goes on keeps its edit pending, unless it is a didOpen   *)
(* that has just begun.                                                    *)
LEMMA GoOnPending ==
  ASSUME IInv, OInv, NEW j \in running, UNCHANGED <<dispatchVars, editorVars>>,
         GoesOn(j), \A k \in running' : k.pc # "start",
         Opens(j.msg) => j.pc # "start"
  PROVE  \A u : Pending(u)' = Pending(u)
  <1>1. PICK k \in Job : k.id = j.id /\ k.msg = j.msg /\ running' = {k} /\ k.pc # "start"
    BY DEF GoesOn
  <1>2. Begun' = IF Opens(j.msg) THEN {j.id} ELSE {}
    BY <1>1 DEF Begun
  <1>3. Begun' = Begun
    BY <1>2, BegunIs
  <1> QED
    BY <1>3, GoesOnQueued, SamePending

(* One that returns, or begins a didOpen, leaves the other edits pending.  *)
LEMMA HandledPending ==
  ASSUME IInv, OInv, NEW j \in running, UNCHANGED <<dispatchVars, editorVars>>,
         \/ Return(j)
         \/ GoesOn(j) /\ Opens(j.msg) /\ j.pc = "start" /\ \A k \in running' : k.pc # "start"
  PROVE  \A u : Pending(u)' = Pending(u) \ {Hand(j)}
  <1> SUFFICES ASSUME NEW u PROVE Pending(u)' = Pending(u) \ {Hand(j)}
    OBVIOUS
  <1>1. ASSUME NEW x \in Pending(u)' PROVE x \in Pending(u) \ {Hand(j)}
    <2>1. PICK n \in InFlight' : /\ x = [id |-> n.id, msg |-> n.msg]
                                 /\ EditOf(n.msg, u) /\ n.id \notin Begun'
      BY DEF Pending
    <2>2. PICK m \in InFlight : m.id = n.id /\ m.msg = n.msg /\ m.id # j.id
      <3>1. CASE Return(j)
        <4>1. n \in InFlight /\ n # j
          BY <3>1, ReturnQueued
        <4> QED
          BY <4>1, OthersLater
      <3>2. CASE GoesOn(j) /\ Opens(j.msg) /\ \A k \in running' : k.pc # "start"
        <4>1. j.id \in Begun'
          BY <3>2 DEF GoesOn, Begun
        <4>2. PICK m \in InFlight : m.id = n.id /\ m.msg = n.msg
          BY <3>2, GoesOnQueued
        <4> QED
          BY <2>1, <4>1, <4>2
      <3> QED
        BY <3>1, <3>2
    <2>3. m.id \notin Begun
      BY <2>2, BegunIs
    <2> QED
      BY <2>1, <2>2, <2>3 DEF Pending, Hand
  <1>2. ASSUME NEW x \in Pending(u) \ {Hand(j)} PROVE x \in Pending(u)'
    <2>1. PICK m \in InFlight : /\ x = [id |-> m.id, msg |-> m.msg]
                                /\ EditOf(m.msg, u) /\ m.id \notin Begun
      BY DEF Pending
    <2>2. m # j
      BY <2>1 DEF Hand
    <2>3. m.id # j.id
      BY <2>2, OthersLater
    <2>4. CASE Return(j)
      <3>1. m \in InFlight' /\ running' = {}
        BY <2>2, <2>4, ReturnQueued
      <3>2. Begun' = {}
        BY <3>1 DEF Begun
      <3> QED
        BY <2>1, <3>1, <3>2 DEF Pending
    <2>5. CASE GoesOn(j)
      <3>1. PICK n \in InFlight' : n.id = m.id /\ n.msg = m.msg
        BY <2>5, GoesOnQueued
      <3>2. Begun' \subseteq {j.id}
        BY <2>5 DEF GoesOn, Begun
      <3> QED
        BY <2>1, <2>3, <3>1, <3>2 DEF Pending
    <2> QED
      BY <2>4, <2>5
  <1> QED
    BY <1>1, <1>2

(* The edit in hand is the oldest of its document.                         *)
LEMMA FirstInHand ==
  ASSUME IInv, OInv, NEW j \in running, Held(j)
  PROVE  /\ j.msg.uri \in URIs
         /\ Hand(j) \in Pending(j.msg.uri)
         /\ \A z \in Pending(j.msg.uri) : j.id <= z.id
  <1>1. j \in InFlight /\ j.msg \in Message /\ j.id \in Nat
    BY FlightType DEF InFlight, Assigned, InProgress, IInv
  <1>2. j.msg.uri \in URIs /\ IsNotification(j.msg)
    BY <1>1, EditMessages DEF Held
  <1>3. Hand(j) \in Pending(j.msg.uri)
    <2>1. j.id \notin Begun /\ EditOf(j.msg, j.msg.uri)
      BY BegunIs, EditMethods DEF Held, EditOf
    <2> QED
      BY <1>1, <2>1 DEF Pending, Hand
  <1>4. ASSUME NEW z \in Pending(j.msg.uri) PROVE j.id <= z.id
    <2>1. PICK m \in InFlight : z = [id |-> m.id, msg |-> m.msg] /\ EditOf(m.msg, j.msg.uri)
      BY DEF Pending
    <2>2. IsNotification(m.msg) /\ m.id \in Nat
      BY <2>1, FlightType, EditMessages DEF IInv, EditOf
    <2>3. m # j => j.id < m.id
      BY <1>2, <2>2, OthersLater
    <2> QED
      BY <1>1, <2>1, <2>2, <2>3
  <1> QED
    BY <1>2, <1>3, <1>4

(* A handler that stores its edit, and is done with it, brings the story   *)
(* of its document forward.                                                *)
LEMMA EditHandled ==
  ASSUME MInv, NEW j \in running, UNCHANGED <<dispatchVars, editorVars>>, Held(j),
         \/ Return(j)
         \/ GoesOn(j) /\ Opens(j.msg) /\ \A k \in running' : k.pc # "start",
         NEW next \in Document \cup {None}, docs' = [docs EXCEPT ![j.msg.uri] = next],
         Stores(Hand(j), docs[j.msg.uri], next)
  PROVE  Told'
  <1> USE DEF MInv, Mirror
  <1>1. /\ docs \in [URIs -> Document \cup {None}] /\ editor \in [URIs -> Document \cup {None}]
        /\ UNCHANGED editor
    BY DEF IInv, TypeOK, ServerTypeOK, editorVars
  <1>2. Opens(j.msg) => j.pc = "start"
    BY EditMethods DEF Held
  <1>3. \A u : Pending(u)' = Pending(u) \ {Hand(j)}
    BY <1>2, HandledPending
  <1>4. ASSUME NEW u \in URIs, u = j.msg.uri
        PROVE  Story(Pending(u)', docs'[u], editor'[u])
    <2>1. /\ Hand(j) \in Pending(u) /\ Hand(j).id = j.id
          /\ \A z \in Pending(u) : Hand(j).id <= z.id
      BY <1>4, FirstInHand DEF Hand
    <2>2. Story(Pending(u), docs[u], editor[u])
      BY DEF Told
    <2>3. Story(Pending(u) \ {Hand(j)}, next, editor[u])
      BY <1>1, <1>4, <2>1, <2>2, PendingType, StoryComesTrue
    <2> QED
      BY <1>1, <1>3, <1>4, <2>3
  <1>5. ASSUME NEW u \in URIs, u # j.msg.uri
        PROVE  Story(Pending(u)', docs'[u], editor'[u])
    <2>1. Hand(j) \notin Pending(u)
      BY <1>5 DEF Pending, Hand, EditOf
    <2>2. Pending(u)' = Pending(u)
      BY <1>3, <2>1
    <2> QED
      BY <1>1, <1>5, <2>2 DEF Told
  <1> QED
    BY <1>4, <1>5 DEF Told

(* A handler without an edit in hand that leaves the store as it is, or    *)
(* one that goes on with its edit, leaves the stories as they are.         *)
LEMMA OthersTold ==
  ASSUME MInv, NEW j \in running, UNCHANGED <<dispatchVars, editorVars, docs>>,
         \/ Return(j) /\ ~Held(j)
         \/ GoesOn(j) /\ (Opens(j.msg) => j.pc # "start") /\ \A k \in running' : k.pc # "start"
  PROVE  Told'
  <1> USE DEF MInv
  <1>1. \A u : Pending(u)' = Pending(u)
    <2>1. CASE Return(j) /\ ~Held(j)
      <3>1. ASSUME NEW u, Hand(j) \in Pending(u) PROVE FALSE
        <4>1. PICK m \in InFlight : /\ m.id = j.id /\ m.msg = j.msg
                                    /\ EditOf(m.msg, u) /\ m.id \notin Begun
          BY <3>1 DEF Pending, Hand
        <4> QED
          BY <2>1, <4>1, BegunIs DEF Held, EditOf
      <3> QED
        BY <2>1, <3>1, HandledPending
    <2> QED
      BY <2>1, GoOnPending
  <1> QED
    BY <1>1 DEF Told, Mirror, editorVars

(* A change stored on the way to the last one of its message.              *)
LEMMA StoryMidway ==
  ASSUME NEW edits \in SUBSET Edit, \A y, z \in edits : y.id = z.id => y = z,
         NEW stored, NEW held, Story(edits, stored, held),
         NEW x \in edits, Changes(x.msg), \A z \in edits : x.id <= z.id,
         NEW next, next # None, next.lang = stored.lang
  PROVE  Story(edits, next, held)
  <1>0. \A z \in edits : z.id \in Nat
    BY EditKinds
  <1>1. Chain(edits, next)
    <2> SUFFICES ASSUME NEW z \in edits
                 PROVE  \/ MayFirst(z, next) /\ \A w \in edits : z.id <= w.id
                        \/ \E y \in edits : /\ y.id < z.id /\ MayFollow(z, y)
                                            /\ \A w \in edits : w.id < z.id => w.id <= y.id
      BY DEF Chain
    <2>1. CASE z = x
      BY <2>1, EditMethods DEF MayFirst
    <2>2. CASE z # x
      <3>1. ~(z.id <= x.id)
        BY <1>0, <2>2
      <3> QED
        BY <3>1 DEF Story, Chain
    <2> QED
      BY <2>1, <2>2
  <1>2. Latest(edits, next, held)
    BY DEF Story, Latest
  <1>3. Language(edits, next, held)
    BY DEF Story, Language
  <1> QED
    BY <1>1, <1>2, <1>3 DEF Story
-----------------------------------------------------------------------------
(* The handlers, one by one.                                               *)

(* The job of a handler that goes on.                                      *)
LEMMA GoToJob ==
  ASSUME IInv, NEW j \in running, NEW pc \in Pcs, NEW left \in Seq(Texts), GoTo(j, pc, left)
  PROVE  /\ GoesOn(j)
         /\ \A k \in running' : /\ k.pc = pc /\ k.left = left /\ k.msg = j.msg
                                /\ k.id = j.id /\ k.verdict = j.verdict
  <1>1. GoesOn(j) /\ running' = {[j EXCEPT !.pc = pc, !.left = left]}
    BY GoToGoesOn
  <1>2. j \in Job
    BY OnlyJob
  <1> QED
    BY <1>1, <1>2 DEF Job

(* Nothing is left to apply but for a didChange.                           *)
LEMMA GoToNoneLeft ==
  ASSUME IInv, NEW j \in running, NEW pc \in Pcs, GoTo(j, pc, <<>>)
  PROVE  GoesOn(j) /\ \A k \in running' : k.pc = pc /\ k.msg = j.msg
  <1>1. PICK left \in Seq(Texts) : left = <<>>
    BY NothingLeft
  <1>2. GoTo(j, pc, left)
    BY <1>1
  <1> QED
    BY <1>2, GoToJob

(* While a notification is in flight the server is not shut down, and the  *)
(* gate has let its handler run.                                           *)
LEMMA StillServing ==
  ASSUME MInv, NEW j \in running
  PROVE  /\ j.verdict = "run" /\ j \in InFlight
         /\ IsNotification(j.msg) \/ j.msg.method = "initialize" =>
               state # "ShutDown" /\ registered = {Cisco}
  <1>1. j \in InFlight /\ j \in Assigned
    BY DEF InFlight, Assigned, InProgress
  <1> QED
    BY <1>1 DEF MInv, Mirror, Courtesy, Greeted, Featured

(* A handler's step that does not shut the server down keeps what was said *)
(* of the one initialize and the last shutdown.                            *)
LEMMA HandlerGreeted ==
  ASSUME MInv, NEW j \in running, UNCHANGED <<dispatchVars, editorVars>>,
         GoesOn(j) \/ Return(j), state' = "ShutDown" => state = "ShutDown"
  PROVE  Greeted'
  <1>1. \A m \in InFlight' : \E n \in InFlight : n.msg = m.msg
    BY GoesOnQueued, ReturnQueued DEF MInv
  <1> QED
    BY <1>1 DEF MInv, Mirror, Greeted, editorVars

(* The handler of a shutdown is the last that runs, so there is no         *)
(* notification left.                                                      *)
LEMMA ShutdownGreeted ==
  ASSUME MInv, NEW j \in running, UNCHANGED <<dispatchVars, editorVars>>,
         GoesOn(j) \/ Return(j), j.msg.method = "shutdown"
  PROVE  Greeted'
  <1> USE DEF MInv, Mirror
  <1>1. j \in InFlight /\ j \in InProgress /\ j.id \in Nat
    BY FlightType DEF InFlight, Assigned, InProgress, IInv
  <1>2. phase = "leaving" /\ j.id = nsent
    BY <1>1 DEF Courtesy, IInv, TypeOK, Phases
  <1>3. ASSUME NEW m \in InFlight, IsNotification(m.msg) PROVE FALSE
    <2>1. m # j
      BY <1>3 DEF IsNotification, Notifications
    <2>2. m.id \in 1..nsent /\ m.id # j.id
      BY <2>1, OthersLater DEF OInv, Numbered
    <2>3. CASE m \in InProgress
      <3>1. j.id <= m.id
        BY <1>1, <1>3, <2>3 DEF OInv, InOrder
      <3> QED
        BY <1>1, <1>2, <2>2, <3>1
    <2>4. CASE m \in inbox \cup ({slot} \ {None})
      <3>1. j.id < m.id
        BY <1>1, <2>4 DEF OInv, InOrder
      <3> QED
        BY <1>1, <1>2, <2>2, <3>1
    <2> QED
      BY <2>3, <2>4 DEF InFlight, Assigned
  <1>4. \A m \in InFlight' : \E n \in InFlight : n.msg = m.msg
    BY GoesOnQueued, ReturnQueued
  <1> QED
    BY <1>2, <1>3, <1>4 DEF Greeted, editorVars

(* The handlers that have no document in hand, and those of the queries.   *)
LEMMA OtherMirror ==
  ASSUME MInv, NEW j \in running, UNCHANGED <<dispatchVars, editorVars>>,
         \/ Initialize(j) \/ SetPositionEncoding(j) \/ Initialized(j)
         \/ Shutdown(j) \/ CloseFeatures(j) \/ Query(j) \/ Answer(j)
  PROVE  Mirror'
  <1> USE DEF MInv, Mirror
  <1>1. running = {j} /\ j \in Job /\ Progress(j)
    BY OnlyJob
  <1>2. ~Opens(j.msg) /\ ~Changes(j.msg) /\ ~Closes(j.msg) /\ ~Held(j)
    BY <1>1 DEF Initialize, SetPositionEncoding, Initialized, Shutdown, CloseFeatures, Query,
       Answer, At, Progress, Queries, TreeQueries, SymbolQueries, Opens, Changes, Closes, Held
  <1>3. \/ Return(j)
        \/ \E pc \in {"negotiate", "teardown", "read"} : GoTo(j, pc, <<>>)
    BY DEF Initialize, SetPositionEncoding, Initialized, Shutdown, CloseFeatures, Query, Answer
  <1>4. /\ GoesOn(j) \/ Return(j)
        /\ \A k \in running' : k.msg = j.msg /\ k.pc \in {"negotiate", "teardown", "read"}
    <2>1. CASE Return(j)
      BY <1>1, <2>1, OnlyJob
    <2>2. ASSUME NEW pc \in {"negotiate", "teardown", "read"}, GoTo(j, pc, <<>>)
          PROVE  /\ GoesOn(j)
                 /\ \A k \in running' : k.msg = j.msg /\ k.pc \in {"negotiate", "teardown", "read"}
      <3>1. pc \in Pcs
        BY DEF Pcs
      <3> QED
        BY <2>2, <3>1, GoToNoneLeft
    <2> QED
      BY <1>3, <2>1, <2>2
  <1>5. /\ UNCHANGED <<docs, symbols, orphans>>
        /\ \A u \in URIs : trees'[u] \in {trees[u], None}
    BY DEF Initialize, SetPositionEncoding, Initialized, Shutdown, CloseFeatures, Query,
       Answer, serverVars, featureVars, CloseFeature
  <1>6. Told'
    BY <1>2, <1>4, <1>5, OthersTold
  <1>7. Untouched' /\ InHand'
    BY <1>2, <1>4, <1>5 DEF Untouched, Unanalysed, InHand
  <1>8. CASE Initialize(j)
    <2>1. /\ state' = "Initialized" /\ UNCHANGED registered /\ GoTo(j, "negotiate", <<>>)
          /\ j.msg.method = "initialize"
      BY <1>8 DEF Initialize, At
    <2>2. \A k \in running' : k.pc = "negotiate"
      BY <2>1, GoToNoneLeft DEF Pcs
    <2>3. Featured'
      BY <2>1, <2>2, StillServing DEF Featured
    <2>4. Greeted'
      BY <1>4, <2>1, HandlerGreeted
    <2> QED
      BY <1>5, <1>6, <1>7, <2>3, <2>4
  <1>9. CASE Shutdown(j) \/ CloseFeatures(j)
    <2>1. /\ j.msg.method = "shutdown" /\ state' \in {state, "ShutDown"}
          /\ registered' \in {registered, {}}
          /\ registered' = registered \/ (j.pc = "teardown" /\ state' = state)
          /\ (\E k \in running' : k.pc = "teardown") => state' = "ShutDown"
      BY <1>1, <1>4, <1>9, OnlyJob DEF Shutdown, CloseFeatures, At
    <2>2. Featured'
      BY <1>1, <2>1 DEF Featured
    <2>3. Greeted'
      BY <1>4, <2>1, ShutdownGreeted
    <2> QED
      BY <1>5, <1>6, <1>7, <2>2, <2>3
  <1>10. CASE ~(Initialize(j) \/ Shutdown(j) \/ CloseFeatures(j))
    <2>1. UNCHANGED <<state, registered>>
      BY <1>10 DEF SetPositionEncoding, Initialized, Query, Answer, serverVars
    <2>2. \A k \in running' : k.pc # "teardown"
      BY <1>10, OnlyJob, GoToNoneLeft
      DEF SetPositionEncoding, Initialized, Query, Answer, Pcs
    <2>3. Featured'
      BY <2>1, <2>2 DEF Featured
    <2>4. Greeted'
      BY <1>4, <2>1, HandlerGreeted
    <2> QED
      BY <1>5, <1>6, <1>7, <2>3, <2>4
  <1> QED
    BY <1>8, <1>9, <1>10

(* A document opened replaces none that has been analysed.                 *)
LEMMA DidOpenMirror ==
  ASSUME MInv, NEW j \in running, DidOpen(j), UNCHANGED <<dispatchVars, editorVars>>
  PROVE  Mirror'
  <1> USE DEF MInv, Mirror
  <1> DEFINE u == j.msg.uri
             doc == [lang |-> j.msg.lang, text |-> j.msg.text, version |-> j.id]
  <1>1. /\ Opens(j.msg) /\ j.pc = "start" /\ docs' = [docs EXCEPT ![u] = doc]
        /\ UNCHANGED <<state, registered, trees, symbols, orphans>>
        /\ GoTo(j, "parse", <<>>) \/ Return(j)
    BY DEF DidOpen, At, Opens, featureVars
  <1>2. /\ GoesOn(j) \/ Return(j)
        /\ \A k \in running' : k.pc = "parse" /\ k.msg = j.msg
    <2>1. "parse" \in Pcs
      BY DEF Pcs
    <2>2. CASE Return(j)
      BY <2>2, OnlyJob
    <2>3. CASE GoTo(j, "parse", <<>>)
      BY <2>1, <2>3, GoToNoneLeft
    <2> QED
      BY <1>1, <2>2, <2>3
  <1>3. /\ Held(j) /\ u \in URIs /\ Hand(j) \in Pending(u) /\ Hand(j).msg = j.msg
        /\ Hand(j).id = j.id /\ \A z \in Pending(u) : j.id <= z.id
    BY <1>1, FirstInHand DEF Held, Hand
  <1>4. doc \in Document
    BY <1>1, OnlyJob, MessageParts DEF Job, Opens, Document
  <1>5. Stores(Hand(j), docs[u], doc)
    BY <1>1, <1>3, EditMethods DEF Stores
  <1> HIDE DEF doc
  <1>6. Told'
    BY <1>1, <1>2, <1>3, <1>4, <1>5, EditHandled
  <1>7. Unanalysed(u)
    <2>1. Story(Pending(u), docs[u], editor[u]) /\ Pending(u) \in SUBSET Edit
      BY <1>3, PendingType DEF Told
    <2>2. MayFirst(Hand(j), docs[u])
      <3>1. \A y \in Pending(u) : ~(y.id < j.id)
        BY <1>3, <2>1 DEF Edit
      <3> QED
        BY <1>3, <2>1, <3>1 DEF Story, Chain
    <2> QED
      BY <1>1, <1>3, <2>2 DEF MayFirst, Unanalysed
  <1>8. Untouched'
    <2> SUFFICES ASSUME NEW v \in URIs, Unanalysed(v)'
                 PROVE  trees[v] = None /\ symbols[v] = None
      BY <1>1 DEF Untouched
    <2>1. v # u => Unanalysed(v)
      BY <1>1, <1>2 DEF Unanalysed, IInv, TypeOK, ServerTypeOK
    <2> QED
      BY <1>7, <2>1 DEF Untouched
  <1>9. InHand' /\ Featured'
    BY <1>1, <1>2, EditMethods DEF InHand, Featured
  <1>10. Greeted'
    BY <1>1, <1>2, HandlerGreeted
  <1> QED
    BY <1>1, <1>6, <1>8, <1>9, <1>10

(* The tree of a document opened replaces none.                            *)
LEMMA ParseMirror ==
  ASSUME MInv, NEW j \in running, Parse(j), UNCHANGED <<dispatchVars, editorVars>>
  PROVE  Mirror'
  <1> USE DEF MInv, Mirror
  <1> DEFINE u == j.msg.uri
  <1>1. /\ Opens(j.msg) /\ j.pc = "parse" /\ OpenTree(u, docs[u].text)
        /\ UNCHANGED <<state, registered, docs>>
        /\ GoTo(j, "index", <<>>)
    BY DEF Parse, At, Opens, serverVars
  <1>2. /\ GoesOn(j)
        /\ \A k \in running' : k.pc = "index" /\ k.msg = j.msg
    <2>1. "index" \in Pcs
      BY DEF Pcs
    <2> QED
      BY <1>1, <2>1, GoToNoneLeft
  <1>3. /\ u \in URIs /\ Served(u) /\ Unanalysed(u) /\ running = {j}
    BY <1>1, OnlyJob, MessageParts DEF Progress, Job, Opens, Unanalysed
  <1>4. trees[u] = None /\ docs[u].lang = Cisco
    BY <1>3 DEF Untouched, Served, HasFeature, Featured
  <1>5. /\ orphans' = 0 /\ UNCHANGED symbols
        /\ \A v \in URIs : v # u => trees'[v] = trees[v]
    BY <1>1, <1>4 DEF OpenTree, IInv, TypeOK, ServerTypeOK, FeatureTypeOK
  <1>6. Told'
    BY <1>1, <1>2, OthersTold
  <1>7. Untouched'
    <2> SUFFICES ASSUME NEW v \in URIs, Unanalysed(v)'
                 PROVE  trees'[v] = None /\ symbols'[v] = None
      BY DEF Untouched
    <2>1. v # u /\ Unanalysed(v)
      BY <1>1, <1>2, <1>3, <1>4 DEF Unanalysed, Served
    <2> QED
      BY <1>5, <2>1 DEF Untouched
  <1>8. InHand' /\ Featured'
    BY <1>1, <1>2, EditMethods DEF InHand, Featured
  <1>9. Greeted'
    BY <1>1, <1>2, HandlerGreeted
  <1> QED
    BY <1>5, <1>6, <1>7, <1>8, <1>9

(* The last of a sequence is the last of its tail.                         *)
LEMMA TailLast ==
  ASSUME NEW S, NEW s \in Seq(S), Len(s) > 1
  PROVE  Tail(s)[Len(Tail(s))] = s[Len(s)]
  <1>1. s # <<>> /\ Len(s) \in Nat
    BY EmptySeq
  <1>2. /\ Len(Tail(s)) = Len(s) - 1
        /\ \A i \in 1..Len(Tail(s)) : Tail(s)[i] = s[i + 1]
    BY <1>1, HeadTailProperties
  <1>3. Len(s) - 1 \in 1..(Len(s) - 1)
    BY <1>1
  <1> QED
    BY <1>1, <1>2, <1>3

(* Where the loop over the content changes goes on, it has the last change *)
(* still before it; where it ends it has come to it.                       *)
LEMMA LoopGoesOn ==
  ASSUME IInv, NEW j \in running, NextChange(j), j.left # <<>>
  PROVE  \/ Return(j) /\ j.left[Len(j.left)] = Head(j.left)
         \/ /\ GoesOn(j)
            /\ \A k \in running' :
                  /\ k.pc = "change" /\ k.msg = j.msg /\ k.left # <<>>
                  /\ k.left[Len(k.left)] = j.left[Len(j.left)]
  <1>1. j.left \in Seq(Texts) /\ "change" \in Pcs
    BY OnlyJob DEF Job, Pcs
  <1>2. Len(j.left) \in Nat /\ Len(j.left) # 0
    BY <1>1, EmptySeq
  <1>3. CASE Len(j.left) <= 1
    <2>1. Len(j.left) = 1
      <3>1. PICK n \in Nat : n = Len(j.left)
        BY <1>2
      <3>2. n # 0 /\ n <= 1
        BY <1>2, <1>3, <3>1
      <3>3. n = 1
        BY <3>2
      <3> QED
        BY <3>1, <3>3
    <2>2. Head(j.left) = j.left[1]
      BY <1>1, HeadTailProperties
    <2> QED
      BY <1>3, <2>1, <2>2 DEF NextChange
  <1>4. CASE ~(Len(j.left) <= 1)
    <2>1. Len(j.left) > 1
      BY <1>2, <1>4
    <2>2. Tail(j.left) \in Seq(Texts) /\ Tail(j.left) # <<>>
      BY <1>1, <2>1, TailOfLonger
    <2>3. GoTo(j, "change", Tail(j.left))
      BY <1>4 DEF NextChange
    <2>4. Tail(j.left)[Len(Tail(j.left))] = j.left[Len(j.left)]
      BY <1>1, <2>1, TailLast
    <2>5. PICK tail \in Seq(Texts) : tail = Tail(j.left)
      BY <2>2
    <2>6. GoTo(j, "change", tail)
      BY <2>3, <2>5
    <2>7. GoesOn(j) /\ \A k \in running' : k.pc = "change" /\ k.msg = j.msg /\ k.left = tail
      BY <1>1, <2>6, GoToJob
    <2> QED
      BY <2>2, <2>4, <2>5, <2>7
  <1> QED
    BY <1>3, <1>4

(* The edit in hand is one that may come first.                            *)
LEMMA HandMayFirst ==
  ASSUME MInv, NEW j \in running, Held(j)
  PROVE  /\ MayFirst(Hand(j), docs[j.msg.uri])
         /\ Changes(j.msg) => j.msg.texts # <<>>
  <1> DEFINE u == j.msg.uri
  <1>1. /\ u \in URIs /\ Hand(j) \in Pending(u) /\ Hand(j).msg = j.msg /\ Hand(j).id = j.id
        /\ \A z \in Pending(u) : j.id <= z.id
    BY FirstInHand DEF Hand, MInv
  <1>2. Story(Pending(u), docs[u], editor[u]) /\ Pending(u) \in SUBSET Edit
    BY <1>1, PendingType DEF Told, MInv, Mirror
  <1>3. \A y \in Pending(u) : ~(y.id < j.id)
    BY <1>1, <1>2 DEF Edit
  <1> QED
    BY <1>1, <1>2, <1>3 DEF Story, Chain

(* A conforming client changes only what is stored.                        *)
LEMMA DidChangeMirror ==
  ASSUME MInv, NEW j \in running, DidChange(j), UNCHANGED <<dispatchVars, editorVars>>
  PROVE  Mirror'
  <1> USE DEF MInv, Mirror
  <1>1. /\ Changes(j.msg) /\ j.pc = "start" /\ Held(j)
        /\ UNCHANGED <<docs, state, registered, trees, symbols, orphans>>
    BY DEF DidChange, At, Changes, Held, serverVars, featureVars
  <1>2. docs[j.msg.uri] # None /\ j.msg.texts # <<>>
    BY <1>1, HandMayFirst DEF MayFirst, Hand
  <1>3. GoTo(j, "change", j.msg.texts)
    BY <1>2 DEF DidChange
  <1>4. "change" \in Pcs /\ j.msg.texts \in Seq(Texts)
    BY <1>1, OnlyJob, EditMessages DEF Job, Pcs
  <1>5. /\ GoesOn(j)
        /\ \A k \in running' : k.pc = "change" /\ k.msg = j.msg /\ k.left = j.msg.texts
    BY <1>3, <1>4, GoToJob
  <1>6. Told'
    BY <1>1, <1>5, EditMethods, OthersTold
  <1>7. Untouched' /\ Featured'
    BY <1>1, <1>5 DEF Untouched, Unanalysed, Featured
  <1>8. InHand'
    BY <1>2, <1>5 DEF InHand, Final
  <1>9. Greeted'
    BY <1>1, <1>5, HandlerGreeted
  <1> QED
    BY <1>1, <1>6, <1>7, <1>8, <1>9

(* A change stored is on the way to the last of its message, or it is the  *)
(* last, and then the store has the text the editor had sent it for.       *)
LEMMA ApplyChangeMirror ==
  ASSUME MInv, NEW j \in running, ApplyChange(j), UNCHANGED <<dispatchVars, editorVars>>
  PROVE  Mirror'
  <1> USE DEF MInv, Mirror
  <1> DEFINE u == j.msg.uri
             doc == [docs[u] EXCEPT !.text = Head(j.left), !.version = j.id]
  <1>1. /\ Changes(j.msg) /\ j.pc = "change" /\ Held(j) /\ docs' = [docs EXCEPT ![u] = doc]
        /\ UNCHANGED <<state, registered, trees, symbols, orphans>>
    BY DEF ApplyChange, At, Changes, Held, featureVars
  <1>2. /\ j \in Job /\ j.left \in Seq(Texts) /\ j.left # <<>> /\ j.id \in Nat
        /\ u \in URIs /\ docs[u] \in Document /\ docs[u] # None
        /\ docs \in [URIs -> Document \cup {None}]
        /\ j.left[Len(j.left)] = Final(j.msg)
    <2>1. j \in Job /\ j.left \in Seq(Texts) /\ j.id \in Nat
      BY OnlyJob DEF Job
    <2>2. u \in URIs /\ docs \in [URIs -> Document \cup {None}]
      BY <1>1, FirstInHand DEF IInv, TypeOK, ServerTypeOK
    <2>3. docs[u] # None
      BY <1>1, OnlyJob DEF Progress
    <2>4. j.left # <<>> /\ j.left[Len(j.left)] = Final(j.msg)
      BY <1>1 DEF InHand
    <2> QED
      BY <2>1, <2>2, <2>3, <2>4
  <1>3. /\ doc \in Document /\ doc # None /\ doc.lang = docs[u].lang
        /\ doc.text = Head(j.left) /\ doc.version = j.id
    <2>1. Head(j.left) \in Texts
      BY <1>2
    <2> QED
      BY <1>2, <2>1, ServerAssumption DEF Document
  <1> HIDE DEF doc
  <1>4. docs'[u] = doc /\ \A v \in URIs : v # u => docs'[v] = docs[v]
    BY <1>1, <1>2
  <1>5. \/ /\ GoesOn(j) /\ HasFeature(docs[u].lang)
           /\ \A k \in running' : /\ k.pc = "reparse" /\ k.msg = j.msg /\ k.left = j.left
                                  /\ k.id = j.id
        \/ /\ Return(j) /\ j.left[Len(j.left)] = Head(j.left)
        \/ /\ GoesOn(j)
           /\ \A k \in running' :
                 /\ k.pc = "change" /\ k.msg = j.msg /\ k.left # <<>>
                 /\ k.left[Len(k.left)] = j.left[Len(j.left)]
    <2>1. CASE HasFeature(docs[u].lang)
      <3>1. GoTo(j, "reparse", j.left) /\ "reparse" \in Pcs
        BY <2>1 DEF ApplyChange, Pcs
      <3> QED
        BY <1>2, <2>1, <3>1, GoToJob
    <2>2. CASE ~HasFeature(docs[u].lang)
      <3>1. NextChange(j)
        BY <2>2 DEF ApplyChange
      <3> QED
        BY <1>2, <3>1, LoopGoesOn
    <2> QED
      BY <2>1, <2>2
  <1>6. GoesOn(j) \/ Return(j)
    BY <1>5
  <1>7. \A k \in running' : k.pc \notin {"start", "parse", "index", "teardown"} /\ k.msg = j.msg
    BY <1>5, OnlyJob
  <1>8. Told'
    <2>1. CASE Return(j)
      <3>1. Stores(Hand(j), docs[u], doc)
        <4>1. j.left[Len(j.left)] = Head(j.left)
          BY <1>5, <2>1, GoesOnRuns
        <4> QED
          BY <1>1, <1>2, <1>3, <4>1, EditMethods DEF Stores, Hand
      <3> QED
        BY <1>1, <1>3, <2>1, <3>1, EditHandled
    <2>2. CASE GoesOn(j)
      <3>1. \A v : Pending(v)' = Pending(v)
        BY <1>1, <1>7, <2>2, EditMethods, GoOnPending
      <3>2. Story(Pending(u), doc, editor[u])
        <4>1. /\ Hand(j) \in Pending(u) /\ Hand(j).msg = j.msg
              /\ \A z \in Pending(u) : Hand(j).id <= z.id
          BY <1>1, FirstInHand DEF Hand
        <4>2. Story(Pending(u), docs[u], editor[u])
          BY <1>2 DEF Told
        <4> QED
          BY <1>1, <1>3, <4>1, <4>2, PendingType, StoryMidway
      <3> QED
        BY <1>4, <3>1, <3>2 DEF Told, editorVars
    <2> QED
      BY <1>6, <2>1, <2>2
  <1>9. Untouched'
    <2> SUFFICES ASSUME NEW v \in URIs, Unanalysed(v)'
                 PROVE  trees[v] = None /\ symbols[v] = None
      BY <1>1 DEF Untouched
    <2>1. Unanalysed(v)
      BY <1>3, <1>4, <1>7 DEF Unanalysed
    <2> QED
      BY <2>1 DEF Untouched
  <1>10. InHand'
    BY <1>2, <1>3, <1>4, <1>5, OnlyJob DEF InHand
  <1>11. Featured' /\ Greeted'
    BY <1>1, <1>6, <1>7, HandlerGreeted DEF Featured
  <1> QED
    BY <1>1, <1>8, <1>9, <1>10, <1>11

(* The tree of a changed document is that of a document served.            *)
LEMMA ReparseMirror ==
  ASSUME MInv, NEW j \in running, Reparse(j), UNCHANGED <<dispatchVars, editorVars>>
  PROVE  Mirror'
  <1> USE DEF MInv, Mirror
  <1> DEFINE u == j.msg.uri
  <1>1. /\ Changes(j.msg) /\ j.pc = "reparse" /\ ReplaceTree(u, docs[u].text)
        /\ UNCHANGED <<state, registered, docs>>
        /\ GoTo(j, "index", j.left)
    BY DEF Reparse, At, Changes, serverVars
  <1>2. j.left \in Seq(Texts) /\ "index" \in Pcs
    BY OnlyJob DEF Job, Pcs
  <1>3. /\ GoesOn(j)
        /\ \A k \in running' : /\ k.pc = "index" /\ k.msg = j.msg /\ k.left = j.left
                               /\ k.id = j.id
    BY <1>1, <1>2, GoToJob
  <1>4. u \in URIs /\ docs[u] # None /\ docs[u].lang = Cisco
    <2>1. Served(u) /\ j.msg \in Message
      BY <1>1, OnlyJob DEF Progress, Job
    <2> QED
      BY <1>1, <2>1, EditMessages DEF Served, HasFeature, Featured
  <1>5. UNCHANGED <<symbols, orphans>> /\ \A v \in URIs : v # u => trees'[v] = trees[v]
    BY <1>1, <1>4 DEF ReplaceTree, IInv, TypeOK, ServerTypeOK, FeatureTypeOK
  <1>6. Told'
    BY <1>1, <1>3, EditMethods, OthersTold
  <1>7. Untouched'
    <2> SUFFICES ASSUME NEW v \in URIs, Unanalysed(v)'
                 PROVE  trees'[v] = None /\ symbols'[v] = None
      BY DEF Untouched
    <2>1. v # u /\ Unanalysed(v)
      BY <1>1, <1>3, <1>4 DEF Unanalysed
    <2> QED
      BY <1>5, <2>1 DEF Untouched
  <1>8. InHand' /\ Featured'
    BY <1>1, <1>3 DEF InHand, Featured
  <1>9. Greeted'
    BY <1>1, <1>3, HandlerGreeted
  <1> QED
    BY <1>5, <1>6, <1>7, <1>8, <1>9

(* The analysis of a text ends the handling of an edit, or that of a       *)
(* change with others after it.                                            *)
LEMMA IndexMirror ==
  ASSUME MInv, NEW j \in running, IndexAndFinish(j), UNCHANGED <<dispatchVars, editorVars>>
  PROVE  Mirror'
  <1> USE DEF MInv, Mirror
  <1> DEFINE u == j.msg.uri
  <1>1. /\ j.pc = "index" /\ IndexSymbols(u) /\ NextChange(j)
        /\ UNCHANGED <<state, registered, docs>>
    BY DEF IndexAndFinish, serverVars
  <1>2. /\ j \in Job /\ Served(u) /\ j.msg \in Message
        /\ Opens(j.msg) \/ Changes(j.msg)
        /\ Opens(j.msg) => j.left = <<>>
    BY <1>1, OnlyJob DEF Progress, Opens, Changes, Job
  <1>3. /\ u \in URIs /\ docs[u] # None /\ docs[u].lang = Cisco /\ docs[u] \in Document
        /\ docs \in [URIs -> Document \cup {None}]
    <2>1. u \in URIs /\ docs \in [URIs -> Document \cup {None}]
      BY <1>2, EditMessages DEF IInv, TypeOK, ServerTypeOK
    <2> QED
      BY <1>2, <2>1 DEF Served, HasFeature, Featured
  <1>4. UNCHANGED <<trees, orphans>> /\ \A v \in URIs : v # u => symbols'[v] = symbols[v]
    BY <1>1, <1>3 DEF IndexSymbols, IInv, TypeOK, ServerTypeOK, FeatureTypeOK
  <1>5. /\ GoesOn(j) \/ Return(j)
        /\ \A k \in running' : k.pc = "change" /\ k.msg = j.msg
        /\ Told' /\ InHand'
    <2>1. CASE Opens(j.msg)
      <3>1. Return(j)
        <4>1. Len(j.left) = 0
          BY <1>2, <2>1
        <4> QED
          BY <1>1, <4>1 DEF NextChange
      <3>2. ~Held(j) /\ running' = {}
        BY <1>1, <2>1, <3>1, OnlyJob, EditMethods DEF Held
      <3>3. Told'
        BY <1>1, <3>1, <3>2, OthersTold
      <3> QED
        BY <3>1, <3>2, <3>3 DEF InHand
    <2>2. CASE Changes(j.msg)
      <3>1. /\ j.left # <<>> /\ j.left[Len(j.left)] = Final(j.msg) /\ Held(j)
            /\ docs[u].text = Head(j.left) /\ docs[u].version = j.id
        BY <1>1, <2>2 DEF InHand, Held
      <3>2. CASE Return(j)
        <4>1. running' = {} /\ j.left[Len(j.left)] = Head(j.left)
          BY <1>1, <3>1, <3>2, OnlyJob, LoopGoesOn, GoesOnRuns
        <4>2. Stores(Hand(j), docs[u], docs[u])
          BY <1>3, <2>2, <3>1, <4>1, EditMethods DEF Stores, Hand
        <4>3. docs' = [docs EXCEPT ![u] = docs[u]]
          BY <1>1, <1>3
        <4>4. Told'
          BY <1>3, <3>1, <3>2, <4>2, <4>3, EditHandled
        <4> QED
          BY <3>2, <4>1, <4>4 DEF InHand
      <3>3. CASE ~Return(j)
        <4>1. /\ GoesOn(j)
              /\ \A k \in running' :
                    /\ k.pc = "change" /\ k.msg = j.msg /\ k.left # <<>>
                    /\ k.left[Len(k.left)] = j.left[Len(j.left)]
          BY <1>1, <3>1, <3>3, LoopGoesOn
        <4>2. Told'
          BY <1>1, <4>1, OthersTold
        <4>3. InHand'
          BY <3>1, <4>1 DEF InHand
        <4> QED
          BY <4>1, <4>2, <4>3
      <3> QED
        BY <3>2, <3>3
    <2> QED
      BY <1>2, <2>1, <2>2
  <1>6. Untouched'
    <2> SUFFICES ASSUME NEW v \in URIs, Unanalysed(v)'
                 PROVE  trees'[v] = None /\ symbols'[v] = None
      BY DEF Untouched
    <2>1. v # u /\ Unanalysed(v)
      BY <1>1, <1>3, <1>5 DEF Unanalysed
    <2> QED
      BY <1>4, <2>1 DEF Untouched
  <1>7. Featured' /\ Greeted'
    BY <1>1, <1>5, HandlerGreeted DEF Featured
  <1> QED
    BY <1>4, <1>5, <1>6, <1>7

(* A document closed is forgotten, with its tree and its index; one that   *)
(* is only stored stays.                                                   *)
LEMMA DidCloseMirror ==
  ASSUME MInv, NEW j \in running, DidClose(j), UNCHANGED <<dispatchVars, editorVars>>
  PROVE  Mirror'
  <1> USE DEF MInv, Mirror
  <1> DEFINE u == j.msg.uri
             served == docs[u] # None /\ docs[u].lang = Cisco
             next == IF served THEN None ELSE docs[u]
  <1>1. /\ Closes(j.msg) /\ Held(j) /\ Return(j) /\ running' = {}
        /\ IsNotification(j.msg) /\ UNCHANGED <<state, registered>>
    BY OnlyJob DEF DidClose, At, Closes, Held, IsNotification, Notifications
  <1>2. /\ u \in URIs /\ docs \in [URIs -> Document \cup {None}]
        /\ HasFeature(docs[u].lang) <=> docs[u].lang = Cisco
    BY <1>1, FirstInHand, StillServing DEF HasFeature, IInv, TypeOK, ServerTypeOK
  <1>3. /\ docs' = [docs EXCEPT ![u] = next]
        /\ next \in Document \cup {None}
    BY <1>2 DEF DidClose
  <1>4. Stores(Hand(j), docs[u], next)
    BY <1>1, EditMethods DEF Stores, Hand
  <1>5. Told'
    BY <1>1, <1>3, <1>4, EditHandled
  <1>6. /\ UNCHANGED orphans
        /\ served => trees'[u] = None /\ symbols'[u] = None
        /\ ~served => UNCHANGED <<trees, symbols>>
        /\ \A v \in URIs : v # u => trees'[v] = trees[v] /\ symbols'[v] = symbols[v]
    BY <1>2 DEF DidClose, DropDocument, featureVars, IInv, TypeOK, ServerTypeOK, FeatureTypeOK
  <1>7. Untouched'
    <2> SUFFICES ASSUME NEW v \in URIs, Unanalysed(v)'
                 PROVE  trees'[v] = None /\ symbols'[v] = None
      BY DEF Untouched
    <2>1. CASE v = u
      BY <1>2, <1>6, <2>1 DEF Untouched, Unanalysed
    <2>2. CASE v # u
      <3>1. Unanalysed(v)
        BY <1>1, <1>2, <1>3, <2>2 DEF Unanalysed
      <3> QED
        BY <1>6, <2>2, <3>1 DEF Untouched
    <2> QED
      BY <2>1, <2>2
  <1>8. InHand' /\ Featured' /\ Greeted'
    BY <1>1, HandlerGreeted DEF InHand, Featured
  <1> QED
    BY <1>5, <1>6, <1>7, <1>8
-----------------------------------------------------------------------------
(* Every step of a conforming session.                                     *)
LEMMA NextMInv ==
  ASSUME MInv, Discipline = "conforming", [Next]_vars
  PROVE  MInv'
  <1>1. IInv' /\ OInv' /\ Courtesy'
    BY NextIInv, NextOInv, NextCourtesy DEF MInv
  <1> SUFFICES Mirror'
    BY <1>1 DEF MInv
  <1>2. ASSUME NEW msg \in Message, Send(msg) PROVE Mirror'
    BY <1>2, SendMirror
  <1>3. CASE Assign
    BY <1>3, AssignMoves, MovedMirror DEF MInv
  <1>4. CASE Disconnect \/ Issue \/ \E j \in issued : Acquire(j) \/ Abandon(j)
    BY <1>4, DispatchMoves, MovedMirror DEF MInv
  <1>5. ASSUME NEW j \in finished, Deliver(j) PROVE Mirror'
    BY <1>5, DeliverMoves, MovedMirror
  <1>6. CASE Handle
    <2>1. UNCHANGED <<dispatchVars, editorVars>>
      BY <1>6 DEF Handle
    <2>2. PICK j \in running :
            \/ Reject(j) \/ Initialize(j) \/ SetPositionEncoding(j)
            \/ Initialized(j) \/ Shutdown(j) \/ CloseFeatures(j)
            \/ DidOpen(j) \/ Parse(j) \/ DidChange(j) \/ ApplyChange(j)
            \/ Reparse(j) \/ IndexAndFinish(j) \/ DidClose(j)
            \/ Query(j) \/ Answer(j)
      BY <1>6 DEF Handle, HandlerStep
    <2>3. ~Reject(j)
      BY StillServing DEF Reject
    <2>4. CASE \/ Initialize(j) \/ SetPositionEncoding(j) \/ Initialized(j)
               \/ Shutdown(j) \/ CloseFeatures(j) \/ Query(j) \/ Answer(j)
      BY <2>1, <2>4, OtherMirror
    <2>5. CASE DidOpen(j) \/ Parse(j)
      BY <2>1, <2>5, DidOpenMirror, ParseMirror
    <2>6. CASE DidChange(j) \/ ApplyChange(j) \/ Reparse(j)
      BY <2>1, <2>6, DidChangeMirror, ApplyChangeMirror, ReparseMirror
    <2>7. CASE IndexAndFinish(j) \/ DidClose(j)
      BY <2>1, <2>7, IndexMirror, DidCloseMirror
    <2> QED
      BY <2>2, <2>3, <2>4, <2>5, <2>6, <2>7
  <1>7. CASE Exited \/ UNCHANGED vars
    <2>1. Moved
      BY <1>7 DEF Exited, Moved, vars, serverVars, jobVars, featureVars, dispatchVars,
         editorVars, InFlight, Assigned, InProgress
    <2> QED
      BY <2>1, MovedMirror
  <1> QED
    BY <1>2, <1>3, <1>4, <1>5, <1>6, <1>7 DEF Next, ServerStep

(* Between a conforming editor and the server every edit in flight has its *)
(* place in the story of its document.                                     *)
THEOREM StoriesHold == Discipline = "conforming" => (Spec => []MInv)
  <1> SUFFICES ASSUME Discipline = "conforming" PROVE Spec => []MInv
    OBVIOUS
  <1>1. Init => MInv
    BY InitMInv
  <1>2. MInv /\ [Next]_vars => MInv'
    BY NextMInv
  <1> QED
    BY <1>1, <1>2, PTL DEF Spec

(* When nothing is in flight nothing is pending, and the story is at its   *)
(* end.                                                                    *)
LEMMA StoryEnds ==
  ASSUME MInv, Idle, NEW u \in URIs
  PROVE  Settled(docs[u], editor[u])
  <1>1. Pending(u) = {}
    BY DEF Idle, Pending, InFlight, Assigned
  <1>2. Story(Pending(u), docs[u], editor[u])
    BY DEF MInv, Mirror, Told
  <1> QED
    BY <1>1, <1>2 DEF Story, Latest

(* Once every message is handled the server holds the supported documents  *)
(* the editor holds, in their text and version, and no others.             *)
THEOREM Mirrored == Discipline = "conforming" => (Spec => []StoreMirrorsEditor)
  <1> SUFFICES ASSUME Discipline = "conforming" PROVE Spec => []StoreMirrorsEditor
    OBVIOUS
  <1>1. MInv => StoreMirrorsEditor
    <2> SUFFICES ASSUME MInv, Idle, NEW u \in URIs
                 PROVE  /\ editor[u] # None => docs[u] = editor[u]
                        /\ Served(u) => docs[u] = editor[u]
      BY DEF StoreMirrorsEditor
    <2>1. Settled(docs[u], editor[u])
      BY StoryEnds
    <2>2. Served(u) => docs[u] # None /\ docs[u].lang = Cisco
      BY DEF Served, HasFeature, MInv, Mirror, Featured
    <2> QED
      BY <2>1, <2>2 DEF Settled
  <1> QED
    BY <1>1, StoriesHold, PTL

(* Of a document the editor has closed, tree and index are gone once every *)
(* message is handled, and no tree is ever lost.                           *)
THEOREM Released == Discipline = "conforming" => (Spec => []NothingRetained)
  <1> SUFFICES ASSUME Discipline = "conforming" PROVE Spec => []NothingRetained
    OBVIOUS
  <1>1. MInv => NothingRetained
    <2> SUFFICES ASSUME MInv
                 PROVE  /\ orphans = 0
                        /\ Idle => \A u \in URIs : editor[u] = None =>
                              trees[u] = None /\ symbols[u] = None
      BY DEF NothingRetained
    <2>1. ASSUME Idle, NEW u \in URIs, editor[u] = None
          PROVE  trees[u] = None /\ symbols[u] = None
      <3>1. Settled(docs[u], editor[u])
        BY <2>1, StoryEnds
      <3>2. Unanalysed(u)
        BY <2>1, <3>1 DEF Settled, Unanalysed
      <3> QED
        BY <3>2 DEF MInv, Mirror, Untouched
    <2> QED
      BY <2>1 DEF MInv, Mirror
  <1> QED
    BY <1>1, StoriesHold, PTL
=============================================================================
