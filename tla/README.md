# chunt, specified

`chunt` is a language server for Cisco IOS configurations written as Jinja2
templates: a Go program that an editor starts as `chunt serve` and talks to over
stdin and stdout. It keeps the open documents, parses each with tree-sitter,
publishes diagnostics, and answers hover, completion, definition, references and
document-symbol requests.

This directory holds TLA+ specifications of it, the TLC configurations that check
them on small instances, and proofs TLAPS checks for instances of any size.
`PROJECT.json` lists the runs, the theorems, which lines of the source each
definition stands for, a mutant of the code for each property, the findings and
the hazards the properties are there for. Lines below are lines of `src/`;
`cisco/` abbreviates `internal/features/cisco_ios_jinja2/`.

## The system

| part | state | operations | talks to |
|---|---|---|---|
| editor (environment) | the documents it holds, the replies it awaits | sends any message of the protocol at any time, hangs up | jrpc2, by messages |
| jrpc2 (library) | queue, the message taken, handlers waiting and running | takes a message and asks `Assign` for its handler, issues, runs, delivers | calls the server's handlers |
| server, `internal/server` | lifecycle state, position encoding | `Assign` (the gate), Initialize, Shutdown, DidOpen, DidChange, DidClose, five queries | store, router, feature; publishes by a callback |
| document store, `internal/document` | URI to document | Set, Get, Delete; ContentLine and the column converters | called by the server and by completion |
| router, `internal/features` | language to feature | Register, Route, Close | called by the server |
| Cisco feature, `cisco/feature.go` | tree-sitter parser, one tree per URI, symbol table, keyword set | DidOpen, DidChange, DidClose, Close, the queries | called by the server through the router |
| tree diagnostics, `cisco/diagnostics*.go`, `internal/section` | none outside a walk | one walk over the tree: recovery nodes, wrong section, protocol, version | reads tree and keyword set |
| keyword set, `internal/keyword`, `cisco/keyword_overlay.go` | slice, three indexes, section tree | NewSet, AddValidSections, validity questions | read by completion, hover, diagnostics |
| symbol table, `internal/symbols` | two slices and three indexes of pointers per URI | Index, Clear, lookups, SymbolAt, ReferenceAt | written by DidOpen/DidChange/DidClose |
| node at a position, `internal/ast` | none | FindNodeAtPosition, with its fallback to the token before the cursor | called by hover and completion |
| hover and completion, `cisco/hover.go`, `completion.go` | none | the climb to the command and the longest name it spells; what suppresses an offer, the section asked about | read tree, keyword set and, for completion, the stored text |
| navigation, `cisco/definition.go`, `references.go`, `document_symbol.go`, `diagnostics_refs.go` | none | Definition, References, DocumentSymbol, undefined and duplicate names | reads the symbol table |
| command line, `cmd` | none | `serve` wires it all; `check` runs DidOpen once | |

What is hard here:

* **Messages in flight.** The gate looks at the lifecycle state when a message is
  *taken*; its handler runs later. Requests do not hold back what follows them,
  notifications do.
* **A lock-free feature.** Parser and trees are C memory freed on Shutdown, and
  nothing in `feature.go` locks them. Everything rests on `Concurrency: 1` in
  `cmd/serve.go:27` and on the router having been emptied.
* **State that follows other state.** The stored text, the tree, the symbol index
  and what the client displays must be about the same text, with two publishes per
  edit of which the second is sometimes skipped.
* **Two indexes that must agree**: keywords by section and sections by keyword;
  the symbol slice and the pointers into it; a name looked up by kind and by name.
* **Two scales for a column**, in both directions, with clamping and rounding, on
  lines that are cut out of the text in two different ways.
* **Damaged trees.** A hint is suppressed where the parse is unreliable, which is
  only right if something else is reported there.
* **One command, named and placed three times.** Diagnostics, hover and completion each
  work out which command a token belongs to, what it is called and which section it is
  in, by rules of their own.

## The modules

`LspSession` extends `ChuntServer`, which extends `CiscoFeature`: together they are
one state machine, the composition of editor, dispatcher, server and feature.
`LspRefinement` extends it and instantiates `DocumentService`, the abstract
specification, with a refinement mapping. `TreeDiagnostics` and `Cursor` extend
`SyntaxTree`; `Navigation` extends `SymbolTable`. `DocumentPositions` composes
`PositionEncoding` and `TextLines`. Each `MC...` module gives the constants of one
specification their values; each `...Proofs` module holds theorems about the
specification it is named for, `NavigationProofs` also those about the `SymbolTable`
under it, `DocumentPositionsProofs` those about `PositionEncoding` and `TextLines`,
`LspSessionProofs` those about `LspRefinement`. `Recursion` holds the lemmas on
induction, walks and folds that five of them share.

**CiscoFeature** — `cisco/feature.go`. A parse tree and a symbol index are the
text they were built from (`trees`, `symbols`); what the passes find in a text is a
parameter. `OpenTree`, `ReplaceTree`, `IndexSymbols`, `DropDocument` and
`CloseFeature` are the assignments of DidOpen, DidChange, `indexSymbols`, DidClose
and Close; `orphans` counts trees that are overwritten without `Close`, as DidOpen
does with a document that is open already (`feature.go:100`).

**ChuntServer** — the handlers, as steps of a job. A job has the verdict the gate
gave it, a program counter and what is left of the changes of a didChange. A step
ends where the code could be interrupted by another handler with something visible
done: `DidOpen` stores the document, `Parse` parses and publishes the first tier,
`IndexAndFinish` indexes and publishes the full set unless the second tier is
empty. Initialize sets the state in one step and the encoding in the next, because
`setState` and `setPositionEncoding` lock separately; Shutdown sets the state and
then closes the features. A query finds its document and then answers.

**LspSession** — the editor and jrpc2. `Send`, `Disconnect`: the editor.
`Assign` takes the oldest message and asks the gate; `Issue` waits for earlier
notifications; `Acquire` takes the semaphore; `Deliver` writes the reply;
`Abandon` is a cancelled request. The library is not part of this repository: what
is modelled of it is what `assigner.go` and `serve.go` say they rely on.

**DocumentService** — what the server promises the person who edits: documents with a
language and a text, the diagnostics shown, the questions open. An edit is stored and
analysed in one step, a question is answered from the text stored when it is looked up,
the service ends in one step and never comes back, whatever happens to `mode`. There is
no gate, queue, handler, tree, index or second publish in it.

**LspRefinement** — the mapping. An edit takes effect where the server writes its store:
in `DidOpen`, and in every round of DidChange's loop. From there until the full set has
been published, `Shown` is the report that is about to be. The service ends where
`Shutdown` moves the state, a step before the features are closed. A question is open
from the lookup of its document to its answer, about the text of the tree or of the
index that answers it: so the refinement says that the two are the same text.

**KeywordSet** — the loop of `NewSet` an entry at a time, `BuildTree`, the overlay
a name at a time in any order (it is a Go map), `IsValidInSection`, `InSection` and
the two consumers. A section id is the sequence of its segments.

**SymbolTable** — a document is a sequence of header and command nodes; opening,
editing and closing it re-extract and re-index as `Table.Index` and `Table.Clear`
do. Pointers into a slice are places in it, with the slice they point into kept
apart, so that a stale pointer would show.

**Navigation** — Definition, References, DocumentSymbol, and the two diagnostics on
names, as functions of the table. What a comment exempts from a diagnostic
(`BuiltInNames`) is kept apart from what the code exempts (`isBuiltInName`): the
agreement of warning and jump is stated for the other names, and a run of its own
shows that the two are not the same.

**SyntaxTree** — a tree as the sequence of its nodes in the order of a walk, and
`internal/section`: which section and protocol a node is in.

**TreeDiagnostics** — the parser builds a tree node by node (any tree the grammar
or error recovery can build from the kinds that matter); then `Visit` is
`collectTreeDiags` a node at a time.

**Cursor** — the parser fills in the shapes the grammar gives a kind of node and lays
the tokens out, each after one of the gaps it may have before it (a blank, two, a new
line); then the editor asks one query at one position. `FindNodeAtPosition` is the
library's search, modelled from its contract, with the fallback of `node.go:40`. `Hover`
climbs to the command-like node, from a negated command to the command in it, and probes
for the longest name of the database the leading words spell; `Completion` is suppressed
by kinds of node and by the argument test on the text before the cursor, and asks
about the section around the node found. `firstKeywordFromNode`, the probe of the
diagnostics, is here to be compared with hover's.

**VersionCheck** — the version comment and the version statement, edited line by
line; `compareVersions` and the two passes that use it.

**PositionEncoding, TextLines, DocumentPositions** — the loops of `UTF16ToByte` and
`ByteToUTF16` a rune at a time, there and back; `ContentLine` and
`lineUpToCharacter`; and the three together: a position's line cut out of a text,
its column converted on it, and completion cutting the text before it out again.

## The runs

| run | question | bounds |
|---|---|---|
| `any_client` | Whatever is sent, pipelined and in any order: is the session an implementation of the document service; is the feature used after it is freed, do tree, index and view follow the stored text, are answers no older than the editor's text, is nothing done before initialize, and is shutdown final for a client that awaits its replies? | one document, two texts, two languages, 4 messages, one change per didChange; 1.7 million states |
| `conforming_client` | Is a client that keeps to the lifecycle never refused, are its documents mirrored, and is nothing kept of closed ones? | two interchangeable documents, 6 messages, hover as the only query; 2.5 million states |
| `liveness` | Is every request answered, and does the server stop when the client hangs up? | one document, 3 messages, didChange with none, one or two changes, all methods |
| `keyword_set` | Do completion and the hint agree, does a hint tell the truth, is every ancestor in the section tree a prefix, does the overlay only suppress? | 3 entries, 2 names, 5 sections up to four segments deep, one of them below an unknown mode |
| `navigation` | Do lookup, jump, reference list and diagnostics agree? | 3 nodes out of 20 shapes, one per extractor and per form of reference, with those each turns down |
| `position_encoding` | Does the subtraction stay above zero, do columns round down and hit the same token on both scales, do the lines make up the text, does completion read just what is before the cursor? | texts of 3 runes of 1 to 4 bytes or terminators, columns to 13 |
| `tree_diagnostics` | Is what the walk suppresses reported elsewhere, each recovery node once, each unclosed delimiter, each command's protocol? | 5 nodes, 2.3 million states |
| `version_check` | Do versions compare as if padded, do upgrades never raise a hint, does a hint against the configuration come with the mismatch? | versions of 3 components over 0 and 1 and malformed ones, 2 lines |
| `cursor` | Does hover stay near the cursor, does every token of a command hover that command, by the name the diagnostics use, and does completion ask about the section the diagnostics check? | documents of one or two items: an interface with a command or a negated one, an address family in a router, each terminated or not; a command with a quoted argument of two words; a statement whose value may be missing; loose text after a command; a comment that may share its line with a command. Every layout, every position; 289,348 states |
| `shutdown_then_initialize`, `builtin_names`, `cursor_gap` | findings, below | as the run they go with |

Why the bounds are enough. In a session four messages are what the shortest
interesting schedules take: initialize, open, then two that race (a change and a
query, a shutdown and a notification); six let a conforming client open, change,
close and reopen with a second document alongside. The languages include one
without a feature, a text with second-tier diagnostics and one without, so the
skipped publish happens. Three entries give a name two sections and another name
the third. Three nodes give two definitions and a use, or one definition of each
of two walks. A text of three runes holds a CRLF and the rune after it, or a
surrogate pair between two others; 13 columns are one past the longest line of
three runes. Five nodes hold a section, an ERROR in it, and inside that an opener, a
closer and a command. Versions of one to three components over 0 and 1 tell padding,
prefixes and order apart. A document of the `cursor` run has the places where the search
changes its answer: the end of a token, a gap of one or two blanks, the end of a line and
of the text, a token without width that recovery made up, and a section nested in
another. Each property has a mutant of the code, listed in `PROJECT.json`, that
TLC finds within the same bounds.

`any_client` and `liveness` let the client do anything; `conforming_client` does not,
because what it asks is promised only to a client that keeps to the protocol.
Properties of pipelining speak of `pipelined`, a record of whether the editor ever
sent anything while it awaited a reply. `conforming_client` uses symmetry among
documents, which nothing orders; it checks no liveness.

Deadlock is checked everywhere except in `position_encoding`, where a converter
returns and is done, and in `cursor` and `cursor_gap`, where a text is asked one query: a
query changes nothing the next one reads. Elsewhere the end of a session is the action
`Exited`, and the other specifications end in a step that starts over or stutters.

### Fairness

`FairSpec` asks weak fairness of taking a message, issuing one, *some* waiting
handler getting the semaphore, the running handler's next step, and *some* reply being
written. Each is a goroutine that does not wait for the client: the handlers do no
I/O but the publish, which a closed transport fails at once. Nothing is asked of the
editor: it may stop sending or never hang up, which is why answering is promised
"unless the client hangs up" and stopping "once it has". The semaphore
is first come, first served, but with finitely many messages weak fairness of taking
any is enough. No parse or diagnostic pass is assumed to be fast, only to end.

## What is proved

TLAPS checks these for every value of the constants that meets the named
assumptions (`ContentAssumption`, `ServerAssumption`, `SessionAssumption`,
`ContentIsSome`, `KeywordAssumption`, `LinesAssumption`, `ColumnAssumption`, `TextAssumption`,
`VersionAssumption`, `SymbolAssumption`, `NamesAssumption`, `TreeAssumption`,
`GrammarTypes`, `GrammarNodes`, `GrammarNests`, `GrammarLines`), so for any
number of documents, texts, messages, changes in a didChange, sections, entries, runes of
a line or of a text, components of a version, nodes of a document or nodes of a tree. TLC evaluates
the assumptions on each run. Those on trees: a node of a document is a section with at
most one token or a statement of the kinds the extractors know, and the names they find
are names; an ERROR is never MISSING, nor is the root of a tree, and no kind of node is
spelled as the code of a diagnostic.

The grammar is not in this repository, and hover, completion and the diagnostics agree
only because of what it never builds. The four assumptions say what that is, in terms of
the shapes a kind of node may have and of the gaps before a symbol:

| assumption | what it says of the grammar | what in the code relies on it |
|---|---|---|
| `GrammarTypes` | only the root is a config | the climbs to a parent stop there |
| `GrammarNodes` | a node without children has a text, unless recovery made it up; a command starts with a token that is there; a section ends with its eos | `hover.go:83-107` and `diagnostics_section.go:86-116` call a command by its first token |
| `GrammarNests` | what a command is made of has no command or section in it, at any depth; a negated statement is tokens and one command, its `keyword` | `hover.go:51-66` stops at the first command-like node it meets, and calls itself on a `keyword` |
| `GrammarLines` | what has parts never touches what is before it; what follows a command starts a line; so do sections and the eos of one; a generic command is on one line | `node.go:39` compares rows to tell what the cursor is just behind; `hover.go:89` stops reading words at the next row |

**LspSessionProofs.** `Invariance`: `IInv` holds throughout. None of the properties is
inductive alone. That tree and index are those of the stored text is disturbed by
storing, and restored two steps later; to know that it is, one must know that the
handler is the only one (`OneAtATime`, from the concurrency limit), that a handler
waiting for its turn has done nothing yet (`FreshJobs`), and what a handler has
established by the point it has come to (`HandlersInv`: at "index" the tree is
that of the stored text and the first tier is published, at "read" the document is
served). That the parser is open there needs `Lifecycle`: it is freed only with the
registry emptied, and the state is ShutDown only with the registry emptied or about to
be by the one handler that runs. From it follow `TypeCorrect`, `UseAfterClose`,
`Analysed`, `Answered`, `Viewed`, `Quiet` and the action property `Published`.

`OInv` is the order of the messages: numbered as they are sent
(`Numbered`), each in one place (`OnePlace`), taken in that order, and with a
notification handled before anything behind it is issued (`InOrder`). `Awaiting` ties the
replies the editor waits for to the requests in flight, and `Verdict` says what the gate
found of a message can still be relied on when its handler runs: "not initialized" of a
notification means that no document is stored, "shut down" that the feature is gone.
`Fresh` says of each document the editor has open that the version it knows is in the
store, or in a message that will be handled before anything sent later, or that nothing
will be served again. From them: `NotBehind` (no answer from a text older than the one
the editor had when it asked) and, through `Frozen`, `AwaitedIsFinal`. `Courtesy` is what
more is known of a client that keeps to the lifecycle; `Unrefused` follows from it.

Of the refinement: with the two invariants and the fact that nothing but the Cisco
feature is ever registered, each step of a session is a step of the service or leaves it
as it was: `Implements`, the refinement the run `any_client` checks.

The store lags behind the editor by the edits in flight, so that
"the store is what the editor holds" is an invariant of the quiet moments only. `MInv`
tells the story in between: the pending edits of a document are, by number, an
alternation of opening, changing and closing that starts at what is stored and ends at
what is held (`Chain`), the last one leaves what is held (`Latest`), and changes keep the
language (`Language`). `InHand` follows the loop over the content changes of a didChange,
`Untouched` the documents the feature has not been given, `Featured` and `Greeted` the
lifecycle. A step adds an edit at the end of a story (`Send`) or takes the first one off
(the handlers). With no message left the story is empty: `Mirrored`, `Released`.

**KeywordSetProofs.** `IInv` ties the two derived indexes to the slice: every entry is
recorded under its name, and the first section of a name is one of those recorded,
missing only when all its entries are global. From it, `Agreement` (what completion
offers the diagnostic accepts), `Hint` (a hint names a section that is valid and
another one), `Overlaying` and `TypeCorrect`. Of the section tree, `Nearest` proves that
the parent of a section is its longest proper prefix that is itself a section of the
database, whatever segments are missing between, and `Ancestry` that every ancestor the
climb collects is a prefix, by induction on the climb.

**Recursion.** Induction over the natural numbers, as a fact about the set of numbers a
formula holds of: the least number outside would contradict it. From it, that a function
defined by recursion exists and what `FoldLeft` and `FlattenSeq` of the community modules
compute: their value is the last of a chain of steps, one for each element.

**NavigationProofs.** `Current` says of each part of the entry what the extractors and
`buildIndices` make of the stored text; it is inductive because opening, editing and
closing rebuild all of it. What is hard is to say what they make. Each index is a fold
over a slice, and its pointers for a name are exactly the places of that name, in order
(`Enumerates`). Each slice is a concatenation of what the extractors find at each node,
of which no two are at one place, although every node is walked once for sections and
once for statements. From that: `NoStrayPointer`, `ScanEquivalence`, `PlacesAreDistinct`,
and the agreement of the features, `WarningAndJump`, `ReferencesMutual` and
`CanonicalDefinition`.

**TreeDiagnosticsProofs.** `IInv`: parents come before their children (`Shaped`), a
section has one eos (`EosEnds`), and what is collected is the reports on the nodes
visited (`Collected`). Everything else is about trees. The ancestors of a node are a
chain, and the ancestors of one of them are those before it; so one of the ERRORs around
a node is outermost, and is reported: `Surfaced`, `RecoverySurfaced`. What a visit
reports is on the node itself, on an opener under it or on its parent, and `NoRepeats`
goes through the pairs: two visits that report one opener would both be at its outermost
ERROR, two that report one header would be at its eos, of which there is one. `Reaches`
compares the innermost header with the innermost router. `Unclosed` is the stack
matching: for an opener on the stack the openers since outnumber the closers, and in all
by as many as there are openers from it to the top; for one that has left it there was a
token up to which the closers made up for the openers (`Balanced`). An opener is pushed,
a closer pops, any other token passes: each keeps the counts.

What the attempts showed. `ProtocolReaches` was stated without the condition on the
innermost header, which five nodes do not refute: an interface in an ERROR in a router,
an ERROR in the interface, and in that an address family with a command in it take
seven. `Match` and `EnclosingSection` had a CASE whose guards overlap, which TLC resolves
in order and the logic does not. The lookups, and what is left of a text without its
terminators, are now specified by the places a scan finds and by a recursion, and no longer
by a sequence operator that the provers know nothing of.

**DocumentPositionsProofs.** Of the conversions, `IInv` says the loop has not passed its
argument and that a finished loop stands at the boundary the argument rounds down to. With
it and the fact that boundaries are in the same order on both scales: `TypeCorrect`,
`Subtraction` (the unsigned difference never wraps), `Rounding`, `Trip` and `Hits`.
`DocumentsImplement` carries all of it over to the lines of a document.

Of the lines, what matters is where they start: `LineStarts` is the sequence of their
offsets, each the one after the LF of the line before, and at the end of the text from the
last line on (`PastTheEnd`). `LineAt` proves by induction on the lines cut off that
`ContentLine(n)` is the text from offset n to its LF, without a CR; `ScanFinds`, by
induction on the bytes, that the scan of `lineUpToCharacter` finds the same offset and the
same LF. A converted column is on the line, so the two cut out the same bytes:
`ReadsToCursor`, of which the CR a line may end with is the interesting case, and a line
past the end the other. `Terminators` proves that the bytes between the end of a line and
the next are exactly the terminators, so that line by line the text is used up and nothing
of it kept twice; and there are never more lines than bytes and one (`EnoughLines`):
`LinesPartition`. A line starts after an LF and ends before a terminator, so it cuts no rune
in two (`LineProper`), and the loops of the converters, which go on by the width of a first
byte, stop at the end of it: `LinesOfTexts`. So `LinesAssumption`, which the conversions are
proved from, is true of the lines of any text, and not only of those of the run.

**CursorProofs.** `IInv` is what a parser leaves behind: nodes in the order of a walk
(`Ordered`), each the symbol at its place in a shape of its parent (`Made`), laid out one
after another (`LaidOut`), and ended by their last token when all is parsed (`Finished`). An
answer is the one of its handler on that tree (`Answered`). Only the parser disturbs the
rest of it, and the properties are about one finished tree; what is hard is the two searches.

A node and all below it are a run of the walk (`In`); two nodes that are not one in the
other are apart, with everything in the first laid out before anything in the second
(`Diverge`, `Within`, `Beside`). So the child a search goes into is the only one that can
hold what it looks for: the library's search ends at the innermost node around the position
(`SearchEnds`, `Found`), and that for the token before it at the last node reached through
children that have ended (`PrevEnds`). Both are walks to larger and larger numbers, of
which `WalkExists` says that there is one and `WalkEnds` where it stops.

* `Near`: the command, or the negated statement it is in, is around the node found
  (`CommandFound`), so around the cursor; or it ends before the cursor on its line, and
  then nothing is between, since what follows a command starts a line (`NextStartsALine`).
* `OnTheCommand`: a token of a command leads to that command and no other
  (`CommandOfToken`), because nothing a command is made of has a command in it. A generic
  command is on one row (`OneRow`), so that hover reads the same children as the
  diagnostics and both probe the same names (`SameName`).
* `AsChecked`: whichever of the two searches answers, the innermost section around the node
  found is that around the command (`AroundSearch`, `AroundBefore`): a section that is
  terminated goes on after the row its last command ends on (`SectionEnds`), and one that
  follows starts on a later row (`SectionStarts`).

**VersionCheckProofs.** `compareVersions` decides at the first component that differs, or
by the rest of the longer version. `Padded` proves that this is the order of the versions
padded with zeros, which is transitive; from that, `Upgrading`: a keyword that is not too
new for a version is not too new for a later one. `Explained`: a hint that contradicts
the configured version never comes without the mismatch error.

Every theorem names the property it states, and the run checks the same definition,
except `Answered`, `Published`, `Ordered`, `StoriesHold`, `Always`, `Nearest`, `Trip`,
`DocumentsImplement`, `LinesOfTexts` and the `TypeCorrect` of `PositionEncoding`, which no run checks as they stand.

Every invariant and every action property a passing run checks is a theorem here, and so is
the refinement. Only model-checked are the two liveness properties: fairness is a statement
about ENABLED, of which the prover knows nothing.

No module here declares a RECURSIVE operator.

## Findings

Each is a run TLC ends with a counterexample.

* **A dead server is revived** (`shutdown_then_initialize`). The client sends
  initialize, initialize and shutdown and awaits none of the replies. The gate lets both
  initializes through before the first has run, and the shutdown after it. Requests do
  not hold each other back, so the shutdown gets the handler slot before the second
  initialize, although it was sent after it. It ends the service; then the second
  initialize runs and sets the state unconditionally (`initialize.go:18`): later requests
  get results, of a server without features. `assigner.go:60` rules a second initialize
  on a dead server out. An initialize sent *behind* the shutdown and taken while the
  shutdown's handler has yet to run has the same effect, in as many steps. By the same gap a
  didOpen or didChange taken before the shutdown handler runs overwrites the store after
  it, which `assigner.go:28-32` says is prevented.
* **A built-in name is flagged** (`builtin_names`). `diagnostics_refs.go:30-31` says that
  class-default, any and all are never flagged; the table under it (107-111) has
  class-default only, as a class map. On `ip access-group any in` the name any is
  reported as an undefined ACL.
* **A gap that is not the token before it** (`cursor_gap`). `node.go:11-14` promises that
  a position in a gap between two tokens resolves to "the token immediately preceding it
  on the same line [...] rather than an enclosing ancestor". The fallback looks for the
  token before the cursor by going into the last *child that has ended*, and a command or
  section the cursor is in the middle of has not: so the promise is kept only behind the
  last token of a top-level node. Elsewhere the answer is the node around the gap, and
  in a document of one line the root: hover then shows nothing, and completion offers the
  global keywords.

Observed while modelling, with no run of their own:

* `lspSymbolKind` (`document_symbol.go:46`) has no entry for address families and classes
  of a policy map, which are sent with kind 0.
* Where the grammar parses a `class` line of a policy map as a section, Go-To-Definition
  returns the token itself although the class map is defined (`definition.go:27`,
  `symbols.go:659-661`); from the other form of the same line it does not.
* With the cursor at the end of a text whose last section is unterminated the search
  resolves to the root, so completion offers global keywords there; in an empty document
  it offers nothing.
* `hover.go` probes for names of several words on any command-like node,
  `firstKeywordFromNode` on a `command_line` only: on the statements with a kind of their
  own the two can call the same command differently. `TokenHoversItsCommand` compares them
  on command lines.
* `README.md:229` of the repository says that hovering a user-defined name shows nothing; it
  shows the documentation of the command the name is an argument of, as
  `hover_test.go:182-184` expects of any argument.
* `commandNodeForHover` calls itself on the `keyword` of a negated statement; only the
  grammar, which makes that a command, ends the recursion.
* Of two entries with one name `byName` keeps the last and `LookupSection` names the section
  of the first.
* `encoding.go:96-97` says that a location in another document passes through unchanged;
  `encoding.go:105-110` converts it on the lines of the document asked about when the other
  one is not stored. No feature returns one today.
* `symbols.go:277-278` promises document order; `Extract` appends the flat statements
  (hostname, access lists) after all sections. An ACL defined by an `access-list` line and,
  below it, by an `ip access-list` section has the duplicate warning on the line above.
* `DidClose` returns at `text_document_sync.go:77-81`, before `documents.Delete`, when no
  feature is registered for the language: a document of another language stays in the store
  for the life of the process. `StoreMirrorsEditor` is stated with that in mind.
* `sectionHeaderKinds` (`section.go:56`) lacks `redundancy_section`, which the grammar
  emits: a missing terminator in one is an Error and not the Warning of
  `diagnostics_syntax.go:59-61` and of `README.md:28` of the repository, and commands in it
  are looked up in the section around.
* The section tree has nodes only for sections with keywords, so a section without any
  collapses to "config" and not to its nearest ancestor (`completion.go:125-128`). The
  keyword data of this commit has keywords for every section the grammar emits.
* `posEncoding` is "written once" by a comment (`server.go:22-23`); a second initialize
  renegotiates it.
* Repeats of an address family, of a class in two policy maps and of a route map are
  reported as duplicate definitions; tests expect it of route maps only.
* The version mismatch compares text (17.3 differs from 17.3.0), the hint compares numbers
  (they are equal), so a mismatch may come where no hint could; `SkewIsExplained` says only
  that no hint contradicts the configuration without it.
* didClose publishes no empty set, so a client that keeps diagnostics of closed
  documents goes on showing them. `wireDiagnostics` converts related locations in place,
  harmless while a slice is published once.

## Not modelled

* The generated keyword data, `cisco/keywords.go`: 276,000 of the repository's lines, one
  composite literal without behaviour. `KeywordSet` ranges over every small database
  instead. It is most of the source by any count of lines.
* The Markdown hover renders of a keyword and the items completion makes of a snippet.
* The loops that convert each range of an answer (`wireLocations`, `wireDocumentSymbols`,
  `wireDiagnostics`): independent uses of the converters that are modelled.
* `check` (DidOpen once, without a publisher), `version`, the flags, logging and the
  structures of the protocol.
* tree-sitter, its grammar and jrpc2, which are external: the models take from them what the
  code in `src/` relies on.
* A parse that returns no tree, which the library reserves for a parser without a language
  or cancelled; a sign before a version component; the utf-8 encoding, which needs no
  conversion.
* The mutexes of store and symbol table: one handler runs at a time, which is what
  `LspSession` takes from `serve.go`.

## Plan

In order of importance; all but the last are done.

1. `CiscoFeature`, `ChuntServer`, `LspSession`: the session, its safety and liveness, its
   inductive invariant and proofs.
2. `KeywordSet` and its proofs.
3. `SymbolTable`, `Navigation`.
4. `PositionEncoding` and its proofs, `TextLines`, `DocumentPositions`.
5. `TreeDiagnostics`, `VersionCheck`.
6. `Cursor`: the node at a position, hover, completion's place.
7. `DocumentService`, `LspRefinement`: the session implements the service.
8. Proofs of the order of messages, the mirrored store, the refinement, the order of
   versions.
9. Proofs about what walks and folds compute: the ancestors in the section tree, lookups
   and navigation, the reports of the tree walk and the stack matching, the lines of a
   text.
10. Proofs about hover and completion for any tree, from assumptions on the grammar.
11. Left: `Concurrency` above 1, with the locks the feature would then need, is worth a model
    before the limit in `serve.go` is raised.
