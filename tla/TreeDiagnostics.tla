-------------------------- MODULE TreeDiagnostics --------------------------
(***************************************************************************)
(* The one walk over the syntax tree that collects the tree diagnostics    *)
(* (collectTreeDiags): the recovery nodes of the parser, the Jinja         *)
(* delimiters an ERROR swallowed, commands in the wrong section and        *)
(* commands of another routing protocol.                                   *)
(*                                                                         *)
(* The `text` of a command is its leading keyword.  Of what the keyword    *)
(* database says only the verdict matters, which KeywordSet models:        *)
(* Misplaced.                                                              *)
(***************************************************************************)
EXTENDS SyntaxTree

CONSTANTS
    Holds,     \* Holds[kind]: the nodes the grammar, or recovery, puts in one
    Roots,     \* the nodes a tree may start with
    Misplaced, \* Misplaced[keyword]: the sections it is documented not to be in
    MaxNodes   \* a bound on the nodes of a tree

Kinds == {n.kind : n \in Roots \cup UNION {Holds[kind] : kind \in DOMAIN Holds}}
Codes == {"syntax-error", "wrong-section", "protocol-mismatch"}

(* An ERROR is never MISSING, nor is the root; no kind of node is spelled  *)
(* as a diagnostic of another pass.                                        *)
ASSUME TreeAssumption ==
    /\ \A n \in Roots \cup UNION {Holds[kind] : kind \in DOMAIN Holds} :
        n.missing \in BOOLEAN /\ (n.kind = "ERROR" => ~n.missing)
    /\ \A n \in Roots : n.parent = 0 /\ ~n.missing
    /\ Kinds \cap Codes = {}

VARIABLES
    parsed,  \* whether the parser is done
    visited, \* how many nodes the walk has visited
    diags    \* the diagnostics collected

vars == <<tree, parsed, visited, diags>>

Init == tree \in {<<root>> : root \in Roots} /\ parsed = FALSE /\ visited = 0 /\ diags = {}

-----------------------------------------------------------------------------
(* The syntax check.                                                       *)
Error(code, i) == [code |-> code, at |-> i, severity |-> "Error"]

jinjaOpeners == [opener \in {"{{", "{%", "{#"} |->
                   IF opener = "{{" THEN "}}" ELSE IF opener = "{%" THEN "%}" ELSE "#}"]
IsOpener(kind) == kind \in DOMAIN jinjaOpeners
Closers == {jinjaOpeners[opener] : opener \in DOMAIN jinjaOpeners}

(* A fault: a closer the parser made up balances an opener.                *)
MatchMissing(open, n, i) ==
    CASE IsOpener(n.kind) -> [open EXCEPT ![jinjaOpeners[n.kind]] = Append(@, i)]
      [] n.kind \in Closers -> [open EXCEPT ![n.kind] = IF @ = <<>> THEN @ ELSE Front(@)]
      [] OTHER -> open

(* One token of the stack matching, node n at i: open[closer] are the      *)
(* openers that wait for it.  Named nodes and the tokens recovery made up   *)
(* balance nothing.                                                        *)
Match(open, n, i) ==
    IF n.missing THEN open
    ELSE CASE IsOpener(n.kind) -> [open EXCEPT ![jinjaOpeners[n.kind]] = Append(@, i)]
           [] n.kind \in Closers -> [open EXCEPT ![n.kind] = IF @ = <<>> THEN @ ELSE Front(@)]
           [] OTHER -> open

(* The stacks after the tokens of `nodes` at the places `within`.          *)
Stacks(nodes, within) ==
    FoldLeft(LAMBDA open, i : IF i \in within THEN Match(open, nodes[i], i) ELSE open,
             [closer \in Closers |-> <<>>], [i \in DOMAIN nodes |-> i])

(* A fault: the scan runs on behind the ERROR, to the end of the document. *)
unclosedToTheEnd(n) ==
    LET open == Stacks(tree, n + 1..Len(tree))
    IN  UNION {{Error(closer, i) : i \in ToSet(open[closer])} : closer \in Closers}

unclosedJinjaDiagnostics(n) ==
    LET open == Stacks(tree, Descendants(n))
    IN  UNION {{Error(closer, i) : i \in ToSet(open[closer])} : closer \in Closers}

(* A missing eos in a section is a warning on the section's header.        *)
missingDiagnostic(i) ==
    IF tree[i].kind = "eos" /\ IsSectionHeader(parent(i))
    THEN [code |-> "eos", at |-> parent(i), severity |-> "Warning"]
    ELSE Error(tree[i].kind, i)

appendSyntaxDiag(i) ==
    CASE IsError(i) -> {Error("syntax-error", i)} \cup unclosedJinjaDiagnostics(i)
      [] IsMissing(i) -> {missingDiagnostic(i)}
      [] OTHER -> {}

-----------------------------------------------------------------------------
(* The command checks.                                                     *)
nodeKindToProtocol ==
    [aggregate_address_statement |-> "bgp", graceful_restart_statement |-> "bgp",
     auto_cost_statement |-> "ospf", summary_prefix_statement |-> "ospf",
     metric_style_statement |-> "isis"]
keywordToProtocol == [area |-> "ospf"]

(* Of the kinds that end in _statement those that a protocol owns are told *)
(* apart; a negated_statement is not checked, the command in it is.        *)
IsCommandLike(i) == tree[i].kind \in DOMAIN nodeKindToProtocol \cup {"command_line"}

(* A fault: a section that is terminated is taken for one that is not.     *)
hasEos(s) == \E c \in Children(s) : tree[c].kind = "eos"

hasMissingEos(s) == \E c \in Children(s) : IsMissing(c) /\ tree[c].kind = "eos"

(* The parse corrupted the section context of i.                           *)
unreliableSectionContext(i) ==
    LET around == {a \in Ancestors(i) : IsSectionHeader(a)}
    IN  \/ \E a \in Ancestors(i) : IsError(a)
        \/ around # {} /\ hasMissingEos(Innermost(around))

IsMisplaced(i) == EnclosingSection(i).section \in Misplaced[tree[i].text]

appendWrongSection(i) ==
    IF IsMisplaced(i) /\ ~unreliableSectionContext(i)
    THEN {[code |-> "wrong-section", at |-> i, severity |-> "Hint"]} ELSE {}

(* A dedicated kind first, then the leading keyword; "" for the others.     *)
OwningProtocol(i) ==
    LET n == tree[i]
    IN  CASE n.kind \in DOMAIN nodeKindToProtocol -> nodeKindToProtocol[n.kind]
          [] n.kind = "command_line" /\ n.text \in DOMAIN keywordToProtocol ->
                keywordToProtocol[n.text]
          [] OTHER -> ""

appendProtocolMismatch(i) ==
    IF /\ OwningProtocol(i) # ""
       /\ EnclosingSection(i).protocol \notin {"", OwningProtocol(i)}
    THEN {Error("protocol-mismatch", i)} ELSE {}

-----------------------------------------------------------------------------
(* A fault: the flag is not handed down from an ERROR's children to theirs. *)
inErrorNode(i) == parent(i) # 0 /\ IsError(parent(i))

(* The flag the walk hands down.                                           *)
inError(i) == \E a \in Ancestors(i) : IsError(a)

(* What the visit of node i appends, but for the hint on the version a     *)
(* command was introduced in, which depends on nothing here (VersionCheck). *)
Report(i) ==
    (IF inError(i) THEN {} ELSE appendSyntaxDiag(i)) \cup
    (IF IsCommandLike(i)
     THEN appendWrongSection(i) \cup appendProtocolMismatch(i) ELSE {})

(* The parser, outside this repository, makes the tree; the next node in   *)
(* the order of the walk hangs from the last one or from one above it.  A   *)
(* section ends with its eos.                                              *)
Parse ==
    /\ ~parsed /\ Len(tree) < MaxNodes
    /\ \E p \in Ancestors(Len(tree)) \cup {Len(tree)} :
         /\ tree[p].kind \in DOMAIN Holds
         /\ IsError(p) \/ \A c \in Children(p) : tree[c].kind # "eos"
         /\ \E n \in Holds[tree[p].kind] :
              tree' = Append(tree, [kind |-> n.kind, missing |-> n.missing,
                                    text |-> n.text, parent |-> p])
    /\ UNCHANGED <<parsed, visited, diags>>

Parsed ==
    /\ ~parsed
    /\ parsed' = TRUE
    /\ UNCHANGED <<tree, visited, diags>>

(* collectTreeDiags, one node.                                             *)
Visit ==
    /\ parsed /\ visited < Len(tree)
    /\ visited' = visited + 1
    /\ diags' = diags \cup Report(visited + 1)
    /\ UNCHANGED <<tree, parsed>>

Done == parsed /\ visited = Len(tree)

Next == Parse \/ Parsed \/ Visit \/ (Done /\ UNCHANGED vars)

Spec == Init /\ [][Next]_vars
-----------------------------------------------------------------------------
(* Properties.                                                             *)

(* A wrong-section hint is only ever kept back where "the underlying       *)
(* problem is already surfaced by the syntax pass": an ERROR around the     *)
(* command is reported, or the missing terminator on its section's header  *)
(* (diagnostics_section.go:55-66).                                         *)
SuppressedIsSurfaced ==
    Done => \A i \in DOMAIN tree :
        IsCommandLike(i) /\ IsMisplaced(i) =>
            \E d \in diags :
                \/ d.at = i /\ d.code = "wrong-section"
                \/ d.at \in Ancestors(i) /\ d.code \in {"syntax-error", "eos"}

(* Every recovery node is reported unless an ERROR around it is, and then   *)
(* it is not: the recovered tokens an ERROR wraps are not reported again   *)
(* (diagnostics.go:66-80).                                                 *)
RecoveryReported ==
    Done => \A i \in DOMAIN tree :
        /\ IsError(i) => ([code |-> "syntax-error", at |-> i, severity |-> "Error"] \in diags
                          <=> \A a \in Ancestors(i) : ~IsError(a))
        /\ IsMissing(i) => (missingDiagnostic(i) \in diags
                            <=> \A a \in Ancestors(i) : ~IsError(a))

(* Nothing is reported twice, not even an unclosed delimiter that several  *)
(* nested ERRORs wrap (diagnostics.go:66-80, diagnostics_syntax.go:40-49). *)
ReportedOnce == parsed /\ visited < Len(tree) => Report(visited + 1) \cap diags = {}

(* The delimiters recovered from an ERROR are exactly those a reader would *)
(* call unclosed: of its own kind, no stretch of the ERROR that starts at  *)
(* the opener holds as many closers as openers                             *)
(* (diagnostics_syntax.go:99-112).                                         *)
OpenersUnclosed ==
    Done => \A e \in DOMAIN tree :
        IsError(e) /\ ~inError(e) =>
            LET tokens(kind, i, k) ==
                    {t \in i..k : t \in Descendants(e) /\ tree[t].kind = kind /\ ~IsMissing(t)}
            IN  \A i \in Descendants(e) : IsOpener(tree[i].kind) =>
                    LET opener == tree[i].kind
                        closer == jinjaOpeners[opener]
                    IN  Error(closer, i) \in diags <=>
                            \A k \in i..Len(tree) :
                                Cardinality(tokens(closer, i, k)) <
                                    Cardinality(tokens(opener, i, k))

(* A command owned by one protocol is an error anywhere under a router of  *)
(* the other, through an address family, a "no" or an ERROR, if the        *)
(* section it is in is a routing one: the router itself, or an address     *)
(* family, which takes the protocol of the nearest router whatever comes   *)
(* in between (diagnostics_protocol.go:46-62, section.go:92-100).          *)
ProtocolReaches ==
    Done => \A i \in DOMAIN tree : IsCommandLike(i) /\ OwningProtocol(i) # "" =>
        LET headers == {a \in Ancestors(i) : IsSectionHeader(a)}
            routers == {r \in headers : tree[r].kind = "router_section"}
        IN  Error("protocol-mismatch", i) \in diags <=>
                /\ routers # {}
                /\ tree[Innermost(routers)].text \notin {"", OwningProtocol(i)}
                /\ tree[Innermost(headers)].kind \in {"router_section", "address_family_section"}
=============================================================================
