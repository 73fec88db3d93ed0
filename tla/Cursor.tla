------------------------------- MODULE Cursor -------------------------------
(***************************************************************************)
(* What the editor's cursor is on (FindNodeAtPosition of internal/ast) and *)
(* the two handlers that ask: hover, which climbs to the command and looks *)
(* its name up, and completion, which asks for the section.                *)
(*                                                                         *)
(* A position is <<row, column>>, a name the sequence of its words.  The    *)
(* grammar and the tree-sitter library are outside this repository: the    *)
(* parser gives a node one of the shapes of its kind, and lays its tokens  *)
(* out with one of the gaps each may have before it.                       *)
(***************************************************************************)
EXTENDS SyntaxTree

CONSTANTS
    Symbols,  \* Symbols[name]: the node a symbol of the grammar stands for
    Grammar,  \* Grammar[kind]: the symbols the parser may give such a node
    Gaps,     \* Gaps[name]: what may be before a symbol that follows another
    Keywords, \* the names in the keyword database
    Aliases   \* those of them with a "(", which no command spells

VARIABLES
    end,   \* where the text ends; None while the parser is at work
    answer \* what the editor was answered; Nobody before it has asked

vars == <<tree, end, answer>>

None == <<>>
Nobody == [ask |-> "none"]

Shapes(kind) == IF kind \in DOMAIN Grammar THEN Grammar[kind] ELSE {<<>>}

-----------------------------------------------------------------------------
(* What is assumed of the grammar.  A command-like node is a command_line, *)
(* or one whose kind ends in _statement or in _header.                     *)
commandKinds == {"command_line", "hostname_statement", "interface_header",
                 "router_header", "address_family_header"}
Spoken == commandKinds \cup sectionHeaderKinds \cup {"negated_statement"}

Held == {name \in DOMAIN Symbols : Symbols[name].kind # "config"}
IsToken(name) == Shapes(Symbols[name].kind) = {<<>>}

(* Only the root is a config; symbols hold no place and no shape yet.      *)
ASSUME GrammarTypes ==
    /\ Symbols \in [DOMAIN Symbols ->
          [kind : STRING, named : BOOLEAN, missing : BOOLEAN, field : STRING,
           words : Seq(STRING), text : STRING, parent : {0}, from : {None}, to : {None},
           shape : {None}]]
    /\ "config" \in DOMAIN Symbols /\ Symbols["config"].kind = "config"
    /\ \A kind \in DOMAIN Grammar : Grammar[kind] \subseteq Seq(Held)
    /\ Gaps \in [DOMAIN Symbols -> SUBSET {"none", "blank", "blanks", "newline"}]

(* What has no children is words, unless recovery made it up; a command    *)
(* starts with a token that is there; a section ends with its eos, which   *)
(* recovery may have made up.                                              *)
ASSUME GrammarNodes ==
    /\ Shapes("text") = {<<>>} /\ Shapes("eos") = {<<>>}
    /\ \A name \in Held : LET symbol == Symbols[name] IN
          /\ <<>> \in Shapes(symbol.kind) /\ ~symbol.missing => symbol.words # <<>>
          /\ symbol.kind \in Spoken => <<>> \notin Shapes(symbol.kind)
          /\ symbol.kind \in commandKinds =>
                \A s \in Shapes(symbol.kind) : IsToken(s[1]) /\ ~Symbols[s[1]].missing
          /\ symbol.kind \in sectionHeaderKinds =>
                \A s \in Shapes(symbol.kind) : Symbols[s[Len(s)]].kind = "eos"

(* Phrases: kinds in which there is no command and no section, at any      *)
(* depth.  OneLiners: kinds that are on one line, whatever they are in.    *)
Closed(K) == \A kind \in K : \A s \in Grammar[kind] : \A b \in DOMAIN s :
                 IsToken(s[b]) \/ Symbols[s[b]].kind \in K
Phrases == UNION {K \in SUBSET (DOMAIN Grammar \ Spoken) : Closed(K)}
OneLiners ==
    UNION {K \in SUBSET DOMAIN Grammar : Closed(K) /\
              \A kind \in K : \A s \in Grammar[kind] : \A b \in 2..Len(s) : "newline" \notin Gaps[s[b]]}

(* Commands are made of phrases.  A negated statement is tokens and one    *)
(* command at most, its `keyword`.                                         *)
ASSUME GrammarNests ==
    \A kind \in DOMAIN Grammar : \A s \in Grammar[kind] : \A b \in DOMAIN s :
        LET part == Symbols[s[b]] IN
        /\ kind \in commandKinds => IsToken(s[b]) \/ part.kind \in Phrases
        /\ kind = "negated_statement" =>
              /\ IsToken(s[b]) \/ part.kind \in commandKinds
              /\ part.kind \in commandKinds <=> part.field = "keyword"
              /\ \A a \in DOMAIN s :
                    Symbols[s[a]].field = "keyword" /\ part.field = "keyword" => a = b

(* What has parts is apart from what is before it; what follows a command, *)
(* or anything with a command in it, starts a line, if it has parts; so do *)
(* the sections and the eos that end them.  A generic command is one line. *)
ASSUME GrammarLines ==
    /\ \A kind \in DOMAIN Grammar : \A s \in Grammar[kind] : \A b \in DOMAIN s :
          LET part == Symbols[s[b]] IN
          /\ b > 1 /\ ~IsToken(s[b]) => "none" \notin Gaps[s[b]]
          /\ \A a \in 1..b - 1 :
                (/\ ~IsToken(s[a]) /\ Symbols[s[a]].kind \notin Phrases
                 /\ ~IsToken(s[b])) => Gaps[s[b]] \subseteq {"newline"}
          /\ part.kind \in sectionHeaderKinds =>
                IF b = 1 THEN kind = "config" ELSE Gaps[s[b]] \subseteq {"newline"}
    /\ \A name \in Held : Symbols[name].kind = "eos" /\ ~Symbols[name].missing =>
          Gaps[name] \subseteq {"newline"}
    /\ "command_line" \in DOMAIN Grammar => "command_line" \in OneLiners

-----------------------------------------------------------------------------
(* The parser, outside this repository, gives a node a shape of its kind.  *)
Node(symbol, place, from, shape) ==
    [Symbols[symbol] EXCEPT !.parent = place, !.from = from, !.shape = shape]

Init ==
    /\ tree \in {<<Node("config", 0, <<0, 0>>, s)>> : s \in Shapes("config")}
    /\ end = None
    /\ answer = Nobody

-----------------------------------------------------------------------------
(* Positions and tokens.                                                   *)
pointLE(a, b) == a[1] < b[1] \/ (a[1] = b[1] /\ a[2] <= b[2])
pointLT(a, b) == pointLE(a, b) /\ a # b
SameRow(a, b) == a[1] = b[1]

HasChildren(i) == Children(i) # {}
Tokens == {k \in DOMAIN tree \ {1} : ~HasChildren(k) /\ ~IsMissing(k)}
Leaves(i) == {k \in Descendants(i) \cup {i} : ~HasChildren(k)}

StartPosition(i) == tree[i].from
EndPosition(i) == tree[i].to

(* The text of a node, as its words.                                       *)
InOrder(S) ==
    LET upto[n \in 0..Len(tree)] ==
            IF n = 0 THEN <<>> ELSE upto[n - 1] \o (IF n \in S THEN <<n>> ELSE <<>>)
    IN  upto[Len(tree)]
WordsOf(S) ==
    LET tokens == InOrder(S) IN FlattenSeq([n \in DOMAIN tokens |-> tree[tokens[n]].words])
Text(i) == IF HasChildren(i) THEN WordsOf(Leaves(i)) ELSE tree[i].words

-----------------------------------------------------------------------------
(* The library's search: into the first child the point touches.           *)
DescendantForPointRange(p) ==
    LET touches(k) == IF StartPosition(k) = EndPosition(k)
                      THEN pointLE(p, EndPosition(k)) ELSE pointLT(p, EndPosition(k))
        search[i \in DOMAIN tree] ==
            LET ahead == {k \in Children(i) : touches(k)}
            IN  IF ahead # {} /\ pointLE(StartPosition(Min(ahead)), p)
                THEN search[Min(ahead)] ELSE i
    IN  search[1]

deepestLeafEndingAtOrBefore(p) ==
    LET descend[i \in DOMAIN tree] ==
            LET before == {k \in Children(i) : pointLE(EndPosition(k), p)}
            IN  IF before = {} THEN i ELSE descend[Max(before)]
    IN  descend[1]

(* A fault: the token before the cursor may be on an earlier line.         *)
EndsBefore(i, p) == EndPosition(i) # p

(* Whether a node that ends at or before p takes the place of what is at p. *)
JustBefore(i, p) == EndPosition(i) # p /\ SameRow(EndPosition(i), p)

(* The node a position resolves to; 0 for none, which is the parent of the *)
(* root.                                                                   *)
FindNodeAtPosition(p) ==
    LET node == DescendantForPointRange(p)
        prev == deepestLeafEndingAtOrBefore(p)
    IN  CASE tree[node].kind = "text" -> parent(node)
          [] ~HasChildren(node) /\ tree[node].kind # "text" ->
                IF EndPosition(node) = p THEN parent(node) ELSE node
          [] OTHER -> IF JustBefore(prev, p) THEN prev ELSE node

-----------------------------------------------------------------------------
(* Names of commands.  MaxTokens is maxHoverPrefixTokens, and              *)
(* maxPrefixTokens of the diagnostic.                                      *)
MaxTokens == 4

Upto(s, n) == SubSeq(s, 1, IF Len(s) < n THEN Len(s) ELSE n)

(* The longest name in the database that the leading texts spell, or else  *)
(* the first text.                                                         *)
LongestName(leading) ==
    LET joined(n) == FlattenSeq([k \in 1..n |-> Text(leading[k])])
        known == {n \in DOMAIN leading : joined(n) \in Keywords \ Aliases}
    IN  IF known = {} THEN joined(1) ELSE joined(Max(known))

(* The leading children hover reads: single words on the first line.       *)
LeadingWords(i) ==
    LET children == Upto(InOrder(Children(i)), MaxTokens)
        breaks == {n \in DOMAIN children :
                      \/ ~SameRow(StartPosition(children[n]), StartPosition(i))
                      \/ Len(Text(children[n])) # 1}
    IN  IF breaks = {} THEN children ELSE SubSeq(children, 1, Min(breaks) - 1)

resolveHoverKeyword(i) ==
    LET leading == LeadingWords(i)
    IN  IF leading = <<>> THEN None ELSE LongestName(leading)

(* The leading keyword the wrong-section and version diagnostics check.    *)
firstKeywordFromNode(i) ==
    LET read == {c \in Children(i) : c = Min(Children(i)) \/ tree[c].named}
    IN  CASE Children(i) = {} -> None
          [] Children(i) # {} /\ tree[i].kind # "command_line" -> Text(Min(Children(i)))
          [] OTHER -> LongestName(Upto(InOrder(read), MaxTokens))

-----------------------------------------------------------------------------
(* Hover.                                                                  *)
IsCommand(i) == tree[i].kind \in commandKinds

(* A fault: the wrapper of a negated command is taken for the command.     *)
commandOrNegation(n) ==
    LET around == {a \in Ancestors(n) \cup {n} :
                      IsCommand(a) \/ tree[a].kind = "negated_statement"}
    IN  IF around = {} THEN 0 ELSE Innermost(around)

(* The `keyword` of a negated_statement is a command, so that the recursion *)
(* of the code ends there; without one there is no command.                *)
commandNodeForHover(n) ==
    LET around == {a \in Ancestors(n) \cup {n} :
                      IsCommand(a) \/ tree[a].kind = "negated_statement"}
        keywords == {c \in Children(Innermost(around)) : tree[c].field = "keyword"}
    IN  CASE around = {} -> 0
          [] around # {} /\ IsCommand(Innermost(around)) -> Innermost(around)
          [] OTHER -> IF keywords = {} THEN 0 ELSE Min(keywords)

-----------------------------------------------------------------------------
(* Completion.  argumentPositionRe: the line starts with one of these,     *)
(* after an optional "no", and goes on with a blank.                       *)
argumentPatterns ==
    {<<"interface">>, <<"router", "bgp">>, <<"router", "ospf">>, <<"address-family">>,
     <<"route-map">>, <<"class-map">>, <<"policy-map">>, <<"vlan">>, <<"line">>,
     <<"ip", "access-list", "standard">>, <<"ip", "access-list", "extended">>,
     <<"hostname">>, <<"version">>}

inArgumentPosition(p) ==
    LET onLine == {k \in Tokens : SameRow(EndPosition(k), p) /\ pointLT(EndPosition(k), p)}
        line == WordsOf(onLine)
    IN  \E pattern \in argumentPatterns :
            IsPrefix(pattern, line) \/ IsPrefix(<<"no">> \o pattern, line)

KindSuppresses(i) == tree[i].kind \in {"value", "text", "eos", "comment", "ios_comment"}

Suppressed(p) ==
    \/ FindNodeAtPosition(p) = 0
    \/ KindSuppresses(FindNodeAtPosition(p))
    \/ inArgumentPosition(p)

-----------------------------------------------------------------------------
(* The parser fills the shapes in: the innermost node whose shape is not   *)
(* full gets its next child.  A first child starts where its parent does,  *)
(* another after one of the gaps it may have before it.                    *)
Unfinished == {i \in DOMAIN tree : Cardinality(Children(i)) < Len(tree[i].shape)}

(* A word is one column wide, and so is the blank between two; a token     *)
(* recovery made up has no width.                                          *)
Width(i) ==
    IF IsMissing(i) \/ tree[i].words = <<>> THEN 0 ELSE 2 * Len(tree[i].words) - 1

EndOfToken(i) == <<tree[i].from[1], tree[i].from[2] + Width(i)>>

Skip(last, gap) ==
    CASE gap = "none" -> last
      [] gap = "blank" -> <<last[1], last[2] + 1>>
      [] gap = "blanks" -> <<last[1], last[2] + 2>>
      [] gap = "newline" -> <<last[1] + 1, 0>>

After(gap) == Skip(EndOfToken(Len(tree)), gap)

Parse ==
    /\ end = None /\ Unfinished # {}
    /\ LET p == Max(Unfinished)
           n == tree[p].shape[Cardinality(Children(p)) + 1]
           starts == IF HasChildren(p) THEN {After(gap) : gap \in Gaps[n]} ELSE {tree[p].from}
       IN  \E s \in Shapes(Symbols[n].kind), from \in starts :
               tree' = Append(tree, Node(n, p, from, s))
    /\ UNCHANGED <<end, answer>>

(* A node ends with its last token, the root where the text does, which    *)
(* may be after its last token.                                            *)
Parsed ==
    /\ end = None /\ Unfinished = {}
    /\ \E gap \in {"none", "blank", "newline"} :
         /\ end' = After(gap)
         /\ tree' = [i \in DOMAIN tree |-> [tree[i] EXCEPT
                         !.to = IF i = 1 THEN end' ELSE EndOfToken(Max(Leaves(i)))]]
    /\ UNCHANGED answer

(* Where a cursor can be: in the text, at most one blank after a line.     *)
Positions ==
  IF end = None \/ answer # Nobody THEN {} ELSE
    LET ends(row) == {0} \cup {EndPosition(k)[2] : k \in {l \in Tokens : EndPosition(l)[1] = row}}
    IN  {p \in UNION {{<<row, column>> : column \in 0..Max(ends(row)) + 1} : row \in 0..end[1]} :
            pointLE(p, end)}

(* A query changes nothing the next one reads, so one is asked of a text.  *)
HoverAnswer(p) ==
    LET node == FindNodeAtPosition(p)
        cmd == IF node = 0 THEN 0 ELSE commandNodeForHover(node)
        name == IF cmd = 0 THEN None ELSE resolveHoverKeyword(cmd)
    IN  [ask |-> "hover", at |-> p, node |-> node, cmd |-> cmd,
         name |-> IF name \in Keywords THEN name ELSE None]

Hover(p) ==
    /\ answer = Nobody
    /\ answer' = HoverAnswer(p)
    /\ UNCHANGED <<tree, end>>

(* The section is the detected one, before KeywordSet collapses it.        *)
CompletionAnswer(p) ==
    [ask |-> "completion", at |-> p, offered |-> ~Suppressed(p),
     section |-> IF Suppressed(p) THEN ""
                 ELSE EnclosingSection(FindNodeAtPosition(p)).section]

Completion(p) ==
    /\ answer = Nobody
    /\ answer' = CompletionAnswer(p)
    /\ UNCHANGED <<tree, end>>

Next == Parse \/ Parsed \/ \E p \in Positions : Hover(p) \/ Completion(p)

Spec == Init /\ [][Next]_vars
-----------------------------------------------------------------------------
(* Properties.                                                             *)

(* A hover describes a command the cursor is in or at the end of, its "no" *)
(* included, or the last thing before the cursor on its line: never that   *)
(* of another line, and never one that something else has come after       *)
(* (node.go:7-15, 39-42).                                                  *)
HoverIsNear ==
    answer.ask = "hover" /\ answer.name # None =>
        LET p == answer.at
            c == answer.cmd
            whole == IF tree[parent(c)].kind = "negated_statement" THEN parent(c) ELSE c
        IN  /\ pointLE(StartPosition(whole), p)
            /\ \/ pointLE(p, EndPosition(whole))
               \/ /\ SameRow(EndPosition(whole), p)
                  /\ \A k \in Tokens : pointLE(EndPosition(whole), StartPosition(k)) =>
                         pointLT(p, StartPosition(k))

(* "Hovering anywhere on the command - leading token, mid-token, or over   *)
(* an argument": the cursor in a token of a command, or of the "no" before *)
(* it, is on that command, unless recovery made a token up at that very    *)
(* place; and hover calls it what the diagnostics call it ("mirroring the  *)
(* wrong-section pass's firstKeywordFromNode"), where all of it is words   *)
(* (hover.go:46-82, hover_test.go:182-184, diagnostics_section.go:77-116). *)
TokenHoversItsCommand ==
    answer.ask = "hover" =>
        LET p == answer.at
            madeUp == {k \in DOMAIN tree : IsMissing(k) /\ StartPosition(k) = p}
            under == {k \in Tokens : pointLE(StartPosition(k), p) /\ pointLT(p, EndPosition(k))}
            around(k) == {c \in DOMAIN tree : IsCommand(c) /\
                             \/ c \in Ancestors(k)
                             \/ tree[parent(c)].kind = "negated_statement" /\ parent(c) = parent(k)}
            words(c) == \A k \in Children(c) : tree[k].named /\ Len(Text(k)) = 1
            known(name) == IF name \in Keywords THEN name ELSE None
        IN  madeUp = {} => \A k \in under :
                LET c == IF around(k) = {} THEN 0 ELSE Max(around(k))
                IN  /\ answer.cmd = c
                    /\ c # 0 /\ tree[c].kind = "command_line" /\ words(c) =>
                           answer.name = known(firstKeywordFromNode(c))

(* What completion offers at a command, up to its end, is what the         *)
(* diagnostics check that command against, unless the section around it is *)
(* unterminated, where they keep quiet                                     *)
(* (completion.go:118-136, diagnostics_section.go:27-66).                  *)
CompletionAsksAsChecked ==
    answer.ask = "completion" /\ answer.offered =>
        LET p == answer.at
            sections(c) == {s \in Ancestors(c) : IsSectionHeader(s)}
            unterminated(s) == \E e \in Children(s) : tree[e].kind = "eos" /\ IsMissing(e)
        IN  \A c \in DOMAIN tree :
                /\ IsCommand(c)
                /\ pointLE(StartPosition(c), p) /\ pointLE(p, EndPosition(c))
                /\ sections(c) # {} => ~unterminated(Innermost(sections(c)))
                => answer.section = EnclosingSection(c).section

(* "When the position falls in a gap between tokens [...] it returns the   *)
(* token immediately preceding it on the same line (the node the user just *)
(* typed) rather than an enclosing ancestor" (node.go:11-14).              *)
GapIsTokenBefore ==
    answer.ask = "hover" =>
        LET p == answer.at
            before == {k \in Tokens : pointLE(EndPosition(k), p) /\ SameRow(EndPosition(k), p)}
            inOrAtEnd == {k \in Tokens : pointLE(StartPosition(k), p) /\ pointLE(p, EndPosition(k))}
        IN  before # {} /\ inOrAtEnd = {} => answer.node = Max(before)
=============================================================================
