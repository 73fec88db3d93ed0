----------------------- MODULE TreeDiagnosticsProofs -----------------------
(***************************************************************************)
(* That the one walk over the syntax tree reports what it should, once,    *)
(* for trees of any size and shape the parser may make.  The inductive     *)
(* invariant says of a tree that parents come before their children and    *)
(* that a section has one eos, and of the diagnostics that they are the    *)
(* reports on the nodes visited so far.  The rest is about trees: the      *)
(* ancestors of a node are a chain, so that of the ERRORs around a node    *)
(* one is outermost, and the stack of openers is a count.                  *)
(***************************************************************************)
EXTENDS TreeDiagnostics, Recursion, FiniteSetTheorems

Held == UNION {Holds[kind] : kind \in DOMAIN Holds}
Hung == {[kind |-> n.kind, missing |-> n.missing, text |-> n.text, parent |-> p] :
            n \in Held, p \in Nat}

(* A tree as a walk lists it: its nodes, each after its parent.            *)
Shaped ==
    /\ tree \in Seq(Roots \cup Hung)
    /\ Len(tree) > 0
    /\ tree[1] \in Roots
    /\ \A i \in 2..Len(tree) : parent(i) \in 1..i - 1

(* A section ends with its eos: it has only one.                           *)
EosEnds ==
    \A c, d \in 2..Len(tree) :
        (/\ tree[c].kind = "eos" /\ tree[d].kind = "eos"
         /\ parent(c) = parent(d) /\ ~IsError(parent(c))) => c = d

(* The diagnostics are the reports on the nodes visited.                   *)
Collected ==
    /\ parsed \in BOOLEAN
    /\ visited \in 0..Len(tree)
    /\ ~parsed => visited = 0
    /\ diags = UNION {Report(i) : i \in 1..visited}

IInv == Shaped /\ EosEnds /\ Collected

-----------------------------------------------------------------------------
(* The nodes of a tree.                                                    *)
LEMMA TreeNodes ==
    ASSUME Shaped
    PROVE  /\ Len(tree) \in Nat /\ DOMAIN tree = 1..Len(tree)
           /\ parent(1) = 0 /\ ~IsMissing(1)
           /\ \A i \in DOMAIN tree :
                /\ IsMissing(i) \in BOOLEAN
                /\ IsError(i) => ~IsMissing(i)
                /\ tree[i].kind \notin Codes
                /\ i = 1 \/ parent(i) \in 1..i - 1
                /\ parent(i) = 0 <=> i = 1
  <1>1. tree \in Seq(Roots \cup Hung) /\ Len(tree) \in Nat /\ DOMAIN tree = 1..Len(tree)
    BY DEF Shaped
  <1>2. \A n \in Roots \cup Hung :
            n.missing \in BOOLEAN /\ (n.kind = "ERROR" => ~n.missing) /\ n.kind \notin Codes
    BY TreeAssumption DEF Hung, Held, Kinds
  <1>3. parent(1) = 0 /\ ~IsMissing(1)
    BY TreeAssumption DEF Shaped, parent, IsMissing
  <1>4. \A i \in DOMAIN tree : tree[i] \in Roots \cup Hung
    BY <1>1
  <1>5. \A i \in DOMAIN tree : IsMissing(i) \in BOOLEAN /\ (IsError(i) => ~IsMissing(i))
                               /\ tree[i].kind \notin Codes
    BY <1>2, <1>4 DEF IsMissing, IsError
  <1>6. \A i \in DOMAIN tree : i = 1 \/ parent(i) \in 1..i - 1
    BY <1>1 DEF Shaped
  <1>7. \A i \in DOMAIN tree : parent(i) = 0 <=> i = 1
    BY <1>1, <1>3, <1>6
  <1> QED
    BY <1>1, <1>3, <1>5, <1>6, <1>7

(* The walk up from the first m nodes.                                     *)
IsUp(f, m) ==
    f = [k \in 1..m |-> IF parent(k) = 0 THEN {} ELSE {parent(k)} \cup f[parent(k)]]

LEMMA UpExists ==
    ASSUME Shaped
    PROVE  \E f : IsUp(f, Len(tree))
  <1> DEFINE n == Len(tree)
             T == {m \in 0..n : \E f : IsUp(f, m)}
  <1>1. n \in Nat /\ \A i \in 1..n : i = 1 \/ parent(i) \in 1..i - 1
    BY TreeNodes
  <1>2. parent(1) = 0
    BY TreeNodes
  <1> HIDE DEF n
  <1>3. 0 \in T
    <2> DEFINE f == [k \in 1..0 |-> {}]
    <2>1. IsUp(f, 0)
      BY DEF IsUp
    <2> QED
      BY <1>1, <2>1
  <1>4. ASSUME NEW m \in 0..n - 1, m \in T PROVE m + 1 \in T
    <2> DEFINE k == m + 1
    <2>1. PICK f : IsUp(f, m)
      BY <1>4
    <2>2. k \in 1..n /\ k \in 0..n /\ 1..k = 1..m \cup {k} /\ k \notin 1..m
          /\ (k = 1 \/ parent(k) \in 1..m)
      BY <1>1
    <2>3. \A i \in 1..m : i = 1 \/ parent(i) \in 1..m
      BY <1>1
    <2> HIDE DEF k
    <2> DEFINE g == [i \in 1..k |-> IF i = k
                       THEN IF parent(k) = 0 THEN {} ELSE {parent(k)} \cup f[parent(k)]
                       ELSE f[i]]
    <2>4. \A i \in 1..m : g[i] = f[i]
      BY <2>2
    <2>5. \A i \in 1..m : f[i] = IF parent(i) = 0 THEN {} ELSE {parent(i)} \cup f[parent(i)]
      BY <2>1 DEF IsUp
    <2>6. \A i \in 1..k : g[i] = IF parent(i) = 0 THEN {} ELSE {parent(i)} \cup g[parent(i)]
      <3> TAKE i \in 1..k
      <3>1. CASE i = k
        <4>1. g[k] = IF parent(k) = 0 THEN {} ELSE {parent(k)} \cup f[parent(k)]
          BY <2>2
        <4> HIDE DEF g
        <4> QED
          BY <1>2, <2>2, <2>4, <3>1, <4>1
      <3>2. CASE i \in 1..m
        <4> HIDE DEF g
        <4> QED
          BY <1>2, <2>3, <2>4, <2>5, <3>2
      <3> QED
        BY <2>2, <3>1, <3>2
    <2>7. g = [i \in 1..k |-> g[i]]
      OBVIOUS
    <2> HIDE DEF g
    <2>8. IsUp(g, k)
      BY <2>6, <2>7 DEF IsUp
    <2> QED
      BY <2>2, <2>8 DEF k
  <1>5. \A m \in 0..n : m \in T
    <2> HIDE DEF T
    <2> QED
      BY <1>1, <1>3, <1>4, BoundedInduction
  <1>6. n \in T
    BY <1>1, <1>5
  <1> QED
    BY <1>6 DEF n

(* A node's ancestors are its parent and the parent's ancestors.           *)
LEMMA AncestorsStep ==
    ASSUME Shaped
    PROVE  \A i \in DOMAIN tree :
              Ancestors(i) = IF parent(i) = 0 THEN {} ELSE {parent(i)} \cup Ancestors(parent(i))
  <1> DEFINE U == CHOOSE f : IsUp(f, Len(tree))
  <1>1. IsUp(U, Len(tree))
    BY UpExists
  <1>2. DOMAIN tree = 1..Len(tree)
    BY TreeNodes
  <1>3. \A i : Ancestors(i) = U[i]
    BY <1>2 DEF Ancestors, IsUp
  <1> HIDE DEF U
  <1> QED
    BY <1>1, <1>2, <1>3 DEF IsUp

(* They come before it, and the ancestors of one are those before that: a  *)
(* chain.                                                                  *)
LEMMA AncestorsChain ==
    ASSUME Shaped
    PROVE  \A i \in DOMAIN tree :
              /\ Ancestors(i) \subseteq 1..i - 1
              /\ \A a \in Ancestors(i) : Ancestors(a) = {b \in Ancestors(i) : b < a}
  <1> DEFINE n == Len(tree)
             Below(i) == Ancestors(i) \subseteq 1..i - 1
             Chain(i) == \A a \in Ancestors(i) : Ancestors(a) = {b \in Ancestors(i) : b < a}
             T == {m \in 0..n : \A i \in 1..m : Below(i) /\ Chain(i)}
  <1>1. n \in Nat /\ DOMAIN tree = 1..n
    BY TreeNodes
  <1> HIDE DEF n
  <1>2. 0 \in T
    BY <1>1
  <1>3. ASSUME NEW m \in 0..n - 1, m \in T PROVE m + 1 \in T
    <2> DEFINE k == m + 1
               p == parent(k)
    <2>1. k \in 1..n /\ k \in 0..n /\ 1..k = 1..m \cup {k} /\ k = m + 1 /\ k \in Nat /\ m \in Nat
      BY <1>1
    <2> HIDE DEF k
    <2>2. (p = 0 /\ Ancestors(k) = {}) \/ (p \in 1..m /\ Ancestors(k) = {p} \cup Ancestors(p))
      <3>1. Ancestors(k) = IF p = 0 THEN {} ELSE {p} \cup Ancestors(p)
        BY <1>1, <2>1, AncestorsStep
      <3>2. p = 0 \/ p \in 1..m
        BY <1>1, <2>1, TreeNodes
      <3> QED
        BY <2>1, <3>1, <3>2
    <2>3. \A i \in 1..m : Below(i) /\ Chain(i)
      BY <1>3
    <2> HIDE DEF p
    <2>4. CASE p = 0 /\ Ancestors(k) = {}
      <3>1. Below(k) /\ Chain(k)
        BY <2>4
      <3> HIDE DEF Below, Chain
      <3> QED
        BY <2>1, <2>3, <3>1
    <2>5. CASE p \in 1..m /\ Ancestors(k) = {p} \cup Ancestors(p)
      <3>1. Below(p) /\ Chain(p) /\ p \in Nat /\ p < k
        BY <2>1, <2>3, <2>5
      <3>2. Below(k)
        BY <2>1, <2>5, <3>1
      <3>3. ASSUME NEW a \in Ancestors(k)
            PROVE  Ancestors(a) = {b \in Ancestors(k) : b < a}
        <4>1. CASE a = p
          <5>1. \A b \in Ancestors(p) : b < p
            BY <3>1
          <5>2. ~(p < p)
            BY <3>1
          <5> QED
            BY <2>5, <4>1, <5>1, <5>2
        <4>2. CASE a \in Ancestors(p)
          <5>1. Ancestors(a) = {b \in Ancestors(p) : b < a}
            BY <3>1, <4>2
          <5>2. ~(p < a)
            BY <3>1, <4>2
          <5> QED
            BY <2>5, <5>1, <5>2
        <4> QED
          BY <2>5, <4>1, <4>2
      <3> HIDE DEF Below
      <3> QED
        BY <2>1, <2>3, <3>2, <3>3
    <2> QED
      BY <2>2, <2>4, <2>5
  <1>4. \A m \in 0..n : m \in T
    <2> HIDE DEF T
    <2> QED
      BY <1>1, <1>2, <1>3, BoundedInduction
  <1>5. \A i \in 1..n : Below(i) /\ Chain(i)
    <2>1. n \in 0..n
      BY <1>1
    <2> QED
      BY <1>4, <2>1
  <1> QED
    BY <1>1, <1>5

-----------------------------------------------------------------------------
(* The report on a node is of the tree alone.                              *)
LEMMA ReportOfTree == ASSUME tree' = tree, NEW i PROVE Report(i)' = Report(i)
  <1>1. \A k : Ancestors(k)' = Ancestors(k)
    BY DEF Ancestors, parent
  <1>2. \A k : Descendants(k)' = Descendants(k)
    BY <1>1 DEF Descendants
  <1>3. unclosedJinjaDiagnostics(i)' = unclosedJinjaDiagnostics(i)
    <2>1. Stacks(tree, Descendants(i))' = Stacks(tree, Descendants(i))
      BY <1>2
    <2> QED
      BY <2>1 DEF unclosedJinjaDiagnostics, Error
  <1>4. appendSyntaxDiag(i)' = appendSyntaxDiag(i)
    BY <1>3 DEF appendSyntaxDiag, IsError, IsMissing, missingDiagnostic, IsSectionHeader, parent, Error
  <1>5. \A k : EnclosingSection(k)' = EnclosingSection(k)
    <2>1. \A k : IsSectionHeader(k)' = IsSectionHeader(k)
                /\ resolveACLSection(k)' = resolveACLSection(k)
                /\ protocolFor(k)' = protocolFor(k)
      BY <1>1 DEF IsSectionHeader, resolveACLSection, protocolFor, Innermost
    <2> TAKE k
    <2> DEFINE around == {a \in Ancestors(k) \cup {k} : IsSectionHeader(a)}
    <2>2. around' = around
      BY <1>1, <2>1
    <2>3. Innermost(around)' = Innermost(around)
      BY <2>2 DEF Innermost
    <2> QED
      BY <2>1, <2>2, <2>3 DEF EnclosingSection
  <1>6. unreliableSectionContext(i)' = unreliableSectionContext(i)
    BY <1>1 DEF unreliableSectionContext, IsSectionHeader, IsError, hasMissingEos, Children, parent,
                IsMissing, Innermost
  <1>7. appendWrongSection(i)' = appendWrongSection(i)
    BY <1>5, <1>6 DEF appendWrongSection, IsMisplaced
  <1>8. appendProtocolMismatch(i)' = appendProtocolMismatch(i)
    BY <1>5 DEF appendProtocolMismatch, OwningProtocol, Error
  <1> QED
    BY <1>1, <1>4, <1>7, <1>8 DEF Report, inError, IsError, IsCommandLike

(* A tree of one node is shaped.                                           *)
LEMMA InitIInv == Init => IInv
  <1> SUFFICES ASSUME Init PROVE IInv
    OBVIOUS
  <1>1. PICK root \in Roots : tree = <<root>>
    BY DEF Init
  <1>2. Len(tree) = 1 /\ tree[1] = root /\ tree \in Seq(Roots \cup Hung)
    BY <1>1
  <1>3. Shaped /\ EosEnds
    BY <1>2 DEF Shaped, EosEnds
  <1>4. Collected
    <2>1. visited = 0 /\ diags = {} /\ parsed = FALSE
      BY DEF Init
    <2>2. UNION {Report(i) : i \in 1..0} = {}
      OBVIOUS
    <2>3. UNION {Report(i) : i \in 1..visited} = {}
      BY <2>1
    <2>4. visited \in 0..Len(tree)
      BY <1>2, <2>1
    <2> QED
      BY <2>1, <2>3, <2>4 DEF Collected
  <1> QED
    BY <1>3, <1>4 DEF IInv

(* Growing the tree keeps it shaped; a visit adds its report.              *)
LEMMA NextIInv == IInv /\ [Next]_vars => IInv'
  <1> SUFFICES ASSUME IInv, [Next]_vars PROVE IInv'
    OBVIOUS
  <1> USE DEF IInv
  <1>1. CASE Parse
    <2> DEFINE n == Len(tree)
    <2>1. PICK p \in Ancestors(n) \cup {n} :
             /\ IsError(p) \/ \A c \in Children(p) : tree[c].kind # "eos"
             /\ \E node \in Holds[tree[p].kind] :
                  tree' = Append(tree, [kind |-> node.kind, missing |-> node.missing,
                                        text |-> node.text, parent |-> p])
             /\ tree[p].kind \in DOMAIN Holds
      BY <1>1 DEF Parse
    <2>2. PICK node \in Holds[tree[p].kind] :
             tree' = Append(tree, [kind |-> node.kind, missing |-> node.missing,
                                   text |-> node.text, parent |-> p])
      BY <2>1
    <2> DEFINE x == [kind |-> node.kind, missing |-> node.missing, text |-> node.text, parent |-> p]
    <2>3. tree \in Seq(Roots \cup Hung) /\ n \in Nat /\ n > 0 /\ DOMAIN tree = 1..n
      BY DEF Shaped
    <2>4. p \in 1..n
      BY <2>3, AncestorsChain
    <2>5. x \in Hung /\ x.parent = p
      <3>1. node \in Held /\ p \in Nat
        <4>1. node \in Holds[tree[p].kind] /\ tree[p].kind \in DOMAIN Holds
          BY <2>1
        <4>2. node \in Held
          BY <4>1 DEF Held
        <4>3. p \in Nat
          <5> HIDE DEF n
          <5> QED
            BY <2>3, <2>4
        <4> QED
          BY <4>2, <4>3
      <3> QED
        BY <3>1 DEF Hung
    <2> HIDE DEF x
    <2>6. /\ tree' \in Seq(Roots \cup Hung) /\ Len(tree') = n + 1 /\ tree'[n + 1] = x
          /\ \A i \in 1..n : tree'[i] = tree[i]
      BY <2>2, <2>3, <2>5 DEF x
    <2> HIDE DEF n
    <2>7. \A i \in 2..n + 1 : i \in 2..n \/ i = n + 1
      BY <2>3
    <2>8. Shaped'
      <3>1. \A i \in 2..n + 1 : tree'[i].parent \in 1..i - 1
        <4>1. \A i \in 2..n : tree'[i].parent \in 1..i - 1
          BY <2>3, <2>6 DEF Shaped, parent, n
        <4>2. tree'[n + 1].parent \in 1..(n + 1) - 1
          BY <2>3, <2>4, <2>5, <2>6
        <4> QED
          BY <2>7, <4>1, <4>2
      <3> QED
        BY <2>3, <2>6, <3>1 DEF Shaped, parent
    <2>9. EosEnds'
      <3>1. ASSUME NEW c \in 2..n + 1, NEW d \in 2..n + 1, c < d,
                   tree'[c].kind = "eos", tree'[d].kind = "eos",
                   tree'[c].parent = tree'[d].parent, tree'[tree'[c].parent].kind # "ERROR"
            PROVE  FALSE
        <4>1. c \in 2..n /\ c \in 1..n
          BY <2>3, <3>1
        <4>2. parent(c) \in 1..n /\ tree'[c] = tree[c]
          BY <2>3, <2>6, <4>1 DEF Shaped, n
        <4>3. tree'[tree'[c].parent] = tree[parent(c)]
          BY <2>6, <4>2 DEF parent
        <4>4. CASE d \in 2..n
          <5>1. tree'[d] = tree[d] /\ d \in 2..n
            BY <2>3, <2>6, <4>4
          <5>2. c = d
            BY <3>1, <4>1, <4>2, <4>3, <5>1 DEF EosEnds, parent, IsError, n
          <5> QED
            BY <2>3, <3>1, <4>1, <5>2
        <4>5. CASE d = n + 1
          <5>1. parent(c) = p
            BY <2>5, <2>6, <3>1, <4>2, <4>5 DEF parent
          <5>2. c \in Children(p) /\ tree[c].kind = "eos" /\ ~IsError(p)
            BY <2>3, <3>1, <4>1, <4>2, <4>3, <5>1 DEF Children, parent, IsError
          <5> QED
            BY <2>1, <5>2
        <4> QED
          BY <2>7, <4>4, <4>5
      <3>2. ASSUME NEW c \in 2..n + 1, NEW d \in 2..n + 1,
                   tree'[c].kind = "eos", tree'[d].kind = "eos",
                   tree'[c].parent = tree'[d].parent, tree'[tree'[c].parent].kind # "ERROR"
            PROVE  c = d
        <4>1. c < d \/ d < c \/ c = d
          BY <2>3
        <4> QED
          BY <3>1, <3>2, <4>1
      <3> QED
        <4>1. \A c, d \in 2..n + 1 :
                 (/\ tree'[c].kind = "eos" /\ tree'[d].kind = "eos"
                  /\ tree'[c].parent = tree'[d].parent /\ tree'[tree'[c].parent].kind # "ERROR")
                    => c = d
          BY <3>2
        <4>2. 2..Len(tree') = 2..n + 1
          BY <2>6
        <4> QED
          BY <4>1, <4>2 DEF EosEnds, parent, IsError
    <2>10. Collected'
      <3>1. parsed' = FALSE /\ visited' = 0 /\ diags' = {}
        BY <1>1 DEF Parse, Collected
      <3>2. (UNION {Report(i) : i \in 1..visited})' = {}
        BY <3>1
      <3>3. visited' \in 0..Len(tree')
        BY <2>3, <2>6, <3>1
      <3> QED
        BY <3>1, <3>2, <3>3 DEF Collected
    <2> QED
      BY <2>8, <2>9, <2>10
  <1>2. ASSUME UNCHANGED tree PROVE Shaped' /\ EosEnds'
    BY <1>2 DEF Shaped, EosEnds, parent, IsError
  <1>3. CASE Parsed
    <2>1. UNCHANGED tree
      BY <1>3 DEF Parsed
    <2>2. Collected'
      BY <1>3, <2>1 DEF Parsed, Collected
    <2> QED
      BY <1>2, <2>1, <2>2
  <1>4. CASE Visit
    <2>1. /\ UNCHANGED tree /\ parsed /\ visited \in Nat /\ visited < Len(tree)
          /\ visited' = visited + 1 /\ diags' = diags \cup Report(visited + 1)
          /\ Len(tree) \in Nat
      BY <1>4, TreeNodes DEF Visit, Collected
    <2>2. \A i : Report(i)' = Report(i)
      BY <2>1, ReportOfTree
    <2>3. 1..visited + 1 = 1..visited \cup {visited + 1}
      BY <2>1
    <2>4. diags' = UNION {Report(i) : i \in 1..visited + 1}
      BY <2>1, <2>3 DEF Collected
    <2>5. diags' = UNION {Report(i)' : i \in 1..visited'}
      BY <2>1, <2>2, <2>4
    <2>6. parsed' = parsed /\ visited' \in 0..Len(tree')
      BY <1>4, <2>1 DEF Visit
    <2>7. Collected'
      BY <2>1, <2>5, <2>6 DEF Collected
    <2> QED
      BY <1>2, <2>1, <2>7
  <1>5. CASE UNCHANGED vars
    <2>1. \A i : Report(i)' = Report(i)
      BY <1>5, ReportOfTree DEF vars
    <2>2. Collected'
      BY <1>5, <2>1 DEF vars, Collected
    <2> QED
      BY <1>2, <1>5, <2>2 DEF vars
  <1> QED
    BY <1>1, <1>3, <1>4, <1>5 DEF Next

(* IInv holds throughout.                                                  *)
LEMMA Invariance == Spec => []IInv
  BY InitIInv, NextIInv, PTL DEF Spec
-----------------------------------------------------------------------------
(* The delimiters.                                                         *)
LEMMA Delimiters ==
    /\ DOMAIN jinjaOpeners = {"{{", "{%", "{#"}
    /\ jinjaOpeners["{{"] = "}}" /\ jinjaOpeners["{%"] = "%}" /\ jinjaOpeners["{#"] = "#}"
    /\ Closers = {"}}", "%}", "#}"}
    /\ \A k : IsOpener(k) => jinjaOpeners[k] \in Closers /\ k \notin Closers
    /\ \A k, l : IsOpener(k) /\ IsOpener(l) /\ jinjaOpeners[k] = jinjaOpeners[l] => k = l
    /\ Closers \cap Codes = {} /\ "eos" \notin Codes /\ "ERROR" \notin sectionHeaderKinds
  <1>1. DOMAIN jinjaOpeners = {"{{", "{%", "{#"}
    BY DEF jinjaOpeners
  <1>2. jinjaOpeners["{{"] = "}}" /\ jinjaOpeners["{%"] = "%}" /\ jinjaOpeners["{#"] = "#}"
    BY DEF jinjaOpeners
  <1> HIDE DEF jinjaOpeners
  <1>3. Closers = {"}}", "%}", "#}"}
    BY <1>1, <1>2 DEF Closers
  <1>4. \A k : IsOpener(k) => jinjaOpeners[k] \in Closers /\ k \notin Closers
    BY <1>1, <1>2, <1>3 DEF IsOpener
  <1>5. \A k, l : IsOpener(k) /\ IsOpener(l) /\ jinjaOpeners[k] = jinjaOpeners[l] => k = l
    BY <1>1, <1>2 DEF IsOpener
  <1>6. Closers \cap Codes = {} /\ "eos" \notin Codes
    BY <1>3 DEF Codes
  <1>7. "ERROR" \notin sectionHeaderKinds
    BY DEF sectionHeaderKinds, kindToSection
  <1> QED
    BY <1>1, <1>2, <1>3, <1>4, <1>5, <1>6, <1>7

-----------------------------------------------------------------------------
(* The stack matching, token by token.                                     *)
StackSet == [Closers -> Seq(Nat)]
NoStacks == [closer \in Closers |-> <<>>]
Take(nodes, within, open, i) == IF i \in within THEN Match(open, nodes[i], i) ELSE open

(* A run of the matching over n nodes.                                     *)
StackRuns(nodes, within, n) ==
    {f \in [0..n -> StackSet] :
        f[0] = NoStacks /\ \A i \in 1..n : f[i] = Take(nodes, within, f[i - 1], i)}

LEMMA StackSteps ==
    ASSUME NEW S, NEW nodes \in Seq(S), NEW within
    PROVE  \E f : /\ f \in StackRuns(nodes, within, Len(nodes))
                  /\ Stacks(nodes, within) = f[Len(nodes)]
  <1> DEFINE n == Len(nodes)
             step == [i \in Nat |-> [open \in StackSet |->
                         IF i \in 1..n THEN Take(nodes, within, open, i) ELSE open]]
             ids == [i \in DOMAIN nodes |-> i]
             Folds(h) == h = [s \in SUBSET (DOMAIN ids) |->
                                IF s = {} THEN NoStacks
                                ELSE LET x == Max(s)
                                     IN  IF ids[x] \in within
                                         THEN Match(h[s \ {x}], nodes[ids[x]], ids[x])
                                         ELSE h[s \ {x}]]
             F == CHOOSE h : Folds(h)
  <1>1. n \in Nat /\ DOMAIN nodes = 1..n /\ DOMAIN ids = 1..n
    OBVIOUS
  <1>2. NoStacks \in StackSet
    BY DEF NoStacks, StackSet
  <1>3. ASSUME NEW i \in 1..n, NEW open \in StackSet
        PROVE  Take(nodes, within, open, i) \in StackSet
    <2>1. i \in Nat
      BY <1>1
    <2> DEFINE kind == nodes[i].kind
    <2>0. kind \in Closers => ~IsOpener(kind)
      BY Delimiters
    <2> HIDE DEF n, kind
    <2>2. CASE i \notin within \/ nodes[i].missing \/ (~IsOpener(kind) /\ kind \notin Closers)
      BY <2>2 DEF Take, Match, kind
    <2>3. CASE i \in within /\ ~nodes[i].missing /\ IsOpener(kind)
      <3>1. jinjaOpeners[kind] \in Closers
        BY <2>3, Delimiters
      <3>2. Append(open[jinjaOpeners[kind]], i) \in Seq(Nat)
        BY <2>1, <3>1 DEF StackSet
      <3>3. Take(nodes, within, open, i) =
              [open EXCEPT ![jinjaOpeners[kind]] = Append(open[jinjaOpeners[kind]], i)]
        BY <2>0, <2>3 DEF Take, Match, kind
      <3> QED
        BY <3>1, <3>2, <3>3 DEF StackSet
    <2>4. CASE i \in within /\ ~nodes[i].missing /\ ~IsOpener(kind) /\ kind \in Closers
      <3>1. open[kind] \in Seq(Nat)
        BY <2>4 DEF StackSet
      <3>2. open[kind] # <<>> => Front(open[kind]) \in Seq(Nat)
        BY <3>1 DEF Front
      <3>3. Take(nodes, within, open, i) =
              [open EXCEPT ![kind] = IF open[kind] = <<>> THEN open[kind] ELSE Front(open[kind])]
        BY <2>4 DEF Take, Match, kind
      <3> QED
        BY <2>4, <3>1, <3>2, <3>3 DEF StackSet
    <2> QED
      BY <2>2, <2>3, <2>4
  <1>4. step \in [Nat -> [StackSet -> StackSet]]
    BY <1>3
  <1> HIDE DEF n, ids
  <1>5. PICK iter : iter \in Foldings(StackSet, NoStacks, step, n)
    <2> HIDE DEF step
    <2> QED
      BY <1>1, <1>2, <1>4, FoldExists
  <1>6. /\ iter \in [SUBSET (1..n) -> StackSet]
        /\ \A s \in SUBSET (1..n) :
              iter[s] = IF s = {} THEN NoStacks ELSE step[Max(s)][iter[s \ {Max(s)}]]
    <2> HIDE DEF step
    <2> QED
      BY <1>5 DEF Foldings
  <1>7. Folds(iter)
    <2>1. ASSUME NEW s \in SUBSET (1..n), s # {}
          PROVE  iter[s] = IF ids[Max(s)] \in within
                           THEN Match(iter[s \ {Max(s)}], nodes[ids[Max(s)]], ids[Max(s)])
                           ELSE iter[s \ {Max(s)}]
      <3>1. Max(s) \in 1..n /\ Max(s) \in Nat
        <4>1. Max(s) \in s
          BY <1>1, <2>1, GreatestMember
        <4>2. Max(s) \in 1..n
          BY <4>1
        <4> QED
          BY <1>1, <4>2
      <3>2. ids[Max(s)] = Max(s)
        BY <1>1, <3>1 DEF ids
      <3>3. s \ {Max(s)} \in SUBSET (1..n)
        OBVIOUS
      <3>4. iter[s \ {Max(s)}] \in StackSet
        BY <1>6, <3>3
      <3>5. iter[s] = Take(nodes, within, iter[s \ {Max(s)}], Max(s))
        BY <1>6, <2>1, <3>1, <3>4
      <3> QED
        BY <3>2, <3>5 DEF Take
    <2> HIDE DEF step
    <2> QED
      BY <1>1, <1>6, <2>1
  <1> HIDE DEF step
  <1>8. Folds(F)
    BY <1>7
  <1>9. Stacks(nodes, within) = F[1..n]
    BY <1>1 DEF Stacks, FoldLeft, MapThenFoldSet, ids, NoStacks
  <1> HIDE DEF F
  <1>10. F[{}] = NoStacks
    BY <1>1, <1>8
  <1>11. ASSUME NEW i \in 1..n PROVE F[1..i] = Take(nodes, within, F[1..i - 1], i)
    <2>1. 1..i \in SUBSET (1..n) /\ i \in Nat /\ i > 0
      BY <1>1
    <2>2. 1..i # {} /\ Max(1..i) = i /\ (1..i) \ {Max(1..i)} = 1..i - 1
      BY <2>1, MaxOfFirst
    <2>3. ids[i] = i
      BY <1>1 DEF ids
    <2> DEFINE s == 1..i
               x == Max(s)
    <2>4. F[s] = IF ids[x] \in within THEN Match(F[s \ {x}], nodes[ids[x]], ids[x])
                 ELSE F[s \ {x}]
      <3>1. s \in SUBSET (DOMAIN ids) /\ s # {}
        BY <1>1, <2>1, <2>2
      <3> HIDE DEF s
      <3> QED
        BY <1>8, <3>1
    <2> QED
      BY <2>2, <2>3, <2>4 DEF Take
  <1> DEFINE f == [i \in 0..n |-> F[1..i]]
             T == {i \in 0..n : f[i] \in StackSet}
  <1>12. f[0] = NoStacks /\ \A i \in 1..n : f[i] = Take(nodes, within, f[i - 1], i)
    <2>1. 1..0 = {} /\ 0 \in 0..n
      BY <1>1
    <2>2. \A i \in 1..n : i \in 0..n /\ i - 1 \in 0..n
      BY <1>1
    <2> QED
      BY <1>10, <1>11, <2>1, <2>2
  <1> HIDE DEF f
  <1>13. 0 \in T
    BY <1>1, <1>2, <1>12
  <1>14. ASSUME NEW i \in 0..n - 1, i \in T PROVE i + 1 \in T
    <2> DEFINE k == i + 1
    <2>1. k \in 1..n /\ k - 1 = i
      BY <1>1
    <2> HIDE DEF k
    <2>2. f[k] \in StackSet
      BY <1>3, <1>12, <1>14, <2>1
    <2> QED
      BY <1>1, <2>1, <2>2 DEF k
  <1>15. \A i \in 0..n : i \in T
    <2> HIDE DEF T
    <2> QED
      BY <1>1, <1>13, <1>14, BoundedInduction
  <1>16. f \in [0..n -> StackSet] /\ f[n] = F[1..n]
    BY <1>1, <1>15 DEF f
  <1>17. f \in StackRuns(nodes, within, n)
    BY <1>12, <1>16 DEF StackRuns
  <1> QED
    BY <1>9, <1>16, <1>17 DEF n
(* Who is on a stack: openers under the node, none of them made up.        *)
LEMMA StackMembers ==
    ASSUME Shaped, NEW within, NEW closer \in Closers
    PROVE  \A i \in ToSet(Stacks(tree, within)[closer]) :
              /\ i \in DOMAIN tree /\ i \in within /\ ~IsMissing(i)
              /\ IsOpener(tree[i].kind) /\ jinjaOpeners[tree[i].kind] = closer
  <1> DEFINE n == Len(tree)
             Waits(i) == /\ i \in DOMAIN tree /\ i \in within /\ ~IsMissing(i)
                         /\ IsOpener(tree[i].kind) /\ jinjaOpeners[tree[i].kind] = closer
  <1>1. PICK f : f \in StackRuns(tree, within, n) /\ Stacks(tree, within) = f[n]
    BY StackSteps DEF Shaped
  <1> DEFINE T == {k \in 0..n : \A i \in ToSet(f[k][closer]) : Waits(i)}
  <1>2. n \in Nat /\ DOMAIN tree = 1..n
    BY TreeNodes
  <1> HIDE DEF n
  <1>3. 0 \in T
    <2>1. f[0][closer] = <<>>
      BY <1>1 DEF StackRuns, NoStacks
    <2>2. ToSet(f[0][closer]) = {}
      BY <2>1 DEF ToSet
    <2> QED
      BY <1>2, <2>2
  <1>4. ASSUME NEW k \in 0..n - 1, k \in T PROVE k + 1 \in T
    <2> DEFINE m == k + 1
               open == f[k]
               kind == tree[m].kind
    <2>1. m \in 1..n /\ m - 1 = k /\ m \in 0..n /\ m \in Nat
      BY <1>2
    <2> HIDE DEF m
    <2>2. open \in StackSet /\ f[m] = Take(tree, within, open, m)
      BY <1>1, <1>2, <2>1 DEF StackRuns
    <2> HIDE DEF open
    <2>3. \A i \in ToSet(open[closer]) : Waits(i)
      BY <1>4 DEF open
    <2>4. open[closer] \in Seq(Nat)
      BY <2>2 DEF StackSet
    <2>5. CASE m \notin within \/ tree[m].missing \/ (~IsOpener(kind) /\ kind \notin Closers)
      <3>1. f[m] = open
        BY <2>2, <2>5 DEF Take, Match
      <3> QED
        BY <2>1, <2>3, <3>1
    <2>6. CASE m \in within /\ ~tree[m].missing /\ IsOpener(kind)
      <3>1. f[m] = [open EXCEPT ![jinjaOpeners[kind]] = Append(open[jinjaOpeners[kind]], m)]
        BY <2>2, <2>6, Delimiters DEF Take, Match
      <3>2. CASE jinjaOpeners[kind] = closer
        <4>1. f[m][closer] = Append(open[closer], m)
          BY <2>2, <3>1, <3>2 DEF StackSet
        <4>2. \A i \in ToSet(f[m][closer]) : i \in ToSet(open[closer]) \/ i = m
          BY <2>1, <2>4, <4>1 DEF ToSet
        <4>3. Waits(m)
          BY <1>2, <2>1, <2>6, <3>2 DEF IsMissing
        <4> HIDE DEF Waits
        <4> QED
          BY <2>1, <2>3, <4>2, <4>3
      <3>3. CASE jinjaOpeners[kind] # closer
        <4>1. f[m][closer] = open[closer]
          BY <2>2, <3>1, <3>3 DEF StackSet
        <4> QED
          BY <2>1, <2>3, <4>1
      <3> QED
        BY <3>2, <3>3
    <2>7. CASE m \in within /\ ~tree[m].missing /\ ~IsOpener(kind) /\ kind \in Closers
      <3>1. f[m] = [open EXCEPT ![kind] = IF open[kind] = <<>> THEN open[kind]
                                          ELSE Front(open[kind])]
        BY <2>2, <2>7 DEF Take, Match
      <3>2. f[m][closer] \in {open[closer], Front(open[closer])}
        BY <2>2, <2>7, <3>1 DEF StackSet
      <3>3. \A i \in ToSet(Front(open[closer])) : i \in ToSet(open[closer])
        BY <2>4 DEF ToSet, Front
      <3> HIDE DEF Waits
      <3> QED
        BY <2>1, <2>3, <3>2, <3>3
    <2> QED
      BY <2>5, <2>6, <2>7 DEF m
  <1>5. \A k \in 0..n : k \in T
    <2> HIDE DEF T
    <2> QED
      BY <1>2, <1>3, <1>4, BoundedInduction
  <1> QED
    BY <1>1, <1>2, <1>5

-----------------------------------------------------------------------------
(* Of the ERRORs around a node one has none around it.                     *)
LEMMA OuterError ==
    ASSUME Shaped, NEW i \in DOMAIN tree, inError(i)
    PROVE  \E e \in Ancestors(i) : e \in DOMAIN tree /\ IsError(e) /\ ~inError(e)
  <1> DEFINE S == {a \in Ancestors(i) : IsError(a)}
  <1>1. Ancestors(i) \subseteq 1..i - 1 /\ i \in 1..Len(tree) /\ DOMAIN tree = 1..Len(tree)
        /\ Len(tree) \in Nat
    BY AncestorsChain, TreeNodes
  <1>2. S \in SUBSET Nat /\ S # {}
    BY <1>1 DEF inError
  <1>3. PICK e \in S : \A a \in S : e <= a
    <2> HIDE DEF S
    <2> QED
      BY <1>2, LeastMember
  <1>4. Ancestors(e) = {b \in Ancestors(i) : b < e}
    BY AncestorsChain
  <1>5. ASSUME NEW a \in Ancestors(e), IsError(a) PROVE FALSE
    <2>1. a \in S /\ a < e
      BY <1>4, <1>5
    <2>2. a \in Nat /\ e \in Nat
      BY <1>2, <2>1
    <2> QED
      BY <1>3, <2>1, <2>2
  <1>6. e \in DOMAIN tree
    BY <1>1
  <1> QED
    BY <1>5, <1>6 DEF inError

(* And only one.                                                           *)
LEMMA OneOuterError ==
    ASSUME Shaped, NEW i \in DOMAIN tree, NEW d \in Ancestors(i), NEW e \in Ancestors(i),
           IsError(d), ~inError(d), IsError(e), ~inError(e)
    PROVE  d = e
  <1>1. d \in Nat /\ e \in Nat
    BY AncestorsChain, TreeNodes
  <1>2. ~(d < e) /\ ~(e < d)
    BY AncestorsChain DEF inError
  <1> QED
    BY <1>1, <1>2

(* The nearest of some ancestors is one of them and comes after the rest.  *)
LEMMA Nearest ==
    ASSUME Shaped, NEW i \in DOMAIN tree, NEW S \in SUBSET (Ancestors(i) \cup {i}), S # {}
    PROVE  Innermost(S) \in S /\ \A k \in S : k <= Innermost(S)
  <1>1. i \in Nat /\ S \in SUBSET (1..i)
    <2>1. Ancestors(i) \subseteq 1..i - 1 /\ i \in 1..Len(tree) /\ Len(tree) \in Nat
      BY AncestorsChain, TreeNodes
    <2> QED
      BY <2>1
  <1>2. Max(S) \in S /\ \A k \in S : k <= Max(S)
    BY <1>1, GreatestMember
  <1> QED
    BY <1>2 DEF Innermost

-----------------------------------------------------------------------------
(* What a visit can report: on the node itself, on the openers under an    *)
(* ERROR, and on the header of the section whose terminator is missing.    *)
OnItself(d, i) ==
    /\ d.at = i /\ d.severity # "Warning"
    /\ \/ d.code = "syntax-error" /\ ~inError(i)
       \/ d.code \in {"wrong-section", "protocol-mismatch"}
       \/ d.code = tree[i].kind /\ d.code \notin Codes /\ IsMissing(i) /\ ~inError(i)
OnOpener(d, i) ==
    /\ IsError(i) /\ ~inError(i) /\ d.severity = "Error"
    /\ d \in unclosedJinjaDiagnostics(i)
    /\ d.code \in Closers /\ d.at \in DOMAIN tree /\ i \in Ancestors(d.at) /\ ~IsMissing(d.at)
    /\ IsOpener(tree[d.at].kind) /\ d.at \in ToSet(Stacks(tree, Descendants(i))[d.code])
OnHeader(d, i) ==
    /\ d.severity = "Warning" /\ d.code = "eos" /\ d.at = parent(i)
    /\ IsMissing(i) /\ tree[i].kind = "eos" /\ IsSectionHeader(parent(i)) /\ ~inError(i)

LEMMA ReportKinds ==
    ASSUME Shaped, NEW i \in DOMAIN tree, NEW d \in Report(i)
    PROVE  OnItself(d, i) \/ OnOpener(d, i) \/ OnHeader(d, i)
  <1>1. CASE ~inError(i) /\ d \in appendSyntaxDiag(i)
    <2>1. CASE IsError(i) /\ d = Error("syntax-error", i)
      BY <1>1, <2>1 DEF Error, OnItself
    <2>2. CASE IsError(i) /\ d \in unclosedJinjaDiagnostics(i)
      <3>1. PICK closer \in Closers :
               \E k \in ToSet(Stacks(tree, Descendants(i))[closer]) : d = Error(closer, k)
        BY <2>2 DEF unclosedJinjaDiagnostics
      <3>2. PICK k \in ToSet(Stacks(tree, Descendants(i))[closer]) : d = Error(closer, k)
        BY <3>1
      <3>3. k \in DOMAIN tree /\ k \in Descendants(i) /\ ~IsMissing(k) /\ IsOpener(tree[k].kind)
        BY StackMembers
      <3>4. i \in Ancestors(k)
        BY <3>3 DEF Descendants
      <3>5. d.code = closer /\ d.at = k /\ d.severity = "Error"
        BY <3>2 DEF Error
      <3> QED
        BY <1>1, <2>2, <3>3, <3>4, <3>5 DEF OnOpener
    <2>3. CASE IsMissing(i) /\ ~IsError(i) /\ d = missingDiagnostic(i)
      <3>1. tree[i].kind \notin Codes
        BY TreeNodes
      <3> QED
        BY <1>1, <2>3, <3>1 DEF missingDiagnostic, Error, OnItself, OnHeader
    <2> QED
      BY <1>1, <2>1, <2>2, <2>3, TreeNodes DEF appendSyntaxDiag
  <1>2. CASE d \in appendWrongSection(i) \cup appendProtocolMismatch(i)
    <2>1. \/ d = [code |-> "wrong-section", at |-> i, severity |-> "Hint"]
          \/ d = [code |-> "protocol-mismatch", at |-> i, severity |-> "Error"]
      BY <1>2 DEF appendWrongSection, appendProtocolMismatch, Error
    <2> QED
      BY <2>1 DEF OnItself
  <1> QED
    BY <1>1, <1>2 DEF Report

(* At the end all reports are in.                                          *)
LEMMA AllReported ==
    ASSUME IInv, Done
    PROVE  diags = UNION {Report(i) : i \in DOMAIN tree}
  <1>1. DOMAIN tree = 1..visited
    BY TreeNodes DEF IInv, Done
  <1> QED
    BY <1>1 DEF IInv, Collected

(* An ERROR that is in no other is reported, and so is a missing node.     *)
LEMMA RecoveryInReport ==
    ASSUME Shaped, NEW i \in DOMAIN tree, ~inError(i)
    PROVE  /\ IsError(i) => /\ Error("syntax-error", i) \in Report(i)
                            /\ unclosedJinjaDiagnostics(i) \subseteq Report(i)
           /\ IsMissing(i) => missingDiagnostic(i) \in Report(i)
  <1>1. IsError(i) => ~IsMissing(i)
    BY TreeNodes
  <1>2. IsError(i) => appendSyntaxDiag(i) = {Error("syntax-error", i)} \cup unclosedJinjaDiagnostics(i)
    BY <1>1 DEF appendSyntaxDiag
  <1>3. IsMissing(i) => appendSyntaxDiag(i) = {missingDiagnostic(i)}
    BY <1>1 DEF appendSyntaxDiag
  <1> QED
    BY <1>2, <1>3 DEF Report

-----------------------------------------------------------------------------
(* A wrong-section hint is kept back only where the syntax pass has         *)
(* something to say above the command (unreliableSectionContext).          *)
LEMMA SuppressedByReported ==
    ASSUME IInv PROVE SuppressedIsSurfaced
  <1> SUFFICES ASSUME Done, NEW i \in DOMAIN tree, IsCommandLike(i), IsMisplaced(i)
               PROVE  \E d \in diags :
                         \/ d.at = i /\ d.code = "wrong-section"
                         \/ d.at \in Ancestors(i) /\ d.code \in {"syntax-error", "eos"}
    BY DEF SuppressedIsSurfaced
  <1> USE DEF IInv
  <1>1. diags = UNION {Report(k) : k \in DOMAIN tree}
    BY AllReported
  <1>2. Ancestors(i) \subseteq DOMAIN tree
    BY AncestorsChain, TreeNodes
  <1>3. ASSUME inError(i)
        PROVE  \E d \in diags : d.at \in Ancestors(i) /\ d.code = "syntax-error"
    <2>1. PICK e \in Ancestors(i) : e \in DOMAIN tree /\ IsError(e) /\ ~inError(e)
      BY <1>3, OuterError
    <2>2. Error("syntax-error", e) \in diags
      BY <1>1, <2>1, RecoveryInReport
    <2>3. Error("syntax-error", e).at = e /\ Error("syntax-error", e).code = "syntax-error"
      BY DEF Error
    <2> QED
      BY <2>1, <2>2, <2>3
  <1>4. CASE ~unreliableSectionContext(i)
    <2> DEFINE d == [code |-> "wrong-section", at |-> i, severity |-> "Hint"]
    <2>1. d \in Report(i)
      BY <1>4 DEF Report, appendWrongSection
    <2>2. d.at = i /\ d.code = "wrong-section" /\ d \in diags
      BY <1>1, <2>1
    <2> QED
      BY <2>2
  <1>5. CASE unreliableSectionContext(i) /\ ~inError(i)
    <2> DEFINE around == {a \in Ancestors(i) : IsSectionHeader(a)}
               s == Innermost(around)
    <2>1. around # {} /\ hasMissingEos(s)
      BY <1>5 DEF unreliableSectionContext, inError
    <2>2. s \in Ancestors(i) /\ IsSectionHeader(s)
      <3>1. around \in SUBSET (Ancestors(i) \cup {i})
        OBVIOUS
      <3>2. s \in around
        <4> HIDE DEF around
        <4> QED
          BY <2>1, <3>1, Nearest
      <3> QED
        BY <3>2
    <2> HIDE DEF s
    <2>3. PICK c \in DOMAIN tree : parent(c) = s /\ IsMissing(c) /\ tree[c].kind = "eos"
      BY <2>1 DEF hasMissingEos, Children
    <2>4. ~inError(c)
      <3>1. parent(c) # 0
        BY <1>2, <2>2, <2>3, TreeNodes
      <3>2. Ancestors(c) = {s} \cup Ancestors(s)
        BY <2>3, <3>1, AncestorsStep
      <3>3. Ancestors(c) \subseteq Ancestors(i)
        BY <2>2, <3>2, AncestorsChain
      <3> QED
        BY <1>5, <3>3 DEF inError
    <2> DEFINE d == [code |-> "eos", at |-> s, severity |-> "Warning"]
    <2>5. d \in Report(c)
      <3>1. missingDiagnostic(c) = d
        BY <2>2, <2>3 DEF missingDiagnostic
      <3> QED
        BY <2>3, <2>4, <3>1, RecoveryInReport
    <2>6. d \in diags /\ d.at = s /\ d.code = "eos"
      BY <1>1, <2>5
    <2> QED
      BY <2>2, <2>6
  <1> QED
    BY <1>3, <1>4, <1>5

(* The recovery nodes reported are those with no ERROR around them         *)
(* (collectTreeDiags).                                                     *)
LEMMA OuterRecoveryReported ==
    ASSUME IInv PROVE RecoveryReported
  <1> SUFFICES ASSUME Done, NEW i \in DOMAIN tree
               PROVE  /\ IsError(i) => (Error("syntax-error", i) \in diags <=> ~inError(i))
                      /\ IsMissing(i) => (missingDiagnostic(i) \in diags <=> ~inError(i))
    BY DEF RecoveryReported, Error, inError
  <1> USE DEF IInv
  <1>1. diags = UNION {Report(k) : k \in DOMAIN tree}
    BY AllReported
  <1>2. ASSUME ~inError(i)
        PROVE  /\ IsError(i) => Error("syntax-error", i) \in diags
               /\ IsMissing(i) => missingDiagnostic(i) \in diags
    BY <1>1, <1>2, RecoveryInReport
  <1>3. ASSUME Error("syntax-error", i) \in diags PROVE ~inError(i)
    <2> DEFINE d == Error("syntax-error", i)
    <2>1. d.code = "syntax-error" /\ d.at = i /\ d.severity = "Error"
      BY DEF Error
    <2>2. PICK k \in DOMAIN tree : d \in Report(k)
      BY <1>1, <1>3
    <2>3. d.code \notin Closers /\ d.code \in Codes
      BY <2>1, Delimiters DEF Codes
    <2> HIDE DEF d
    <2> QED
      BY <2>1, <2>2, <2>3, ReportKinds DEF OnItself, OnOpener, OnHeader
  <1>4. ASSUME IsMissing(i), missingDiagnostic(i) \in diags PROVE ~inError(i)
    <2> DEFINE d == missingDiagnostic(i)
    <2>1. PICK k \in DOMAIN tree : d \in Report(k)
      BY <1>1, <1>4
    <2>2. CASE tree[i].kind = "eos" /\ IsSectionHeader(parent(i))
      <3>1. d.code = "eos" /\ d.at = parent(i) /\ d.severity = "Warning"
        BY <2>2 DEF missingDiagnostic
      <3> HIDE DEF d
      <3>2. OnHeader(d, k)
        BY <2>1, <3>1, ReportKinds DEF OnItself, OnOpener
      <3>3. parent(k) = parent(i) /\ ~inError(k)
        BY <3>1, <3>2 DEF OnHeader
      <3>4. Ancestors(k) = Ancestors(i)
        BY <3>3, AncestorsStep
      <3> QED
        BY <3>3, <3>4 DEF inError
    <2>3. CASE ~(tree[i].kind = "eos" /\ IsSectionHeader(parent(i)))
      <3>1. d.code = tree[i].kind /\ d.at = i /\ d.severity = "Error"
        BY <2>3 DEF missingDiagnostic, Error
      <3>2. d.code \notin Codes
        BY <3>1, TreeNodes
      <3> HIDE DEF d
      <3>3. OnItself(d, k)
        BY <1>4, <2>1, <3>1, ReportKinds DEF OnOpener, OnHeader
      <3> QED
        BY <3>1, <3>2, <3>3 DEF OnItself, Codes
    <2> QED
      BY <2>2, <2>3
  <1> QED
    BY <1>2, <1>3, <1>4

(* No two nodes report the same.                                           *)
LEMMA ReportsDiffer ==
    ASSUME IInv, NEW k \in DOMAIN tree, NEW m \in DOMAIN tree, k # m
    PROVE  Report(k) \cap Report(m) = {}
  <1> USE DEF IInv
  <1> SUFFICES ASSUME NEW d \in Report(k), d \in Report(m) PROVE FALSE
    OBVIOUS
  <1>1. OnItself(d, k) \/ OnOpener(d, k) \/ OnHeader(d, k)
    BY ReportKinds
  <1>2. OnItself(d, m) \/ OnOpener(d, m) \/ OnHeader(d, m)
    BY ReportKinds
  <1>3. ~(OnItself(d, k) /\ OnItself(d, m))
    BY DEF OnItself
  <1>4. ASSUME NEW x \in DOMAIN tree, NEW y \in DOMAIN tree, OnItself(d, x)
        PROVE  ~OnOpener(d, y) /\ ~OnHeader(d, y)
    <2>1. ASSUME OnOpener(d, y) PROVE FALSE
      <3>1. d.code \in Closers /\ ~IsMissing(d.at) /\ d.at = x
        BY <1>4, <2>1 DEF OnItself, OnOpener
      <3>2. d.code \notin Codes
        BY <3>1, Delimiters
      <3> QED
        BY <1>4, <3>1, <3>2 DEF OnItself, Codes
    <2>2. ~OnHeader(d, y)
      BY <1>4 DEF OnItself, OnHeader
    <2> QED
      BY <2>1, <2>2
  <1>5. ASSUME OnOpener(d, k), OnOpener(d, m) PROVE FALSE
    <2>1. d.at \in DOMAIN tree /\ k \in Ancestors(d.at) /\ m \in Ancestors(d.at)
          /\ IsError(k) /\ IsError(m) /\ ~inError(k) /\ ~inError(m)
      BY <1>5 DEF OnOpener
    <2> QED
      BY <2>1, OneOuterError
  <1>6. \A x, y : ~(OnOpener(d, x) /\ OnHeader(d, y))
    BY DEF OnOpener, OnHeader
  <1>7. ASSUME OnHeader(d, k), OnHeader(d, m) PROVE FALSE
    <2>1. /\ parent(k) = parent(m) /\ IsMissing(k) /\ IsMissing(m)
          /\ tree[k].kind = "eos" /\ tree[m].kind = "eos" /\ IsSectionHeader(parent(k))
      BY <1>7 DEF OnHeader
    <2>2. ~IsError(parent(k))
      BY <2>1, Delimiters DEF IsSectionHeader, IsError
    <2>3. k # 1 /\ m # 1 /\ DOMAIN tree = 1..Len(tree) /\ Len(tree) \in Nat
      BY <2>1, TreeNodes
    <2>4. k \in 2..Len(tree) /\ m \in 2..Len(tree)
      BY <2>3
    <2> QED
      BY <2>1, <2>2, <2>4 DEF EosEnds
  <1> QED
    BY <1>1, <1>2, <1>3, <1>4, <1>5, <1>6, <1>7

(* So a visit reports nothing that is there already.                       *)
LEMMA NothingTwice ==
    ASSUME IInv PROVE ReportedOnce
  <1> SUFFICES ASSUME visited < Len(tree) PROVE Report(visited + 1) \cap diags = {}
    BY DEF ReportedOnce
  <1> DEFINE m == visited + 1
  <1>1. /\ DOMAIN tree = 1..Len(tree) /\ Len(tree) \in Nat /\ visited \in Nat
        /\ diags = UNION {Report(i) : i \in 1..visited}
    BY TreeNodes DEF IInv, Collected
  <1>2. m \in DOMAIN tree /\ \A k \in 1..visited : k \in DOMAIN tree /\ k # m
    BY <1>1
  <1> HIDE DEF m
  <1>3. \A k \in 1..visited : Report(k) \cap Report(m) = {}
    BY <1>2, ReportsDiffer
  <1>4. Report(m) \cap diags = {}
    BY <1>1, <1>3
  <1> QED
    BY <1>4 DEF m

(* A command's protocol is checked against the innermost header's.          *)
Headers(i) == {a \in Ancestors(i) : IsSectionHeader(a)}
Routers(i) == {r \in Headers(i) : tree[r].kind = "router_section"}
Owned(i) == OwningProtocol(i) # ""
Foreign(i) ==
    /\ Routers(i) # {}
    /\ tree[Innermost(Routers(i))].text \notin {"", OwningProtocol(i)}
    /\ tree[Innermost(Headers(i))].kind \in {"router_section", "address_family_section"}

LEMMA MismatchReaches ==
    ASSUME IInv PROVE ProtocolReaches
  <1> SUFFICES ASSUME Done, NEW i \in DOMAIN tree, IsCommandLike(i), Owned(i)
               PROVE  Error("protocol-mismatch", i) \in diags <=> Foreign(i)
    BY DEF ProtocolReaches, Owned, Foreign, Headers, Routers
  <1> USE DEF IInv
  <1> DEFINE headers == Headers(i)
             routers == Routers(i)
             s == Innermost(headers)
             r == Innermost(routers)
             own == OwningProtocol(i)
  <1>1. diags = UNION {Report(k) : k \in DOMAIN tree}
    BY AllReported
  <1>2. Error("protocol-mismatch", i) \in diags <=> EnclosingSection(i).protocol \notin {"", own}
    <2> DEFINE d == Error("protocol-mismatch", i)
    <2>1. d.code = "protocol-mismatch" /\ d.at = i /\ d.severity = "Error"
      BY DEF Error
    <2>2. d \in appendProtocolMismatch(i) <=> EnclosingSection(i).protocol \notin {"", own}
      BY DEF appendProtocolMismatch, Owned
    <2>3. d \in diags <=> d \in Report(i)
      <3>1. ASSUME NEW k \in DOMAIN tree, d \in Report(k) PROVE k = i
        <4>1. d.code \in Codes /\ d.code \notin Closers
          BY <2>1, Delimiters DEF Codes
        <4> HIDE DEF d
        <4>2. OnItself(d, k)
          BY <2>1, <3>1, <4>1, ReportKinds DEF OnOpener, OnHeader
        <4> QED
          BY <2>1, <4>2 DEF OnItself
      <3> QED
        BY <1>1, <3>1
    <2>4. d \in Report(i) <=> d \in appendProtocolMismatch(i)
      <3>1. ASSUME d \in Report(i) PROVE d \in appendProtocolMismatch(i)
        <4>1. ASSUME ~inError(i), d \in appendSyntaxDiag(i) PROVE FALSE
          <5>1. CASE d = Error("syntax-error", i)
            BY <2>1, <5>1 DEF Error
          <5>2. CASE d \in unclosedJinjaDiagnostics(i)
            <6>1. PICK closer \in Closers :
                     \E k \in ToSet(Stacks(tree, Descendants(i))[closer]) : d = Error(closer, k)
              BY <5>2 DEF unclosedJinjaDiagnostics
            <6>2. d.code = closer
              BY <6>1 DEF Error
            <6> QED
              BY <2>1, <6>2, Delimiters DEF Codes
          <5>3. CASE d = missingDiagnostic(i)
            <6>1. d.code = tree[i].kind \/ d.code = "eos"
              BY <5>3 DEF missingDiagnostic, Error
            <6>2. tree[i].kind \notin Codes
              BY TreeNodes
            <6> QED
              BY <2>1, <6>1, <6>2 DEF Codes
          <5> QED
            BY <4>1, <5>1, <5>2, <5>3, TreeNodes DEF appendSyntaxDiag
        <4>2. d \notin appendWrongSection(i)
          <5> DEFINE h == [code |-> "wrong-section", at |-> i, severity |-> "Hint"]
          <5>1. h.code = "wrong-section"
            OBVIOUS
          <5>2. d # h
            <6> HIDE DEF d, h
            <6> QED
              BY <2>1, <5>1
          <5> QED
            BY <5>2 DEF appendWrongSection
        <4> QED
          BY <3>1, <4>1, <4>2 DEF Report
      <3> QED
        BY <3>1 DEF Report
    <2> QED
      BY <2>2, <2>3, <2>4
  <1>3. {a \in Ancestors(i) \cup {i} : IsSectionHeader(a)} = headers
    <2>1. ~IsSectionHeader(i)
      BY DEF IsSectionHeader, sectionHeaderKinds, kindToSection, IsCommandLike, nodeKindToProtocol
    <2> QED
      BY <2>1 DEF Headers
  <1>4. CASE headers = {}
    <2>1. EnclosingSection(i).protocol = ""
      BY <1>3, <1>4 DEF EnclosingSection
    <2>2. routers = {}
      BY <1>4 DEF Routers
    <2> QED
      BY <1>2, <2>1, <2>2 DEF Foreign
  <1>5. CASE headers # {}
    <2>1. s \in headers /\ \A k \in headers : k <= s
      <3>1. headers \in SUBSET (Ancestors(i) \cup {i})
        BY DEF Headers
      <3> HIDE DEF headers
      <3> QED
        BY <1>5, <3>1, Nearest
    <2>2. EnclosingSection(i).protocol =
            IF tree[s].kind = "ip_access_list_section" THEN "" ELSE protocolFor(s)
      BY <1>3, <1>5 DEF EnclosingSection
    <2>3. s \in Ancestors(i) /\ Ancestors(i) \subseteq DOMAIN tree /\ Ancestors(i) \subseteq Nat
      <3>1. Ancestors(i) \subseteq 1..i - 1 /\ i \in 1..Len(tree) /\ Len(tree) \in Nat
            /\ DOMAIN tree = 1..Len(tree)
        BY AncestorsChain, TreeNodes
      <3>2. s \in Ancestors(i)
        BY <2>1 DEF Headers
      <3>3. \A k \in 1..i - 1 : k \in 1..Len(tree) /\ k \in Nat
        BY <3>1
      <3> HIDE DEF s
      <3> QED
        BY <3>1, <3>2, <3>3
    <2>4. routers # {} => r \in routers /\ \A k \in routers : k <= r
      <3>1. routers \in SUBSET (Ancestors(i) \cup {i})
        BY DEF Routers, Headers
      <3> HIDE DEF routers
      <3> QED
        BY <3>1, Nearest
    <2>5. \A k : k \in routers <=> k \in headers /\ tree[k].kind = "router_section"
      BY DEF Routers
    <2>6. Foreign(i) <=> /\ routers # {}
                         /\ tree[r].text \notin {"", own}
                         /\ tree[s].kind \in {"router_section", "address_family_section"}
      BY DEF Foreign
    <2>7. headers \subseteq Ancestors(i)
      BY DEF Headers
    <2> HIDE DEF headers, routers, r, s, own
    <2>8. CASE tree[s].kind = "router_section"
      <3>1. s \in routers /\ r \in headers
        BY <2>1, <2>4, <2>5, <2>8
      <3>2. r <= s /\ s <= r /\ r \in Nat /\ s \in Nat
        BY <2>1, <2>3, <2>4, <2>7, <3>1
      <3>3. r = s
        BY <3>2
      <3>4. protocolFor(s) = tree[s].text
        BY <2>8 DEF protocolFor
      <3> QED
        BY <1>2, <2>2, <2>6, <2>8, <3>1, <3>3, <3>4
    <2>9. CASE tree[s].kind = "address_family_section"
      <3>1. {p \in Ancestors(s) : tree[p].kind = "router_section"} = routers
        <4>1. Ancestors(s) = {b \in Ancestors(i) : b < s}
          BY <2>3, AncestorsChain
        <4>2. \A b \in routers : b # s /\ b <= s /\ b \in Nat /\ s \in Nat
          BY <2>1, <2>3, <2>5, <2>7, <2>9
        <4>3. \A b \in routers : b < s
          BY <4>2
        <4>4. \A b \in Ancestors(i) : tree[b].kind = "router_section" => b \in headers
          BY DEF IsSectionHeader, sectionHeaderKinds, kindToSection, headers, Headers
        <4> QED
          BY <2>5, <2>7, <4>1, <4>3, <4>4
      <3>2. protocolFor(s) = IF routers # {} THEN tree[r].text ELSE ""
        BY <2>9, <3>1 DEF protocolFor, r
      <3> QED
        BY <1>2, <2>2, <2>6, <2>9, <3>2
    <2>10. CASE tree[s].kind \notin {"router_section", "address_family_section"}
      <3>1. protocolFor(s) = ""
        BY <2>10 DEF protocolFor
      <3> QED
        BY <1>2, <2>2, <2>6, <2>10, <3>1
    <2> QED
      BY <2>8, <2>9, <2>10
  <1> QED
    BY <1>4, <1>5

-----------------------------------------------------------------------------
(* Counting tokens.                                                        *)
Token(within, kind, t) == t \in within /\ tree[t].kind = kind /\ ~IsMissing(t)
Tokens(within, kind, i, k) == {t \in i..k : Token(within, kind, t)}
Tally(within, kind, i, k) == Cardinality(Tokens(within, kind, i, k))

(* One token more.                                                         *)
LEMMA TallyStep ==
    ASSUME NEW within, NEW kind, NEW i \in Nat, NEW m \in Nat, i <= m
    PROVE  /\ Tally(within, kind, i, m) \in Nat
           /\ Token(within, kind, m) =>
                Tally(within, kind, i, m) = Tally(within, kind, i, m - 1) + 1
           /\ ~Token(within, kind, m) =>
                Tally(within, kind, i, m) = Tally(within, kind, i, m - 1)
  <1> DEFINE new == Tokens(within, kind, i, m)
             old == Tokens(within, kind, i, m - 1)
  <1>1. i..m = i..m - 1 \cup {m} /\ m \notin i..m - 1
    OBVIOUS
  <1>2. IsFiniteSet(new) /\ IsFiniteSet(old) /\ m \notin old
    <2>1. IsFiniteSet(i..m) /\ IsFiniteSet(i..m - 1)
      BY FS_Interval
    <2>2. new \subseteq i..m /\ old \subseteq i..m - 1
      BY DEF Tokens
    <2> QED
      BY <1>1, <2>1, <2>2, FS_Subset
  <1>3. Cardinality(new) \in Nat /\ Cardinality(old) \in Nat
    BY <1>2, FS_CardinalityType
  <1>4. Token(within, kind, m) => new = old \cup {m}
    BY <1>1 DEF Tokens
  <1>5. ~Token(within, kind, m) => new = old
    BY <1>1 DEF Tokens
  <1>6. Cardinality(old \cup {m}) = Cardinality(old) + 1
    BY <1>2, FS_AddElement
  <1> HIDE DEF new, old
  <1> QED
    BY <1>3, <1>4, <1>5, <1>6 DEF Tally, new, old

(* And none to begin with.                                                 *)
LEMMA TallyNone ==
    ASSUME NEW within, NEW kind, NEW i \in Nat
    PROVE  Tally(within, kind, i, i - 1) = 0
  <1>1. Tokens(within, kind, i, i - 1) = {}
    <2>1. i..i - 1 = {}
      OBVIOUS
    <2> QED
      BY <2>1 DEF Tokens
  <1> QED
    BY <1>1, FS_EmptySet DEF Tally

-----------------------------------------------------------------------------
(* The stack of a delimiter after k tokens: from an opener on it, up to    *)
(* any token, there were more openers than closers, and in all as many     *)
(* more as there are openers from it to the top; from an opener that has   *)
(* left it, there was a token up to which the closers made up for them.    *)
Open(within, opener, i, l) ==
    Tally(within, jinjaOpeners[opener], i, l) < Tally(within, opener, i, l)
Balanced(within, opener, stack, k) ==
    /\ stack \in Seq(Nat)
    /\ \A j \in 1..Len(stack) :
        /\ stack[j] \in 1..k /\ Token(within, opener, stack[j])
        /\ Tally(within, opener, stack[j], k) =
              Tally(within, jinjaOpeners[opener], stack[j], k) + (Len(stack) - j + 1)
        /\ \A l \in stack[j]..k : Open(within, opener, stack[j], l)
    /\ \A i \in 1..k : Token(within, opener, i) /\ i \notin ToSet(stack) =>
        \E l \in i..k : ~Open(within, opener, i, l)

(* A token of another kind changes nothing.                                *)
LEMMA PassesOther ==
    ASSUME NEW within, NEW opener, NEW stack, NEW m \in Nat, m > 0,
           Balanced(within, opener, stack, m - 1),
           ~Token(within, opener, m), ~Token(within, jinjaOpeners[opener], m)
    PROVE  Balanced(within, opener, stack, m)
  <1> DEFINE closer == jinjaOpeners[opener]
  <1>1. stack \in Seq(Nat) /\ Len(stack) \in Nat
    BY DEF Balanced
  <1>2. \A i \in 1..m : i \in Nat /\ i <= m /\ (i \in 1..m - 1 \/ i = m)
    OBVIOUS
  <1>3. \A i \in 1..m - 1 : /\ i \in 1..m
                            /\ \A l \in i..m : l \in i..m - 1 \/ l = m
                            /\ \A l \in i..m - 1 : l \in i..m
                            /\ m - 1 \in i..m - 1
    OBVIOUS
  <1>4. \A i \in 1..m : /\ Tally(within, opener, i, m) = Tally(within, opener, i, m - 1)
                        /\ Tally(within, closer, i, m) = Tally(within, closer, i, m - 1)
    BY <1>2, TallyStep
  <1>5. \A i \in 1..m - 1 : Open(within, opener, i, m) = Open(within, opener, i, m - 1)
    BY <1>3, <1>4 DEF Open
  <1>6. ASSUME NEW j \in 1..Len(stack)
        PROVE  /\ stack[j] \in 1..m /\ Token(within, opener, stack[j])
               /\ Tally(within, opener, stack[j], m) =
                     Tally(within, closer, stack[j], m) + (Len(stack) - j + 1)
               /\ \A l \in stack[j]..m : Open(within, opener, stack[j], l)
    <2> DEFINE i == stack[j]
    <2>1. /\ i \in 1..m - 1 /\ Token(within, opener, i)
          /\ Tally(within, opener, i, m - 1) =
                Tally(within, closer, i, m - 1) + (Len(stack) - j + 1)
          /\ \A l \in i..m - 1 : Open(within, opener, i, l)
      BY DEF Balanced
    <2> HIDE DEF i
    <2>2. i \in 1..m
      BY <1>3, <2>1
    <2>3. Tally(within, opener, i, m) = Tally(within, closer, i, m) + (Len(stack) - j + 1)
      BY <1>4, <2>1, <2>2
    <2>4. \A l \in i..m : Open(within, opener, i, l)
      BY <1>3, <1>5, <2>1
    <2> QED
      BY <2>1, <2>2, <2>3, <2>4 DEF i
  <1>7. ASSUME NEW i \in 1..m, Token(within, opener, i), i \notin ToSet(stack)
        PROVE  \E l \in i..m : ~Open(within, opener, i, l)
    <2>1. i \in 1..m - 1
      BY <1>2, <1>7
    <2>2. \E l \in i..m - 1 : ~Open(within, opener, i, l)
      BY <1>7, <2>1 DEF Balanced
    <2> QED
      BY <1>3, <2>1, <2>2
  <1> QED
    BY <1>1, <1>6, <1>7 DEF Balanced

(* An opener is pushed.                                                    *)
LEMMA PushesOpener ==
    ASSUME NEW within, NEW opener, NEW stack, NEW m \in Nat, m > 0,
           Balanced(within, opener, stack, m - 1),
           Token(within, opener, m), ~Token(within, jinjaOpeners[opener], m)
    PROVE  Balanced(within, opener, Append(stack, m), m)
  <1> DEFINE closer == jinjaOpeners[opener]
             pushed == Append(stack, m)
             top == Len(stack) + 1
  <1>1. stack \in Seq(Nat) /\ Len(stack) \in Nat
    BY DEF Balanced
  <1>2. /\ pushed \in Seq(Nat) /\ Len(pushed) = top /\ pushed[top] = m
        /\ \A j \in 1..Len(stack) : pushed[j] = stack[j]
        /\ \A j \in 1..top : j \in 1..Len(stack) \/ j = top
        /\ top \in 1..top
    BY <1>1
  <1>3. \A i \in 1..m : i \in Nat /\ i <= m /\ (i \in 1..m - 1 \/ i = m)
    OBVIOUS
  <1>4. \A i \in 1..m - 1 : /\ i \in 1..m
                            /\ \A l \in i..m : l \in i..m - 1 \/ l = m
                            /\ \A l \in i..m - 1 : l \in i..m
                            /\ m - 1 \in i..m - 1
    OBVIOUS
  <1>5. \A i \in 1..m : /\ Tally(within, opener, i, m) = Tally(within, opener, i, m - 1) + 1
                        /\ Tally(within, closer, i, m) = Tally(within, closer, i, m - 1)
                        /\ Tally(within, opener, i, m) \in Nat
                        /\ Tally(within, closer, i, m) \in Nat
    BY <1>3, TallyStep
  <1>6. \A i \in 1..m - 1 : /\ Tally(within, opener, i, m - 1) \in Nat
                            /\ Tally(within, closer, i, m - 1) \in Nat
    <2>1. m - 1 \in Nat /\ \A i \in 1..m - 1 : i \in Nat /\ i <= m - 1
      OBVIOUS
    <2> QED
      BY <2>1, TallyStep
  <1>7. \A i \in 1..m - 1 : Open(within, opener, i, m - 1) => Open(within, opener, i, m)
    BY <1>4, <1>5, <1>6 DEF Open
  <1> HIDE DEF pushed, top
  <1>8. ASSUME NEW j \in 1..top
        PROVE  /\ pushed[j] \in 1..m /\ Token(within, opener, pushed[j])
               /\ Tally(within, opener, pushed[j], m) =
                     Tally(within, closer, pushed[j], m) + (top - j + 1)
               /\ \A l \in pushed[j]..m : Open(within, opener, pushed[j], l)
    <2> DEFINE i == pushed[j]
    <2>1. CASE j \in 1..Len(stack)
      <3>1. /\ i \in 1..m - 1 /\ Token(within, opener, i)
            /\ Tally(within, opener, i, m - 1) =
                  Tally(within, closer, i, m - 1) + (Len(stack) - j + 1)
            /\ \A l \in i..m - 1 : Open(within, opener, i, l)
        BY <1>2, <2>1 DEF Balanced
      <3> HIDE DEF i
      <3>2. i \in 1..m
        BY <1>4, <3>1
      <3>3. Tally(within, opener, i, m) = Tally(within, closer, i, m) + (top - j + 1)
        <4>1. Tally(within, opener, i, m) = Tally(within, opener, i, m - 1) + 1
              /\ Tally(within, closer, i, m) = Tally(within, closer, i, m - 1)
              /\ Tally(within, closer, i, m - 1) \in Nat
          BY <1>5, <1>6, <3>1, <3>2
        <4> QED
          BY <1>1, <2>1, <3>1, <4>1 DEF top
      <3>4. \A l \in i..m : Open(within, opener, i, l)
        BY <1>4, <1>7, <3>1
      <3> QED
        BY <3>1, <3>2, <3>3, <3>4 DEF i
    <2>2. CASE j = top
      <3>1. i = m /\ m \in 1..m
        BY <1>2, <2>2
      <3>2. Tally(within, opener, m, m) = 1 /\ Tally(within, closer, m, m) = 0
        BY <1>5, <3>1, TallyNone
      <3>3. Open(within, opener, m, m)
        BY <3>2 DEF Open
      <3>4. \A l \in m..m : l = m
        OBVIOUS
      <3>5. top - j + 1 = 1
        BY <1>1, <2>2 DEF top
      <3> QED
        BY <3>1, <3>2, <3>3, <3>4, <3>5
    <2> QED
      BY <1>2, <2>1, <2>2
  <1>9. ASSUME NEW i \in 1..m, Token(within, opener, i), i \notin ToSet(pushed)
        PROVE  \E l \in i..m : ~Open(within, opener, i, l)
    <2>1. \A x \in ToSet(stack) \cup {m} : x \in ToSet(pushed)
      <3>1. \A j \in 1..top : pushed[j] \in ToSet(pushed)
        BY <1>2 DEF ToSet
      <3>2. \A x \in ToSet(stack) : \E j \in 1..Len(stack) : x = stack[j]
        BY <1>1 DEF ToSet
      <3>3. \A j \in 1..Len(stack) : j \in 1..top
        BY <1>1 DEF top
      <3> QED
        BY <1>2, <3>1, <3>2, <3>3
    <2>2. i \in 1..m - 1 /\ i \notin ToSet(stack)
      BY <1>3, <1>9, <2>1
    <2>3. \E l \in i..m - 1 : ~Open(within, opener, i, l)
      BY <1>9, <2>2 DEF Balanced
    <2> QED
      BY <1>4, <2>2, <2>3
  <1>10. Balanced(within, opener, pushed, m)
    BY <1>2, <1>8, <1>9 DEF Balanced
  <1> QED
    BY <1>10 DEF pushed

(* A closer pops the last opener, if there is one.                         *)
LEMMA PopsOpener ==
    ASSUME NEW within, NEW opener, NEW stack, NEW m \in Nat, m > 0,
           Balanced(within, opener, stack, m - 1),
           ~Token(within, opener, m), Token(within, jinjaOpeners[opener], m)
    PROVE  Balanced(within, opener, IF stack = <<>> THEN stack ELSE Front(stack), m)
  <1> DEFINE closer == jinjaOpeners[opener]
             top == Len(stack)
             popped == IF stack = <<>> THEN stack ELSE Front(stack)
  <1>1. stack \in Seq(Nat) /\ top \in Nat
    BY DEF Balanced
  <1>2. /\ popped \in Seq(Nat)
        /\ top = 0 => Len(popped) = 0
        /\ top > 0 => Len(popped) = top - 1
        /\ \A j \in 1..Len(popped) : popped[j] = stack[j] /\ j \in 1..top
        /\ \A j \in 1..top : j \in 1..Len(popped) \/ (j = top /\ top > 0)
    <2>1. CASE stack = <<>>
      <3>1. top = 0 /\ popped = stack
        BY <2>1
      <3> HIDE DEF popped
      <3> QED
        BY <1>1, <3>1
    <2>2. CASE stack # <<>>
      <3>1. top > 0 /\ popped = [j \in 1..top - 1 |-> stack[j]]
        BY <1>1, <2>2, EmptySeq DEF Front
      <3>2. \A j \in 1..top - 1 : j \in 1..top /\ stack[j] \in Nat
        BY <1>1
      <3> HIDE DEF popped, top
      <3>3. popped \in Seq(Nat) /\ Len(popped) = top - 1
        BY <1>1, <3>1, <3>2
      <3> QED
        BY <1>1, <3>1, <3>2, <3>3
    <2> QED
      BY <2>1, <2>2
  <1>3. \A i \in 1..m : i \in Nat /\ i <= m /\ (i \in 1..m - 1 \/ i = m)
    OBVIOUS
  <1>4. \A i \in 1..m - 1 : /\ i \in 1..m
                            /\ \A l \in i..m : l \in i..m - 1 \/ l = m
                            /\ \A l \in i..m - 1 : l \in i..m
                            /\ m - 1 \in i..m - 1 /\ m \in i..m
    OBVIOUS
  <1>5. \A i \in 1..m : /\ Tally(within, opener, i, m) = Tally(within, opener, i, m - 1)
                        /\ Tally(within, closer, i, m) = Tally(within, closer, i, m - 1) + 1
                        /\ Tally(within, opener, i, m) \in Nat
                        /\ Tally(within, closer, i, m) \in Nat
    BY <1>3, TallyStep
  <1>6. \A i \in 1..m - 1 : Tally(within, closer, i, m - 1) \in Nat
    <2>1. m - 1 \in Nat /\ \A i \in 1..m - 1 : i \in Nat /\ i <= m - 1
      OBVIOUS
    <2> QED
      BY <2>1, TallyStep
  <1> HIDE DEF popped, top
  <1>7. ASSUME NEW j \in 1..top
        PROVE  /\ stack[j] \in 1..m - 1 /\ stack[j] \in 1..m /\ Token(within, opener, stack[j])
               /\ Tally(within, opener, stack[j], m) =
                     Tally(within, closer, stack[j], m) + (top - j)
               /\ \A l \in stack[j]..m - 1 : Open(within, opener, stack[j], l)
    <2> DEFINE i == stack[j]
    <2>1. /\ i \in 1..m - 1 /\ Token(within, opener, i)
          /\ Tally(within, opener, i, m - 1) =
                Tally(within, closer, i, m - 1) + (top - j + 1)
          /\ \A l \in i..m - 1 : Open(within, opener, i, l)
      BY DEF Balanced, top
    <2> HIDE DEF i
    <2>2. i \in 1..m
      BY <1>4, <2>1
    <2>3. Tally(within, opener, i, m) = Tally(within, closer, i, m) + (top - j)
      <3>1. Tally(within, opener, i, m) = Tally(within, opener, i, m - 1)
            /\ Tally(within, closer, i, m) = Tally(within, closer, i, m - 1) + 1
            /\ Tally(within, closer, i, m - 1) \in Nat
        BY <1>5, <1>6, <2>1, <2>2
      <3> QED
        BY <1>1, <2>1, <3>1
    <2> QED
      BY <2>1, <2>2, <2>3 DEF i
  <1>8. ASSUME NEW j \in 1..Len(popped)
        PROVE  /\ popped[j] \in 1..m /\ Token(within, opener, popped[j])
               /\ Tally(within, opener, popped[j], m) =
                     Tally(within, closer, popped[j], m) + (Len(popped) - j + 1)
               /\ \A l \in popped[j]..m : Open(within, opener, popped[j], l)
    <2> DEFINE i == popped[j]
    <2>1. i = stack[j] /\ j \in 1..top /\ Len(popped) = top - 1 /\ top > 0
      BY <1>1, <1>2
    <2>2. /\ i \in 1..m - 1 /\ i \in 1..m /\ Token(within, opener, i)
          /\ Tally(within, opener, i, m) = Tally(within, closer, i, m) + (top - j)
          /\ \A l \in i..m - 1 : Open(within, opener, i, l)
      BY <1>7, <2>1
    <2> HIDE DEF i
    <2>3. Len(popped) - j + 1 = top - j /\ top - j > 0
      BY <1>1, <2>1
    <2>4. Open(within, opener, i, m)
      <3>1. Tally(within, closer, i, m) \in Nat /\ top - j \in Int
        BY <1>1, <1>5, <2>1, <2>2
      <3> QED
        BY <2>2, <2>3, <3>1 DEF Open
    <2>5. \A l \in i..m : Open(within, opener, i, l)
      BY <1>4, <2>2, <2>4
    <2> QED
      BY <2>2, <2>3, <2>5 DEF i
  <1>9. ASSUME NEW i \in 1..m, Token(within, opener, i), i \notin ToSet(popped)
        PROVE  \E l \in i..m : ~Open(within, opener, i, l)
    <2>1. i \in 1..m - 1
      BY <1>3, <1>9
    <2>2. CASE i \notin ToSet(stack)
      <3>1. \E l \in i..m - 1 : ~Open(within, opener, i, l)
        BY <1>9, <2>1, <2>2 DEF Balanced
      <3> QED
        BY <1>4, <2>1, <3>1
    <2>3. CASE i \in ToSet(stack)
      <3>1. PICK j \in 1..top : stack[j] = i
        BY <1>1, <2>3 DEF ToSet, top
      <3>2. j \notin 1..Len(popped)
        <4>1. j \in 1..Len(popped) => popped[j] \in ToSet(popped)
          BY <1>2 DEF ToSet
        <4> QED
          BY <1>2, <1>9, <3>1, <4>1
      <3>3. j = top /\ top - j = 0
        BY <1>1, <1>2, <3>1, <3>2
      <3>4. Tally(within, opener, i, m) = Tally(within, closer, i, m)
        BY <1>5, <1>7, <3>1, <3>3
      <3>5. ~Open(within, opener, i, m)
        BY <1>5, <3>4 DEF Open
      <3> QED
        BY <1>4, <2>1, <3>5
    <2> QED
      BY <2>2, <2>3
  <1>10. Balanced(within, opener, popped, m)
    BY <1>2, <1>8, <1>9 DEF Balanced
  <1> QED
    BY <1>10 DEF popped

(* The stacks are balanced after every token.                              *)
LEMMA StaysBalanced ==
    ASSUME Shaped, NEW within, NEW opener, IsOpener(opener)
    PROVE  Balanced(within, opener, Stacks(tree, within)[jinjaOpeners[opener]], Len(tree))
  <1> DEFINE n == Len(tree)
             closer == jinjaOpeners[opener]
  <1>1. PICK f : f \in StackRuns(tree, within, n) /\ Stacks(tree, within) = f[n]
    BY StackSteps DEF Shaped
  <1> DEFINE T == {k \in 0..n : Balanced(within, opener, f[k][closer], k)}
  <1>2. n \in Nat
    BY TreeNodes
  <1>3. closer \in Closers /\ closer # opener
    BY Delimiters
  <1> HIDE DEF n, closer
  <1>4. 0 \in T
    <2>1. f[0][closer] = <<>>
      BY <1>1, <1>3 DEF StackRuns, NoStacks
    <2>2. <<>> \in Seq(Nat) /\ Len(<<>>) = 0 /\ 1..0 = {}
      BY EmptySeq
    <2>3. Balanced(within, opener, <<>>, 0)
      BY <2>2 DEF Balanced
    <2> QED
      BY <1>2, <2>1, <2>3
  <1>5. ASSUME NEW k \in 0..n - 1, k \in T PROVE k + 1 \in T
    <2> DEFINE m == k + 1
               stack == f[k][closer]
    <2>1. m \in 1..n /\ m - 1 = k /\ m \in 0..n /\ m \in Nat /\ m > 0
      BY <1>2
    <2>2. Balanced(within, opener, stack, m - 1)
      BY <1>5, <2>1
    <2> HIDE DEF m
    <2>3. f[k] \in StackSet /\ f[m] = Take(tree, within, f[k], m)
      BY <1>1, <1>2, <2>1 DEF StackRuns
    <2>4. f[m][closer] = IF Token(within, opener, m) THEN Append(stack, m)
                         ELSE IF Token(within, closer, m)
                         THEN IF stack = <<>> THEN stack ELSE Front(stack)
                         ELSE stack
      <3> DEFINE kind == tree[m].kind
                 open == f[k]
      <3> HIDE DEF open
      <3>1. CASE m \notin within \/ tree[m].missing \/ (~IsOpener(kind) /\ kind \notin Closers)
        <4>1. f[m] = open
          BY <2>3, <3>1 DEF Take, Match, open
        <4>2. ~Token(within, opener, m) /\ ~Token(within, closer, m)
          BY <1>3, <3>1 DEF Token, IsMissing
        <4> QED
          BY <4>1, <4>2 DEF open
      <3>2. CASE m \in within /\ ~tree[m].missing /\ IsOpener(kind)
        <4>1. f[m] = [open EXCEPT ![jinjaOpeners[kind]] = Append(open[jinjaOpeners[kind]], m)]
          BY <2>3, <3>2, Delimiters DEF Take, Match, open
        <4>2. ~Token(within, closer, m)
          BY <1>3, <3>2, Delimiters DEF Token
        <4>3. Token(within, opener, m) <=> kind = opener
          BY <3>2 DEF Token, IsMissing
        <4>4. kind = opener <=> jinjaOpeners[kind] = closer
          BY <3>2, Delimiters DEF closer
        <4>5. f[m][closer] = IF jinjaOpeners[kind] = closer THEN Append(open[closer], m)
                             ELSE open[closer]
          BY <1>3, <2>3, <4>1 DEF StackSet, open
        <4> QED
          BY <4>2, <4>3, <4>4, <4>5 DEF open
      <3>3. CASE m \in within /\ ~tree[m].missing /\ ~IsOpener(kind) /\ kind \in Closers
        <4>1. f[m] = [open EXCEPT ![kind] = IF open[kind] = <<>> THEN open[kind]
                                            ELSE Front(open[kind])]
          BY <2>3, <3>3 DEF Take, Match, open
        <4>2. ~Token(within, opener, m)
          BY <3>3 DEF Token
        <4>3. Token(within, closer, m) <=> kind = closer
          BY <3>3 DEF Token, IsMissing
        <4>4. f[m][closer] = IF kind = closer
                             THEN IF open[closer] = <<>> THEN open[closer] ELSE Front(open[closer])
                             ELSE open[closer]
          BY <1>3, <2>3, <4>1 DEF StackSet, open
        <4> QED
          BY <4>2, <4>3, <4>4 DEF open
      <3> QED
        BY <3>1, <3>2, <3>3
    <2>5. ~(Token(within, opener, m) /\ Token(within, closer, m))
      BY <1>3 DEF Token
    <2>6. CASE Token(within, opener, m)
      <3>1. Balanced(within, opener, Append(stack, m), m)
        <4> HIDE DEF stack
        <4> QED
          BY <2>1, <2>2, <2>5, <2>6, PushesOpener DEF closer
      <3>2. f[m][closer] = Append(stack, m)
        BY <2>4, <2>6
      <3> QED
        BY <2>1, <3>1, <3>2 DEF m
    <2>7. CASE Token(within, closer, m)
      <3>1. Balanced(within, opener, IF stack = <<>> THEN stack ELSE Front(stack), m)
        <4> HIDE DEF stack
        <4> QED
          BY <2>1, <2>2, <2>5, <2>7, PopsOpener DEF closer
      <3> QED
        BY <2>1, <2>4, <2>5, <2>7, <3>1
    <2>8. CASE ~Token(within, opener, m) /\ ~Token(within, closer, m)
      <3>1. Balanced(within, opener, stack, m)
        <4> HIDE DEF stack
        <4> QED
          BY <2>1, <2>2, <2>8, PassesOther DEF closer
      <3> QED
        BY <2>1, <2>4, <2>8, <3>1
    <2> QED
      BY <2>6, <2>7, <2>8 DEF m
  <1>6. \A k \in 0..n : k \in T
    <2> HIDE DEF T
    <2> QED
      BY <1>2, <1>4, <1>5, BoundedInduction
  <1>7. n \in T
    BY <1>2, <1>6
  <1> QED
    BY <1>1, <1>7 DEF n, closer

(* So the openers left are those never made up for.                        *)
LEMMA LeftOpen ==
    ASSUME Shaped, NEW within \in SUBSET DOMAIN tree, NEW i \in within, IsOpener(tree[i].kind)
    PROVE  i \in ToSet(Stacks(tree, within)[jinjaOpeners[tree[i].kind]]) <=>
              \A k \in i..Len(tree) : Open(within, tree[i].kind, i, k)
  <1> DEFINE n == Len(tree)
             opener == tree[i].kind
             stack == Stacks(tree, within)[jinjaOpeners[opener]]
  <1>1. Balanced(within, opener, stack, n)
    BY StaysBalanced
  <1>2. n \in Nat /\ i \in 1..n /\ i \in i..n
    BY TreeNodes
  <1>3. ASSUME i \in ToSet(stack) PROVE \A k \in i..n : Open(within, opener, i, k)
    <2>1. PICK j \in 1..Len(stack) : stack[j] = i
      BY <1>1, <1>3 DEF ToSet, Balanced
    <2> HIDE DEF n, opener, stack
    <2> QED
      BY <1>1, <2>1 DEF Balanced
  <1>4. ASSUME i \notin ToSet(stack) PROVE \E k \in i..n : ~Open(within, opener, i, k)
    <2>1. CASE Token(within, opener, i)
      <3> HIDE DEF n, opener, stack
      <3> QED
        BY <1>1, <1>2, <1>4, <2>1 DEF Balanced
    <2>2. CASE ~Token(within, opener, i)
      <3>1. ~IsMissing(i) => Token(within, opener, i)
        BY DEF Token
      <3>2. ~Token(within, opener, i) /\ ~Token(within, jinjaOpeners[opener], i)
        BY <2>2, <3>1 DEF Token
      <3>3. i \in Nat
        BY <1>2
      <3>4. Tally(within, opener, i, i) = 0 /\ Tally(within, jinjaOpeners[opener], i, i) = 0
        <4> HIDE DEF opener
        <4> QED
          BY <3>2, <3>3, TallyStep, TallyNone
      <3>5. ~Open(within, opener, i, i)
        BY <3>4 DEF Open
      <3> QED
        BY <1>2, <3>5
    <2> QED
      BY <2>1, <2>2
  <1> QED
    BY <1>3, <1>4

(* An unclosed opener is reported where its outermost ERROR is visited.    *)
LEMMA UnclosedReported ==
    ASSUME IInv PROVE OpenersUnclosed
  <1> SUFFICES ASSUME Done, NEW e \in DOMAIN tree, IsError(e), ~inError(e),
                      NEW i \in Descendants(e), IsOpener(tree[i].kind)
               PROVE  Error(jinjaOpeners[tree[i].kind], i) \in diags <=>
                         \A k \in i..Len(tree) : Open(Descendants(e), tree[i].kind, i, k)
    BY DEF OpenersUnclosed, Open, Tally, Tokens, Token
  <1> USE DEF IInv
  <1> DEFINE closer == jinjaOpeners[tree[i].kind]
             d == Error(closer, i)
             within == Descendants(e)
  <1>1. diags = UNION {Report(k) : k \in DOMAIN tree}
    BY AllReported
  <1>2. closer \in Closers /\ closer # tree[i].kind /\ closer \notin Codes
    BY Delimiters
  <1>3. d.code = closer /\ d.at = i /\ d.severity = "Error"
    BY DEF Error
  <1>4. i \in DOMAIN tree /\ e \in Ancestors(i)
    BY DEF Descendants
  <1>5. ASSUME d \in diags PROVE i \in ToSet(Stacks(tree, within)[closer])
    <2>1. PICK k \in DOMAIN tree : d \in Report(k)
      BY <1>1, <1>5
    <2>2. OnItself(d, k) \/ OnOpener(d, k) \/ OnHeader(d, k)
      BY <2>1, ReportKinds
    <2> HIDE DEF d, closer
    <2>3. OnOpener(d, k)
      BY <1>2, <1>3, <2>2 DEF OnItself, OnHeader, Codes
    <2>4. k = e
      <3>1. k \in Ancestors(i) /\ IsError(k) /\ ~inError(k)
        BY <1>3, <2>3 DEF OnOpener
      <3> QED
        BY <1>4, <3>1, OneOuterError
    <2> QED
      BY <1>3, <2>3, <2>4 DEF OnOpener
  <1>6. ASSUME i \in ToSet(Stacks(tree, within)[closer]) PROVE d \in diags
    <2>1. d \in unclosedJinjaDiagnostics(e)
      BY <1>2, <1>6 DEF unclosedJinjaDiagnostics
    <2> QED
      BY <1>1, <2>1, RecoveryInReport
  <1>7. i \in ToSet(Stacks(tree, within)[closer]) <=>
          \A k \in i..Len(tree) : Open(within, tree[i].kind, i, k)
    <2>1. within \in SUBSET DOMAIN tree /\ i \in within
      BY DEF Descendants
    <2> HIDE DEF within
    <2> QED
      BY <2>1, LeftOpen
  <1> QED
    BY <1>5, <1>6, <1>7

-----------------------------------------------------------------------------
(* Where a hint on the section is kept back, the syntax pass has reported  *)
(* the reason above the command.                                           *)
THEOREM Surfaced == Spec => []SuppressedIsSurfaced
  BY Invariance, SuppressedByReported, PTL

(* The recovery nodes that are reported are those outside of any ERROR.    *)
THEOREM RecoverySurfaced == Spec => []RecoveryReported
  BY Invariance, OuterRecoveryReported, PTL

(* No visit reports what was reported before.                              *)
THEOREM NoRepeats == Spec => []ReportedOnce
  BY Invariance, NothingTwice, PTL

(* The error on a command of another protocol is there where the nearest   *)
(* router says so, whatever comes in between.                              *)
THEOREM Reaches == Spec => []ProtocolReaches
  BY Invariance, MismatchReaches, PTL

(* The delimiters recovered from an ERROR are those a reader would call    *)
(* unclosed: the stacks and the counting agree.                            *)
THEOREM Unclosed == Spec => []OpenersUnclosed
  BY Invariance, UnclosedReported, PTL
=============================================================================
