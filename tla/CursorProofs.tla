---------------------------- MODULE CursorProofs ----------------------------
(***************************************************************************)
(* That hover and completion answer about the right node, in every text    *)
(* the grammar's assumptions allow, of any size, at every position.        *)
(*                                                                         *)
(* The invariant says what a parser leaves behind: nodes in the order of a *)
(* walk, each a symbol of its parent's shape, laid out one after another.  *)
(* An answer is about a text that is finished, and nothing happens after   *)
(* it, so the rest is about one tree: which intervals of positions nodes   *)
(* cover, where the two searches end, and what is on one line.             *)
(***************************************************************************)
EXTENDS Cursor, Recursion, FiniteSetTheorems, SequenceTheorems

Points == Nat \X Nat
Nodes == [kind : STRING, named : BOOLEAN, missing : BOOLEAN, field : STRING,
          words : Seq(STRING), text : STRING, parent : Nat, from : Points,
          to : {None} \cup Points, shape : Seq(Held)]

(* Nodes come in the order of a walk, and the parser adds to the last one  *)
(* that is not complete.                                                   *)
Ordered ==
    /\ tree \in Seq(Nodes)
    /\ Len(tree) > 0
    /\ tree[1].kind = "config" /\ tree[1].parent = 0
    /\ \A i \in 2..Len(tree) : parent(i) \in 1..i - 1
    /\ \A i, j \in 2..Len(tree) : i < j /\ parent(j) < i => parent(j) <= parent(i)
    /\ \A u \in Unfinished : \A i \in u + 1..Len(tree) : u <= parent(i)

(* A node is the symbol at its place in the shape of its parent.           *)
Rank(i) == Cardinality({k \in Children(parent(i)) : k <= i})
Name(i) == tree[parent(i)].shape[Rank(i)]
IsOf(node, symbol) ==
    /\ node.kind = symbol.kind /\ node.missing = symbol.missing
    /\ node.field = symbol.field /\ node.words = symbol.words
Made ==
    /\ \A i \in DOMAIN tree : tree[i].shape \in Shapes(tree[i].kind)
    /\ \A i \in 2..Len(tree) :
          /\ Rank(i) \in DOMAIN tree[parent(i)].shape
          /\ IsOf(tree[i], Symbols[Name(i)])

(* A first child starts where its parent does, others after a gap.         *)
LaidOut ==
    \A i \in 2..Len(tree) :
        IF parent(i) = i - 1 THEN StartPosition(i) = StartPosition(i - 1)
        ELSE \E gap \in Gaps[Name(i)] : StartPosition(i) = Skip(EndOfToken(i - 1), gap)

(* j is i or below it; l is the last such node.                            *)
In(i, j) == i <= j /\ \A k \in i + 1..j : i <= parent(k)
IsLast(i, l) == In(i, l) /\ ~HasChildren(l) /\ (l = Len(tree) \/ parent(l + 1) < i)

(* When all is parsed, nodes end with their last token.                    *)
Finished ==
    /\ Unfinished = {}
    /\ end \in Points /\ pointLE(EndOfToken(Len(tree)), end) /\ EndPosition(1) = end
    /\ \A i \in 2..Len(tree) : \E l \in DOMAIN tree :
          IsLast(i, l) /\ EndPosition(i) = EndOfToken(l)

Grown == Ordered /\ Made /\ LaidOut
Whole == Grown /\ Finished

Answered ==
    /\ answer.at \in Points /\ pointLE(answer.at, end)
    /\ answer \in {HoverAnswer(answer.at), CompletionAnswer(answer.at)}

IInv ==
    /\ Grown
    /\ end = None => answer = Nobody
    /\ end # None => Finished
    /\ answer # Nobody => Answered

-----------------------------------------------------------------------------
(* The nodes of a tree.                                                    *)
LEMMA TreeNodes ==
    ASSUME Ordered
    PROVE  /\ Len(tree) \in Nat /\ Len(tree) > 0 /\ DOMAIN tree = 1..Len(tree)
           /\ 1 \in DOMAIN tree /\ parent(1) = 0
           /\ \A i \in DOMAIN tree :
                /\ tree[i] \in Nodes
                /\ i = 1 \/ (i \in 2..Len(tree) /\ parent(i) \in 1..i - 1 /\ parent(i) \in DOMAIN tree)
                /\ parent(i) = 0 <=> i = 1
                /\ Children(i) \subseteq i + 1..Len(tree)
  <1>1. Len(tree) \in Nat /\ Len(tree) > 0 /\ DOMAIN tree = 1..Len(tree) /\ 1 \in DOMAIN tree
    BY DEF Ordered
  <1>2. parent(1) = 0 /\ \A i \in 2..Len(tree) : parent(i) \in 1..i - 1
    BY DEF Ordered, parent
  <1>3. \A i \in DOMAIN tree : tree[i] \in Nodes
    BY DEF Ordered
  <1>4. \A i \in DOMAIN tree : i = 1 \/ i \in 2..Len(tree)
    BY <1>1
  <1>5. \A i \in DOMAIN tree : Children(i) \subseteq i + 1..Len(tree)
    BY <1>1, <1>2, <1>4 DEF Children
  <1> QED
    BY <1>1, <1>2, <1>3, <1>4, <1>5

(* The walk up from the first m nodes.                                     *)
IsUp(f, m) ==
    f = [k \in 1..m |-> IF parent(k) = 0 THEN {} ELSE {parent(k)} \cup f[parent(k)]]

LEMMA UpExists ==
    ASSUME Ordered
    PROVE  \E f : IsUp(f, Len(tree))
  <1> DEFINE n == Len(tree)
             T == {m \in 0..n : \E f : IsUp(f, m)}
  <1>1. n \in Nat /\ \A i \in 1..n : i = 1 \/ parent(i) \in 1..i - 1
    BY TreeNodes
  <1>2. parent(1) = 0
    BY TreeNodes
  <1> HIDE DEF n
  <1>3. 0 \in T
    <2> DEFINE f == [k \in 1..0 |-> {}]
    <2>1. IsUp(f, 0)
      BY DEF IsUp
    <2> QED
      BY <1>1, <2>1
  <1>4. ASSUME NEW m \in 0..n - 1, m \in T PROVE m + 1 \in T
    <2> DEFINE k == m + 1
    <2>1. PICK f : IsUp(f, m)
      BY <1>4
    <2>2. k \in 1..n /\ k \in 0..n /\ 1..k = 1..m \cup {k} /\ k \notin 1..m
          /\ (k = 1 \/ parent(k) \in 1..m)
      BY <1>1
    <2>3. \A i \in 1..m : i = 1 \/ parent(i) \in 1..m
      BY <1>1
    <2> HIDE DEF k
    <2> DEFINE g == [i \in 1..k |-> IF i = k
                       THEN IF parent(k) = 0 THEN {} ELSE {parent(k)} \cup f[parent(k)]
                       ELSE f[i]]
    <2>4. \A i \in 1..m : g[i] = f[i]
      BY <2>2
    <2>5. \A i \in 1..m : f[i] = IF parent(i) = 0 THEN {} ELSE {parent(i)} \cup f[parent(i)]
      BY <2>1 DEF IsUp
    <2>6. \A i \in 1..k : g[i] = IF parent(i) = 0 THEN {} ELSE {parent(i)} \cup g[parent(i)]
      <3> TAKE i \in 1..k
      <3>1. CASE i = k
        <4>1. g[k] = IF parent(k) = 0 THEN {} ELSE {parent(k)} \cup f[parent(k)]
          BY <2>2
        <4> HIDE DEF g
        <4> QED
          BY <1>2, <2>2, <2>4, <3>1, <4>1
      <3>2. CASE i \in 1..m
        <4> HIDE DEF g
        <4> QED
          BY <1>2, <2>3, <2>4, <2>5, <3>2
      <3> QED
        BY <2>2, <3>1, <3>2
    <2>7. g = [i \in 1..k |-> g[i]]
      OBVIOUS
    <2> HIDE DEF g
    <2>8. IsUp(g, k)
      BY <2>6, <2>7 DEF IsUp
    <2> QED
      BY <2>2, <2>8 DEF k
  <1>5. \A m \in 0..n : m \in T
    <2> HIDE DEF T
    <2> QED
      BY <1>1, <1>3, <1>4, BoundedInduction
  <1>6. n \in T
    BY <1>1, <1>5
  <1> QED
    BY <1>6 DEF n

(* A node's ancestors are its parent and the parent's ancestors.           *)
LEMMA AncestorsStep ==
    ASSUME Ordered
    PROVE  \A i \in DOMAIN tree :
              Ancestors(i) = IF parent(i) = 0 THEN {} ELSE {parent(i)} \cup Ancestors(parent(i))
  <1> DEFINE U == CHOOSE f : IsUp(f, Len(tree))
  <1>1. IsUp(U, Len(tree))
    BY UpExists
  <1>2. DOMAIN tree = 1..Len(tree)
    BY TreeNodes
  <1>3. \A i : Ancestors(i) = U[i]
    BY <1>2 DEF Ancestors, IsUp
  <1> HIDE DEF U
  <1> QED
    BY <1>1, <1>2, <1>3 DEF IsUp

(* What is in a node: a run of nodes, so that nodes are nested.            *)
LEMMA Nested ==
    ASSUME Ordered, NEW i \in DOMAIN tree, NEW j \in DOMAIN tree, In(i, j)
    PROVE  /\ i <= j
           /\ \A k \in i..j : In(i, k)
           /\ \A h \in DOMAIN tree : In(h, j) /\ h <= i => In(h, i)
           /\ \A h \in DOMAIN tree : In(h, i) => In(h, j)
           /\ i = j \/ (In(i, parent(j)) /\ parent(j) \in DOMAIN tree)
  <1>1. Len(tree) \in Nat /\ DOMAIN tree = 1..Len(tree)
        /\ \A k \in DOMAIN tree : k = 1 \/ (parent(k) \in 1..k - 1 /\ parent(k) \in DOMAIN tree)
    BY TreeNodes
  <1>2. i <= j /\ \A k \in i + 1..j : i <= parent(k)
    BY DEF In
  <1>3. \A k \in i..j : In(i, k)
    BY <1>1, <1>2 DEF In
  <1>4. \A h \in DOMAIN tree : In(h, j) /\ h <= i => In(h, i)
    BY <1>1, <1>2 DEF In
  <1>5. ASSUME NEW h \in DOMAIN tree, In(h, i) PROVE In(h, j)
    <2>1. h <= i /\ \A k \in h + 1..i : h <= parent(k)
      BY <1>5 DEF In
    <2>2. ASSUME NEW k \in h + 1..j PROVE h <= parent(k)
      <3>1. CASE k <= i
        BY <1>1, <2>1, <3>1
      <3>2. CASE k > i
        <4>1. i <= parent(k) /\ k \in DOMAIN tree /\ k # 1
          BY <1>1, <1>2, <3>2
        <4> QED
          BY <1>1, <2>1, <4>1
      <3> QED
        BY <1>1, <3>1, <3>2
    <2> QED
      BY <1>1, <1>2, <2>1, <2>2 DEF In
  <1>6. ASSUME i # j PROVE In(i, parent(j)) /\ parent(j) \in DOMAIN tree
    <2>1. j \in i + 1..j /\ j # 1
      BY <1>1, <1>2, <1>6
    <2>2. i <= parent(j) /\ parent(j) \in 1..j - 1 /\ parent(j) \in DOMAIN tree
      BY <1>1, <1>2, <2>1
    <2> QED
      BY <1>1, <1>3, <2>2
  <1> QED
    BY <1>2, <1>3, <1>4, <1>5, <1>6

LEMMA Self ==
    ASSUME Ordered, NEW i \in DOMAIN tree
    PROVE  /\ In(i, i) /\ In(1, i)
           /\ i # 1 => In(parent(i), i)
  <1>1. Len(tree) \in Nat /\ DOMAIN tree = 1..Len(tree) /\ 1 \in DOMAIN tree
        /\ \A k \in DOMAIN tree : k = 1 \/ (k \in 2..Len(tree) /\ parent(k) \in 1..k - 1)
    BY TreeNodes
  <1>2. In(i, i) /\ In(1, i)
    BY <1>1 DEF In
  <1>3. ASSUME i # 1 PROVE In(parent(i), i)
    <2>1. i \in 2..Len(tree) /\ parent(i) \in 1..i - 1
      BY <1>1, <1>3
    <2>2. ASSUME NEW k \in parent(i) + 1..i PROVE parent(i) <= parent(k)
      <3>1. CASE k = i
        BY <2>1, <3>1
      <3>2. CASE k # i
        <4>1. k \in 2..Len(tree) /\ k < i /\ parent(i) < k
          BY <1>1, <2>1, <3>2
        <4> QED
          BY <2>1, <4>1 DEF Ordered
      <3> QED
        BY <3>1, <3>2
    <2> QED
      BY <2>1, <2>2 DEF In
  <1> QED
    BY <1>2, <1>3

(* The ancestors of a node are the nodes it is in.                         *)
LEMMA AncestorsIn ==
    ASSUME Ordered
    PROVE  \A i \in DOMAIN tree :
              /\ \A a : a \in Ancestors(i) \cup {i} <=> a \in DOMAIN tree /\ In(a, i)
              /\ \A a : a \in Ancestors(i) <=> a \in DOMAIN tree /\ In(a, i) /\ a # i
  <1> DEFINE n == Len(tree)
             Up(i) == \A a : a \in Ancestors(i) \cup {i} <=> a \in DOMAIN tree /\ In(a, i)
             T == {m \in 0..n : \A i \in 1..m : Up(i)}
  <1>1. n \in Nat /\ DOMAIN tree = 1..n
    BY TreeNodes
  <1>2. 0 \in T
    BY <1>1
  <1>3. ASSUME NEW m \in 0..n - 1, m \in T PROVE m + 1 \in T
    <2> DEFINE k == m + 1
    <2>1. k \in 1..n /\ k \in 0..n /\ k \in DOMAIN tree /\ \A i \in 1..k : i \in 1..m \/ i = k
      BY <1>1
    <2>2. k = 1 \/ parent(k) \in 1..m
      BY <1>1, <2>1, TreeNodes
    <2>3. \A i \in 1..m : Up(i)
      BY <1>3
    <2> HIDE DEF k
    <2>4. Up(k)
      <3>1. CASE k = 1
        <4>1. Ancestors(k) = {}
          BY <2>1, <3>1, AncestorsStep, TreeNodes
        <4>2. \A a \in DOMAIN tree : In(a, k) => a = k
          BY <1>1, <3>1 DEF In
        <4> QED
          BY <2>1, <4>1, <4>2, Self
      <3>2. CASE k # 1
        <4>1. Ancestors(k) = {parent(k)} \cup Ancestors(parent(k)) /\ parent(k) \in DOMAIN tree
          BY <2>1, <3>2, AncestorsStep, TreeNodes
        <4>2. \A a : a \in Ancestors(k) <=> a \in DOMAIN tree /\ In(a, parent(k))
          BY <2>2, <2>3, <3>2, <4>1
        <4>3. \A a \in DOMAIN tree : In(a, k) => a = k \/ In(a, parent(k))
          BY <2>1, Nested
        <4>4. In(k, k) /\ In(parent(k), k)
          BY <2>1, <3>2, Self
        <4>5. \A a \in DOMAIN tree : In(a, parent(k)) => In(a, k)
          BY <2>1, <4>1, <4>4, Nested
        <4> QED
          BY <2>1, <4>2, <4>3, <4>4, <4>5
      <3> QED
        BY <3>1, <3>2
    <2> HIDE DEF Up
    <2> QED
      BY <2>1, <2>3, <2>4 DEF k
  <1>4. \A m \in 0..n : m \in T
    <2> HIDE DEF T, n
    <2> QED
      BY <1>1, <1>2, <1>3, BoundedInduction
  <1>5. \A i \in DOMAIN tree : Up(i)
    <2>1. n \in T
      BY <1>1, <1>4
    <2> HIDE DEF Up
    <2> QED
      BY <1>1, <2>1
  <1>6. \A i \in DOMAIN tree : i \notin Ancestors(i)
    <2> TAKE i \in DOMAIN tree
    <2>1. CASE i = 1
      BY <2>1, AncestorsStep, TreeNodes
    <2>2. CASE i # 1
      <3>1. Ancestors(i) = {parent(i)} \cup Ancestors(parent(i))
            /\ parent(i) \in DOMAIN tree /\ parent(i) \in 1..i - 1
        BY <2>2, AncestorsStep, TreeNodes
      <3>2. ~In(i, parent(i)) /\ i # parent(i)
        BY <1>1, <3>1 DEF In
      <3> QED
        BY <1>5, <3>1, <3>2
    <2> QED
      BY <2>1, <2>2
  <1> QED
    BY <1>5, <1>6

(* The last node in a node.                                                *)
LEMMA LastExists ==
    ASSUME Ordered, NEW i \in DOMAIN tree
    PROVE  /\ Max(Leaves(i)) \in DOMAIN tree
           /\ IsLast(i, Max(Leaves(i)))
  <1> DEFINE n == Len(tree)
             U == {k \in DOMAIN tree : In(i, k)}
             m == Max(U)
  <1>1. n \in Nat /\ DOMAIN tree = 1..n /\ i \in U /\ U \in SUBSET (1..n)
    BY TreeNodes, Self
  <1>2. m \in U /\ \A k \in U : k <= m
    <2> HIDE DEF U
    <2> QED
      BY <1>1, GreatestMember
  <1> HIDE DEF m
  <1>3. m \in DOMAIN tree /\ In(i, m) /\ i <= m
    BY <1>2 DEF In
  <1>4. ~HasChildren(m)
    <2> SUFFICES ASSUME NEW c \in Children(m) PROVE FALSE
      BY DEF HasChildren
    <2>1. c \in DOMAIN tree /\ parent(c) = m /\ c > m /\ c # 1
      BY <1>1, <1>3, TreeNodes DEF Children
    <2>2. In(m, c)
      BY <2>1, Self
    <2>3. In(i, c)
      BY <1>3, <2>1, <2>2, Nested
    <2> QED
      BY <1>1, <1>2, <1>3, <2>1, <2>3
  <1>5. m = n \/ parent(m + 1) < i
    <2> SUFFICES ASSUME m # n, i <= parent(m + 1) PROVE FALSE
      <3>1. m # n => m + 1 \in DOMAIN tree /\ m + 1 # 1
        BY <1>1, <1>3
      <3>2. m # n => parent(m + 1) \in Nat
        BY <3>1, TreeNodes
      <3> QED
        BY <1>1, <3>2
    <2>1. \A k \in i + 1..m + 1 : k \in i + 1..m \/ k = m + 1
      BY <1>1, <1>3
    <2>2. In(i, m + 1)
      BY <1>1, <1>3, <2>1 DEF In
    <2>3. m + 1 \in U
      BY <1>1, <1>3, <2>2
    <2> QED
      BY <1>1, <1>2, <1>3, <2>3
  <1>6. Leaves(i) = {k \in U : ~HasChildren(k)}
    <2>1. \A k \in DOMAIN tree : k \in Descendants(i) \cup {i} <=> In(i, k)
      BY AncestorsIn DEF Descendants
    <2> QED
      BY <2>1 DEF Leaves, Descendants
  <1>7. Max(Leaves(i)) = m
    <2>1. m \in Leaves(i) /\ Leaves(i) \in SUBSET (1..n)
      BY <1>1, <1>2, <1>4, <1>6
    <2>2. Max(Leaves(i)) \in Leaves(i) /\ m <= Max(Leaves(i))
      <3> HIDE DEF U
      <3> QED
        BY <1>1, <2>1, GreatestMember
    <2>3. Max(Leaves(i)) \in U
      BY <1>6, <2>2
    <2>4. Max(Leaves(i)) <= m
      BY <1>2, <2>3
    <2> QED
      BY <1>1, <1>2, <2>2, <2>3, <2>4
  <1> QED
    BY <1>3, <1>4, <1>5, <1>7 DEF IsLast

LEMMA LastOf ==
    ASSUME Ordered, NEW i \in DOMAIN tree, NEW l \in DOMAIN tree, IsLast(i, l)
    PROVE  \A j \in DOMAIN tree : In(i, j) => j <= l
  <1>1. Len(tree) \in Nat /\ DOMAIN tree = 1..Len(tree)
        /\ \A k \in DOMAIN tree : parent(k) \in Nat
    BY TreeNodes
  <1>2. In(i, l) /\ i <= l /\ (l = Len(tree) \/ parent(l + 1) < i)
    BY DEF IsLast, In
  <1> SUFFICES ASSUME NEW j \in DOMAIN tree, In(i, j), j > l PROVE FALSE
    BY <1>1
  <1>3. l + 1 \in i + 1..j /\ l # Len(tree) /\ l + 1 \in DOMAIN tree
    BY <1>1, <1>2
  <1>4. i <= parent(l + 1)
    BY <1>3 DEF In
  <1> QED
    BY <1>1, <1>2, <1>3, <1>4

-----------------------------------------------------------------------------
(* Positions are ordered.                                                  *)
LEMMA PointOrder ==
    /\ \A p, q \in Points :
          /\ pointLE(p, p)
          /\ pointLE(p, q) \/ pointLE(q, p)
          /\ pointLE(p, q) /\ pointLE(q, p) => p = q
          /\ pointLT(p, q) <=> ~pointLE(q, p)
          /\ pointLE(p, q) => p[1] <= q[1]
          /\ p[1] \in Nat
    /\ \A p, q, r \in Points : pointLE(p, q) /\ pointLE(q, r) => pointLE(p, r)
  <1>1. \A p, q \in Points : p = q <=> p[1] = q[1] /\ p[2] = q[2]
    BY DEF Points
  <1>2. \A p \in Points : p[1] \in Nat /\ p[2] \in Nat
    BY DEF Points
  <1> QED
    BY <1>1, <1>2 DEF pointLE, pointLT

(* What may be before a token.                                             *)
LEMMA SkipOn ==
    ASSUME NEW last \in Points, NEW gap \in {"none", "blank", "blanks", "newline"}
    PROVE  /\ Skip(last, gap) \in Points /\ pointLE(last, Skip(last, gap))
           /\ gap # "none" => pointLT(last, Skip(last, gap))
           /\ IF gap = "newline" THEN last[1] < Skip(last, gap)[1] ELSE Skip(last, gap)[1] = last[1]
  <1>1. last[1] \in Nat /\ last[2] \in Nat /\ last = <<last[1], last[2]>>
    BY DEF Points
  <1>2. CASE gap = "none"
    <2>1. Skip(last, gap) = last
      BY <1>2 DEF Skip
    <2> QED
      BY <1>1, <1>2, <2>1 DEF pointLE
  <1>3. CASE gap = "blank"
    <2>1. Skip(last, gap) = <<last[1], last[2] + 1>>
      BY <1>3 DEF Skip
    <2>2. <<last[1], last[2] + 1>>[2] # last[2]
      BY <1>1
    <2> QED
      BY <1>1, <1>3, <2>1, <2>2 DEF pointLE, pointLT, Points
  <1>4. CASE gap = "blanks"
    <2>1. Skip(last, gap) = <<last[1], last[2] + 2>>
      BY <1>4 DEF Skip
    <2>2. <<last[1], last[2] + 2>>[2] # last[2]
      BY <1>1
    <2> QED
      BY <1>1, <1>4, <2>1, <2>2 DEF pointLE, pointLT, Points
  <1>5. CASE gap = "newline"
    <2>1. Skip(last, gap) = <<last[1] + 1, 0>>
      BY <1>5 DEF Skip
    <2>2. <<last[1] + 1, 0>>[1] # last[1]
      BY <1>1
    <2> QED
      BY <1>1, <1>5, <2>1, <2>2 DEF pointLE, pointLT, Points
  <1> QED
    BY <1>2, <1>3, <1>4, <1>5

(* The place of a token.                                                   *)
LEMMA TokenEnds ==
    ASSUME Ordered, NEW i \in DOMAIN tree
    PROVE  /\ StartPosition(i) \in Points /\ EndOfToken(i) \in Points
           /\ EndOfToken(i)[1] = StartPosition(i)[1]
           /\ pointLE(StartPosition(i), EndOfToken(i))
           /\ ~IsMissing(i) /\ tree[i].words # <<>> => pointLT(StartPosition(i), EndOfToken(i))
  <1>1. tree[i] \in Nodes
    BY TreeNodes
  <1>2. tree[i].from \in Points /\ tree[i].words \in Seq(STRING)
    BY <1>1 DEF Nodes
  <1>3. tree[i].from[1] \in Nat /\ tree[i].from[2] \in Nat
    BY <1>2 DEF Points
  <1>4. Len(tree[i].words) \in Nat /\ (tree[i].words # <<>> => Len(tree[i].words) > 0)
    BY <1>2
  <1>5. Width(i) \in Nat /\ (~IsMissing(i) /\ tree[i].words # <<>> => Width(i) > 0)
    BY <1>4 DEF Width
  <1> DEFINE f == tree[i].from
             w == Width(i)
             e == <<f[1], f[2] + w>>
  <1>6. EndOfToken(i) = e /\ StartPosition(i) = f
    BY DEF EndOfToken, StartPosition
  <1>7. f \in Points /\ f[1] \in Nat /\ f[2] \in Nat /\ w \in Nat
    BY <1>2, <1>3, <1>5
  <1> HIDE DEF f, w
  <1>8. e \in Points /\ e[1] = f[1] /\ pointLE(f, e) /\ (w > 0 => pointLT(f, e))
    <2>1. e[1] = f[1] /\ e[2] = f[2] + w
      OBVIOUS
    <2>2. e \in Points
      BY <1>7 DEF Points
    <2> HIDE DEF e
    <2> QED
      BY <1>7, <2>1, <2>2 DEF pointLE, pointLT
  <1> HIDE DEF e
  <1> QED
    BY <1>5, <1>6, <1>7, <1>8 DEF w

-----------------------------------------------------------------------------
(* The symbol a node is.                                                   *)
LEMMA NodeNames ==
    ASSUME Ordered, Made, NEW i \in DOMAIN tree, i # 1
    PROVE  /\ Name(i) \in Held /\ Name(i) \in DOMAIN Symbols
           /\ Gaps[Name(i)] \subseteq {"none", "blank", "blanks", "newline"}
           /\ IsOf(tree[i], Symbols[Name(i)])
           /\ tree[parent(i)].kind \in DOMAIN Grammar
           /\ tree[parent(i)].shape \in Grammar[tree[parent(i)].kind]
           /\ tree[parent(i)].shape \in Seq(Held)
           /\ Rank(i) \in DOMAIN tree[parent(i)].shape
           /\ Rank(i) \in 1..Len(tree[parent(i)].shape)
  <1>1. i \in 2..Len(tree) /\ parent(i) \in DOMAIN tree
    BY TreeNodes
  <1>2. Rank(i) \in DOMAIN tree[parent(i)].shape /\ IsOf(tree[i], Symbols[Name(i)])
    BY <1>1 DEF Made
  <1>3. tree[parent(i)] \in Nodes /\ tree[parent(i)].shape \in Shapes(tree[parent(i)].kind)
    BY <1>1, TreeNodes DEF Made
  <1>4. tree[parent(i)].shape \in Seq(Held)
    BY <1>3 DEF Nodes
  <1>5. tree[parent(i)].shape # <<>>
    BY <1>2, <1>4
  <1>6. tree[parent(i)].kind \in DOMAIN Grammar
        /\ tree[parent(i)].shape \in Grammar[tree[parent(i)].kind]
    BY <1>3, <1>5 DEF Shapes
  <1>7. Name(i) \in Held
    BY <1>2, <1>4 DEF Name
  <1>8. Name(i) \in DOMAIN Symbols /\ Gaps[Name(i)] \subseteq {"none", "blank", "blanks", "newline"}
    BY <1>7, GrammarTypes DEF Held
  <1> QED
    BY <1>2, <1>4, <1>6, <1>7, <1>8

(* A node with children is no token.                                       *)
LEMMA NoToken ==
    ASSUME Ordered, Made, NEW i \in DOMAIN tree, HasChildren(i)
    PROVE  /\ tree[i].kind \in DOMAIN Grammar /\ tree[i].shape \in Grammar[tree[i].kind]
           /\ Shapes(tree[i].kind) # {<<>>}
           /\ i # 1 => ~IsToken(Name(i))
  <1>1. PICK c \in Children(i) : TRUE
    BY DEF HasChildren
  <1>2. c \in DOMAIN tree /\ c # 1 /\ parent(c) = i
    BY <1>1, TreeNodes DEF Children
  <1>3. tree[i].kind \in DOMAIN Grammar /\ tree[i].shape \in Grammar[tree[i].kind]
        /\ tree[i].shape # <<>>
    BY <1>2, NodeNames
  <1>4. Shapes(tree[i].kind) # {<<>>}
    BY <1>3 DEF Shapes
  <1>5. i # 1 => ~IsToken(Name(i))
    BY <1>4, NodeNames DEF IsToken, IsOf
  <1> QED
    BY <1>3, <1>4, <1>5

(* Nodes are laid out in order, and what follows a token is after it.      *)
LEMMA Onwards ==
    ASSUME Grown, NEW i \in DOMAIN tree
    PROVE  \A j \in DOMAIN tree : i <= j =>
              /\ pointLE(StartPosition(i), StartPosition(j))
              /\ ~HasChildren(i) /\ i < j => pointLE(EndOfToken(i), StartPosition(j))
  <1> DEFINE n == Len(tree)
             Beyond(j) == /\ pointLE(StartPosition(i), StartPosition(j))
                          /\ ~HasChildren(i) /\ i < j => pointLE(EndOfToken(i), StartPosition(j))
             T == {m \in 0..n : \A j \in 1..m : i <= j => Beyond(j)}
  <1>1. n \in Nat /\ DOMAIN tree = 1..n
    BY TreeNodes DEF Grown
  <1>2. 0 \in T
    BY <1>1
  <1>3. ASSUME NEW m \in 0..n - 1, m \in T PROVE m + 1 \in T
    <2> DEFINE k == m + 1
    <2>1. k \in 1..n /\ k \in 0..n /\ k \in DOMAIN tree /\ \A j \in 1..k : j \in 1..m \/ j = k
      BY <1>1
    <2>2. \A j \in 1..m : i <= j => Beyond(j)
      BY <1>3
    <2>3. m = k - 1 /\ (k # 1 => m \in DOMAIN tree /\ m \in 1..m /\ k \in 2..n)
      BY <1>1
    <2> HIDE DEF k, n
    <2>4. ASSUME i <= k PROVE Beyond(k)
      <3>1. CASE i = k
        <4>1. StartPosition(i) \in Points
          BY TokenEnds DEF Grown
        <4> QED
          BY <1>1, <2>1, <3>1, <4>1, PointOrder
      <3>2. CASE i # k
        <4>1. k # 1 /\ m \in DOMAIN tree /\ i <= m /\ m \in 1..m /\ k \in 2..n
          BY <1>1, <2>1, <2>3, <2>4, <3>2
        <4>2. Beyond(m)
          BY <2>2, <4>1
        <4>3. /\ StartPosition(i) \in Points /\ StartPosition(m) \in Points /\ StartPosition(k) \in Points
              /\ EndOfToken(i) \in Points /\ EndOfToken(m) \in Points
              /\ pointLE(StartPosition(m), EndOfToken(m))
          BY <2>1, <4>1, TokenEnds DEF Grown
        <4>4. CASE parent(k) = m
          <5>1. StartPosition(k) = StartPosition(m)
            BY <2>3, <4>1, <4>4 DEF Grown, LaidOut, n
          <5>2. HasChildren(m)
            BY <2>1, <4>4 DEF HasChildren, Children
          <5>3. ~HasChildren(i) => i < m
            BY <1>1, <4>1, <5>2
          <5> QED
            BY <4>2, <5>1, <5>3
        <4>5. CASE parent(k) # m
          <5>1. PICK gap \in Gaps[Name(k)] : StartPosition(k) = Skip(EndOfToken(m), gap)
            BY <2>3, <4>1, <4>5 DEF Grown, LaidOut, n
          <5>2. pointLE(EndOfToken(m), StartPosition(k))
            <6>1. gap \in {"none", "blank", "blanks", "newline"}
              BY <2>1, <4>1, <5>1, NodeNames DEF Grown
            <6> QED
              BY <4>3, <5>1, <6>1, SkipOn
          <5>3. pointLE(StartPosition(i), StartPosition(k))
            BY <4>2, <4>3, <5>2, PointOrder
          <5>4. ASSUME ~HasChildren(i) PROVE pointLE(EndOfToken(i), StartPosition(k))
            <6>1. CASE i = m
              BY <5>2, <6>1
            <6>2. CASE i # m
              <7>1. i < m
                BY <1>1, <4>1, <6>2
              <7>2. pointLE(EndOfToken(i), StartPosition(m))
                BY <4>2, <5>4, <7>1
              <7> QED
                BY <4>3, <5>2, <7>2, PointOrder
            <6> QED
              BY <6>1, <6>2
          <5> QED
            BY <5>3, <5>4
        <4> QED
          BY <4>4, <4>5
      <3> QED
        BY <3>1, <3>2
    <2> HIDE DEF Beyond
    <2> QED
      BY <2>1, <2>2, <2>4 DEF k
  <1>4. \A m \in 0..n : m \in T
    <2> HIDE DEF T, n
    <2> QED
      BY <1>1, <1>2, <1>3, BoundedInduction
  <1>5. n \in T
    BY <1>1, <1>4
  <1> QED
    BY <1>1, <1>5

-----------------------------------------------------------------------------
(* A node without children has nothing in it.                              *)
LEMMA Alone ==
    ASSUME Ordered, NEW i \in DOMAIN tree, ~HasChildren(i), NEW j \in DOMAIN tree, In(i, j)
    PROVE  i = j
  <1>1. Len(tree) \in Nat /\ DOMAIN tree = 1..Len(tree)
    BY TreeNodes
  <1> SUFFICES ASSUME i # j PROVE FALSE
    OBVIOUS
  <1>2. i + 1 \in i + 1..j /\ i + 1 \in DOMAIN tree /\ i + 1 # 1
    BY <1>1 DEF In
  <1>3. i <= parent(i + 1) /\ parent(i + 1) \in 1..(i + 1) - 1
    BY <1>2, TreeNodes DEF In
  <1>4. parent(i + 1) = i
    BY <1>1, <1>3
  <1> QED
    BY <1>2, <1>4 DEF HasChildren, Children

(* What positions a node covers: those of the nodes in it.                 *)
LEMMA Intervals ==
    ASSUME Whole, NEW i \in DOMAIN tree
    PROVE  /\ EndPosition(i) \in Points /\ pointLE(StartPosition(i), EndPosition(i))
           /\ i # 1 => \A l \in DOMAIN tree : IsLast(i, l) => EndPosition(i) = EndOfToken(l)
           /\ i # 1 /\ ~HasChildren(i) => EndPosition(i) = EndOfToken(i)
           /\ EndPosition(1) = end
  <1>1. Len(tree) \in Nat /\ DOMAIN tree = 1..Len(tree) /\ 1 \in DOMAIN tree /\ Ordered
    BY TreeNodes DEF Whole, Grown
  <1>2. end \in Points /\ pointLE(EndOfToken(Len(tree)), end) /\ EndPosition(1) = end
    BY DEF Whole, Finished
  <1>3. CASE i = 1
    <2>1. Len(tree) \in DOMAIN tree
      BY <1>1
    <2>2. /\ pointLE(StartPosition(1), StartPosition(Len(tree)))
          /\ StartPosition(1) \in Points /\ StartPosition(Len(tree)) \in Points
          /\ EndOfToken(Len(tree)) \in Points
          /\ pointLE(StartPosition(Len(tree)), EndOfToken(Len(tree)))
      BY <1>1, <2>1, Onwards, TokenEnds DEF Whole
    <2>3. pointLE(StartPosition(1), end)
      BY <1>2, <2>2, PointOrder
    <2> QED
      BY <1>2, <1>3, <2>3
  <1>4. CASE i # 1
    <2>1. i \in 2..Len(tree)
      BY <1>1, <1>4
    <2>2. PICK l \in DOMAIN tree : IsLast(i, l) /\ EndPosition(i) = EndOfToken(l)
      BY <2>1 DEF Whole, Finished
    <2>3. In(i, l) /\ i <= l
      BY <2>2 DEF IsLast, In
    <2>4. \A m \in DOMAIN tree : IsLast(i, m) => m = l
      <3> SUFFICES ASSUME NEW m \in DOMAIN tree, IsLast(i, m) PROVE m = l
        OBVIOUS
      <3>1. m <= l /\ l <= m
        BY <1>1, <2>2, LastOf DEF IsLast
      <3> QED
        BY <1>1, <3>1
    <2>5. pointLE(StartPosition(i), StartPosition(l)) /\ pointLE(StartPosition(l), EndOfToken(l))
          /\ StartPosition(i) \in Points /\ StartPosition(l) \in Points /\ EndOfToken(l) \in Points
      BY <1>1, <2>3, Onwards, TokenEnds DEF Whole
    <2>6. EndPosition(i) \in Points /\ pointLE(StartPosition(i), EndPosition(i))
      BY <2>2, <2>5, PointOrder
    <2>7. ~HasChildren(i) => i = l
      BY <1>1, <2>3, Alone
    <2> QED
      BY <1>2, <1>4, <2>2, <2>4, <2>6, <2>7
  <1> QED
    BY <1>3, <1>4

LEMMA Within ==
    ASSUME Whole, NEW i \in DOMAIN tree, NEW j \in DOMAIN tree, In(i, j)
    PROVE  pointLE(StartPosition(i), StartPosition(j)) /\ pointLE(EndPosition(j), EndPosition(i))
  <1>1. Len(tree) \in Nat /\ DOMAIN tree = 1..Len(tree) /\ Ordered /\ Grown
    BY TreeNodes DEF Whole, Grown
  <1>2. i <= j /\ pointLE(StartPosition(i), StartPosition(j))
    BY <1>1, Onwards DEF In
  <1>3. CASE i = j
    BY <1>2, <1>3, Intervals, PointOrder
  <1>4. CASE i # j
    <2> DEFINE l == Max(Leaves(j))
               m == Max(Leaves(i))
    <2>1. j # 1 /\ l \in DOMAIN tree /\ IsLast(j, l) /\ EndPosition(j) = EndOfToken(l)
      BY <1>1, <1>2, <1>4, LastExists, Intervals
    <2>2. m \in DOMAIN tree /\ IsLast(i, m)
      BY <1>1, LastExists
    <2> HIDE DEF l, m
    <2>3. In(i, l)
      BY <1>1, <2>1, Nested DEF IsLast
    <2>4. \A k \in DOMAIN tree : l <= k => pointLE(EndOfToken(l), EndOfToken(k))
      <3> SUFFICES ASSUME NEW k \in DOMAIN tree, l <= k PROVE pointLE(EndOfToken(l), EndOfToken(k))
        OBVIOUS
      <3>1. ~HasChildren(l)
        BY <2>1 DEF IsLast
      <3>2. EndOfToken(l) \in Points /\ EndOfToken(k) \in Points /\ StartPosition(k) \in Points
            /\ pointLE(StartPosition(k), EndOfToken(k))
        BY <1>1, <2>1, TokenEnds
      <3>3. CASE l = k
        BY <3>2, <3>3, PointOrder
      <3>4. CASE l < k
        <4>1. pointLE(EndOfToken(l), StartPosition(k))
          BY <1>1, <2>1, <3>1, <3>4, Onwards
        <4> QED
          BY <3>2, <4>1, PointOrder
      <3> QED
        BY <1>1, <2>1, <3>3, <3>4
    <2>5. CASE i = 1
      <3>1. Len(tree) \in DOMAIN tree /\ l <= Len(tree)
        BY <1>1, <2>1
      <3>2. pointLE(EndOfToken(l), EndOfToken(Len(tree))) /\ EndOfToken(l) \in Points
            /\ EndOfToken(Len(tree)) \in Points
        BY <1>1, <2>1, <2>4, <3>1, TokenEnds
      <3>3. end \in Points /\ pointLE(EndOfToken(Len(tree)), end) /\ EndPosition(1) = end
        BY DEF Whole, Finished
      <3> QED
        BY <1>2, <2>1, <2>5, <3>2, <3>3, PointOrder
    <2>6. CASE i # 1
      <3>1. EndPosition(i) = EndOfToken(m) /\ l <= m
        BY <1>1, <2>1, <2>2, <2>3, <2>6, LastOf, Intervals
      <3> QED
        BY <1>2, <2>1, <2>2, <2>4, <3>1
    <2> QED
      BY <2>5, <2>6
  <1> QED
    BY <1>3, <1>4

LEMMA Beside ==
    ASSUME Whole, NEW i \in DOMAIN tree, NEW j \in DOMAIN tree, i < j, ~In(i, j)
    PROVE  pointLE(EndPosition(i), StartPosition(j))
  <1>1. Len(tree) \in Nat /\ DOMAIN tree = 1..Len(tree) /\ Ordered /\ Grown
    BY TreeNodes DEF Whole, Grown
  <1>2. i # 1
    BY <1>1, Self
  <1> DEFINE l == Max(Leaves(i))
  <1>3. l \in DOMAIN tree /\ IsLast(i, l) /\ EndPosition(i) = EndOfToken(l)
    BY <1>1, <1>2, LastExists, Intervals
  <1> HIDE DEF l
  <1>4. l < j
    <2> SUFFICES ASSUME j <= l PROVE FALSE
      BY <1>1, <1>3
    <2>1. j \in i..l
      BY <1>1
    <2> QED
      BY <1>1, <1>3, <2>1, Nested DEF IsLast
  <1> QED
    BY <1>1, <1>3, <1>4, Onwards DEF IsLast

(* The child of a node that some node in it is in.                         *)
LEMMA ChildToward ==
    ASSUME Ordered, NEW i \in DOMAIN tree, NEW j \in DOMAIN tree, In(i, j), i # j
    PROVE  \E k \in Children(i) : In(k, j) /\ k \in DOMAIN tree /\ k # 1 /\ parent(k) = i /\ i < k
  <1>1. Len(tree) \in Nat /\ DOMAIN tree = 1..Len(tree) /\ i < j
    BY TreeNodes DEF In
  <1> DEFINE S == {k \in DOMAIN tree : In(k, j) /\ k > i}
  <1>2. S \in SUBSET Nat /\ j \in S
    BY <1>1, Self
  <1>3. PICK k \in S : \A m \in S : k <= m
    <2> HIDE DEF S
    <2> QED
      BY <1>2, LeastMember
  <1>4. k \in DOMAIN tree /\ In(k, j) /\ k > i /\ k # 1
    BY <1>1, <1>3
  <1>5. parent(k) \in DOMAIN tree /\ parent(k) < k /\ In(parent(k), k)
    BY <1>1, <1>4, TreeNodes, Self
  <1>6. In(parent(k), j)
    BY <1>4, <1>5, Nested
  <1>7. ~(parent(k) > i)
    BY <1>1, <1>3, <1>4, <1>5, <1>6
  <1>8. In(i, k)
    BY <1>1, <1>4, Nested
  <1>9. In(i, parent(k)) /\ i <= parent(k)
    BY <1>1, <1>4, <1>8, Nested DEF In
  <1>10. parent(k) = i
    BY <1>1, <1>5, <1>7, <1>9
  <1> QED
    BY <1>4, <1>10 DEF Children

(* Of two nodes that are not in each other two brothers are above.         *)
LEMMA Diverge ==
    ASSUME Ordered, NEW i \in DOMAIN tree, NEW j \in DOMAIN tree, i < j, ~In(i, j)
    PROVE  \E y, x \in DOMAIN tree :
              /\ y < x /\ y # 1 /\ x # 1 /\ parent(y) = parent(x) /\ parent(x) \in DOMAIN tree
              /\ In(y, i) /\ In(x, j)
  <1>1. Len(tree) \in Nat /\ DOMAIN tree = 1..Len(tree)
    BY TreeNodes
  <1> DEFINE S == {k \in DOMAIN tree : In(k, j) /\ k > i}
  <1>2. S \in SUBSET Nat /\ j \in S
    BY <1>1, Self
  <1>3. PICK x \in S : \A m \in S : x <= m
    <2> HIDE DEF S
    <2> QED
      BY <1>2, LeastMember
  <1>4. x \in DOMAIN tree /\ In(x, j) /\ x > i /\ x # 1
    BY <1>1, <1>3
  <1>5. parent(x) \in DOMAIN tree /\ parent(x) < x /\ In(parent(x), x)
    BY <1>1, <1>4, TreeNodes, Self
  <1>6. In(parent(x), j)
    BY <1>4, <1>5, Nested
  <1>7. ~(parent(x) > i)
    BY <1>1, <1>3, <1>4, <1>5, <1>6
  <1>8. i \in parent(x)..x
    BY <1>1, <1>4, <1>5, <1>7
  <1>9. In(parent(x), i) /\ parent(x) # i
    BY <1>4, <1>5, <1>6, <1>8, Nested
  <1>10. PICK y \in Children(parent(x)) : In(y, i) /\ y \in DOMAIN tree /\ y # 1 /\ parent(y) = parent(x)
    BY <1>5, <1>9, ChildToward
  <1>11. y <= i
    BY <1>10 DEF In
  <1>12. y < x
    BY <1>1, <1>4, <1>10, <1>11
  <1> QED
    BY <1>4, <1>5, <1>10, <1>12

-----------------------------------------------------------------------------
(* What the grammar says of the nodes of a text.                           *)
LEMMA ChildrenFinite ==
    ASSUME Ordered, NEW i
    PROVE  IsFiniteSet(Children(i)) /\ \A S \in SUBSET Children(i) : IsFiniteSet(S)
  <1>1. IsFiniteSet(1..Len(tree)) /\ Children(i) \subseteq 1..Len(tree)
    BY TreeNodes, FS_Interval DEF Children
  <1>2. IsFiniteSet(Children(i))
    BY <1>1, FS_Subset
  <1> QED
    BY <1>2, FS_Subset

(* Brothers are in the order of the shape.                                 *)
LEMMA Ranks ==
    ASSUME Ordered, NEW y \in DOMAIN tree, NEW x \in DOMAIN tree,
           y < x, parent(y) = parent(x)
    PROVE  Rank(y) \in Nat /\ Rank(x) \in Nat /\ Rank(y) < Rank(x)
  <1> DEFINE p == parent(x)
             Y == {k \in Children(p) : k <= y}
             X == {k \in Children(p) : k <= x}
  <1>1. DOMAIN tree \subseteq Nat
    BY TreeNodes
  <1>2. Y \subseteq X /\ x \in X /\ x \notin Y
    BY <1>1 DEF Children
  <1>3. IsFiniteSet(X) /\ IsFiniteSet(Y)
    BY ChildrenFinite
  <1>4. Cardinality(X) \in Nat /\ Cardinality(Y) \in Nat
    BY <1>3, FS_CardinalityType
  <1>5. Cardinality(Y) <= Cardinality(X) /\ Cardinality(X) # Cardinality(Y)
    BY <1>2, <1>3, FS_Subset
  <1>6. Rank(y) = Cardinality(Y) /\ Rank(x) = Cardinality(X)
    BY DEF Rank
  <1> QED
    BY <1>4, <1>5, <1>6

LEMMA FirstRank ==
    ASSUME Ordered, Made, NEW i \in DOMAIN tree, i # 1
    PROVE  Rank(i) = 1 <=> parent(i) = i - 1
  <1>1. Len(tree) \in Nat /\ DOMAIN tree = 1..Len(tree) /\ parent(i) \in 1..i - 1
        /\ parent(i) \in DOMAIN tree
    BY TreeNodes
  <1>2. CASE parent(i) = i - 1
    <2>1. {k \in Children(parent(i)) : k <= i} = {i}
      <3>1. Children(parent(i)) \subseteq parent(i) + 1..Len(tree) /\ i \in Children(parent(i))
        BY <1>1, TreeNodes DEF Children
      <3> QED
        BY <1>1, <1>2, <3>1
    <2>2. Rank(i) = 1
      BY <2>1, FS_Singleton DEF Rank
    <2> QED
      BY <1>2, <2>2
  <1>3. CASE parent(i) # i - 1
    <2>1. i - 1 \in DOMAIN tree /\ i - 1 \in parent(i)..i
      BY <1>1
    <2>2. In(parent(i), i - 1)
      BY <1>1, <2>1, Self, Nested
    <2>3. PICK y \in Children(parent(i)) :
            In(y, i - 1) /\ y \in DOMAIN tree /\ y # 1 /\ parent(y) = parent(i)
      BY <1>1, <1>3, <2>1, <2>2, ChildToward
    <2>4. y < i
      BY <1>1, <2>3 DEF In
    <2>5. Rank(y) \in Nat /\ Rank(y) < Rank(i) /\ Rank(y) > 0
      BY <2>3, <2>4, Ranks, NodeNames
    <2> QED
      BY <1>3, <2>5
  <1> QED
    BY <1>2, <1>3

(* A node that starts a line is below all tokens before it.                *)
LEMMA NewLine ==
    ASSUME Grown, NEW x \in DOMAIN tree, x # 1, parent(x) # x - 1,
           Gaps[Name(x)] \subseteq {"newline"}, NEW k \in DOMAIN tree, k < x
    PROVE  EndOfToken(k)[1] < StartPosition(x)[1]
  <1>1. Len(tree) \in Nat /\ DOMAIN tree = 1..Len(tree) /\ Ordered /\ Made
    BY TreeNodes DEF Grown
  <1>2. x \in 2..Len(tree) /\ x - 1 \in DOMAIN tree /\ k <= x - 1
    BY <1>1
  <1>3. PICK gap \in Gaps[Name(x)] : StartPosition(x) = Skip(EndOfToken(x - 1), gap)
    BY <1>2 DEF Grown, LaidOut
  <1>4. gap = "newline"
    BY <1>3
  <1>5. EndOfToken(x - 1) \in Points /\ StartPosition(x - 1) \in Points /\ StartPosition(k) \in Points
        /\ EndOfToken(x - 1)[1] = StartPosition(x - 1)[1] /\ EndOfToken(k)[1] = StartPosition(k)[1]
    BY <1>1, <1>2, TokenEnds
  <1>6. EndOfToken(x - 1)[1] < StartPosition(x)[1] /\ StartPosition(x) \in Points
    BY <1>3, <1>4, <1>5, SkipOn
  <1>7. StartPosition(k)[1] <= StartPosition(x - 1)[1]
    BY <1>2, <1>5, Onwards, PointOrder
  <1>8. /\ StartPosition(k)[1] \in Nat /\ StartPosition(x - 1)[1] \in Nat /\ StartPosition(x)[1] \in Nat
        /\ EndOfToken(x - 1)[1] \in Nat
    BY <1>5, <1>6, PointOrder
  <1> QED
    BY <1>5, <1>6, <1>7, <1>8

(* What is in a node of a closed set of kinds is of them too.              *)
LEMMA ClosedBelow ==
    ASSUME Ordered, Made, NEW K \in SUBSET DOMAIN Grammar, Closed(K),
           NEW i \in DOMAIN tree, tree[i].kind \in K
    PROVE  \A j \in DOMAIN tree : In(i, j) /\ HasChildren(j) => tree[j].kind \in K
  <1> DEFINE n == Len(tree)
             Of(j) == In(i, j) /\ HasChildren(j) => tree[j].kind \in K
             T == {m \in 0..n : \A j \in 1..m : Of(j)}
  <1>1. n \in Nat /\ DOMAIN tree = 1..n
    BY TreeNodes
  <1>2. 0 \in T
    BY <1>1
  <1>3. ASSUME NEW m \in 0..n - 1, m \in T PROVE m + 1 \in T
    <2> DEFINE k == m + 1
    <2>1. k \in 1..n /\ k \in 0..n /\ k \in DOMAIN tree /\ \A j \in 1..k : j \in 1..m \/ j = k
      BY <1>1
    <2>2. \A j \in 1..m : Of(j)
      BY <1>3
    <2>3. k = 1 \/ parent(k) \in 1..m
      BY <1>1, <2>1, TreeNodes
    <2> HIDE DEF k, n
    <2>4. ASSUME In(i, k), HasChildren(k) PROVE tree[k].kind \in K
      <3>1. CASE i = k
        BY <3>1
      <3>2. CASE i # k
        <4>1. In(i, parent(k)) /\ parent(k) \in DOMAIN tree
          BY <2>1, <2>4, <3>2, Nested
        <4>2. k # 1 /\ parent(k) \in 1..m
          BY <2>3, <4>1, TreeNodes
        <4>3. HasChildren(parent(k))
          BY <2>1 DEF HasChildren, Children
        <4>4. tree[parent(k)].kind \in K
          BY <2>2, <4>1, <4>2, <4>3
        <4>5. /\ tree[parent(k)].shape \in Grammar[tree[parent(k)].kind]
              /\ Rank(k) \in DOMAIN tree[parent(k)].shape
              /\ IsOf(tree[k], Symbols[Name(k)])
          BY <2>1, <4>2, NodeNames
        <4>6. ~IsToken(Name(k))
          BY <2>1, <2>4, <4>2, NoToken
        <4>7. IsToken(Name(k)) \/ Symbols[Name(k)].kind \in K
          BY <4>4, <4>5 DEF Closed, Name
        <4> QED
          BY <4>5, <4>6, <4>7 DEF IsOf
      <3> QED
        BY <3>1, <3>2
    <2> HIDE DEF Of
    <2>5. Of(k)
      BY <2>4 DEF Of
    <2> QED
      BY <2>1, <2>2, <2>5 DEF k, n
  <1>4. \A m \in 0..n : m \in T
    <2> HIDE DEF T, n
    <2> QED
      BY <1>1, <1>2, <1>3, BoundedInduction
  <1>5. n \in T
    BY <1>1, <1>4
  <1> QED
    BY <1>1, <1>5

(* Commands, negated statements and sections have children.                *)
LEMMA SpokenHaveChildren ==
    ASSUME Whole, NEW i \in DOMAIN tree, tree[i].kind \in Spoken
    PROVE  i # 1 /\ HasChildren(i)
  <1>1. Ordered /\ Made
    BY DEF Whole, Grown
  <1>2. i # 1
    BY <1>1 DEF Ordered, Spoken, commandKinds, sectionHeaderKinds, kindToSection
  <1>3. Name(i) \in Held /\ IsOf(tree[i], Symbols[Name(i)])
    BY <1>1, <1>2, NodeNames
  <1>4. <<>> \notin Shapes(tree[i].kind)
    BY <1>3, GrammarNodes DEF IsOf
  <1>5. tree[i].shape # <<>> /\ tree[i].shape \in Seq(Held)
    BY <1>1, <1>4, TreeNodes DEF Made, Nodes
  <1>6. Len(tree[i].shape) \in Nat /\ Len(tree[i].shape) > 0
    BY <1>5
  <1>7. ~(Cardinality(Children(i)) < Len(tree[i].shape))
    BY DEF Whole, Finished, Unfinished
  <1>8. Children(i) # {}
    BY <1>6, <1>7, FS_EmptySet
  <1> QED
    BY <1>2, <1>8 DEF HasChildren

(* There are none in a phrase.                                             *)
LEMMA NotInPhrases ==
    ASSUME Whole, NEW i \in DOMAIN tree, tree[i].kind \in Phrases,
           NEW j \in DOMAIN tree, In(i, j)
    PROVE  tree[j].kind \notin Spoken
  <1>1. PICK K \in SUBSET (DOMAIN Grammar \ Spoken) : Closed(K) /\ tree[i].kind \in K
    BY DEF Phrases
  <1>2. HasChildren(j) => tree[j].kind \in K
    BY <1>1, ClosedBelow DEF Whole, Grown
  <1> QED
    BY <1>1, <1>2, SpokenHaveChildren

LEMMA NotInCommands ==
    ASSUME Whole, NEW c \in DOMAIN tree, tree[c].kind \in commandKinds,
           NEW j \in DOMAIN tree, In(c, j), c # j
    PROVE  tree[j].kind \notin Spoken
  <1>1. Ordered /\ Made
    BY DEF Whole, Grown
  <1>2. PICK z \in Children(c) : In(z, j) /\ z \in DOMAIN tree /\ z # 1 /\ parent(z) = c
    BY <1>1, ChildToward
  <1>3. CASE ~HasChildren(z)
    BY <1>1, <1>2, <1>3, Alone, SpokenHaveChildren
  <1>4. CASE HasChildren(z)
    <2>1. /\ tree[c].kind \in DOMAIN Grammar /\ tree[c].shape \in Grammar[tree[c].kind]
          /\ Rank(z) \in DOMAIN tree[c].shape
          /\ IsOf(tree[z], Symbols[Name(z)]) /\ ~IsToken(Name(z))
      BY <1>1, <1>2, <1>4, NodeNames, NoToken
    <2>2. IsToken(Name(z)) \/ Symbols[Name(z)].kind \in Phrases
      BY <1>2, <2>1, GrammarNests DEF Name
    <2>3. tree[z].kind \in Phrases
      BY <2>1, <2>2 DEF IsOf
    <2> QED
      BY <1>2, <2>3, NotInPhrases
  <1> QED
    BY <1>3, <1>4

(* After a node with one of them in it, another starts a line.             *)
LEMMA NextStartsALine ==
    ASSUME Whole, NEW y \in DOMAIN tree, NEW x \in DOMAIN tree,
           y < x, y # 1, x # 1, parent(y) = parent(x), HasChildren(x),
           NEW c \in DOMAIN tree, In(y, c), tree[c].kind \in Spoken
    PROVE  EndPosition(y)[1] < StartPosition(x)[1]
  <1>1. Ordered /\ Made /\ Grown /\ Len(tree) \in Nat /\ DOMAIN tree = 1..Len(tree)
    BY TreeNodes DEF Whole, Grown
  <1>2. HasChildren(y)
    BY <1>1, Alone, SpokenHaveChildren
  <1>3. tree[y].kind \notin Phrases
    BY NotInPhrases
  <1> DEFINE p == parent(x)
  <1>4. /\ tree[p].kind \in DOMAIN Grammar /\ tree[p].shape \in Grammar[tree[p].kind]
        /\ tree[p].shape \in Seq(Held)
        /\ Rank(y) \in 1..Len(tree[p].shape) /\ Rank(x) \in 1..Len(tree[p].shape)
        /\ IsOf(tree[y], Symbols[Name(y)]) /\ ~IsToken(Name(y)) /\ ~IsToken(Name(x))
        /\ Name(y) = tree[p].shape[Rank(y)] /\ Name(x) = tree[p].shape[Rank(x)]
    BY <1>1, <1>2, NodeNames, NoToken DEF Name
  <1>5. Rank(y) \in 1..Rank(x) - 1 /\ Rank(x) \in DOMAIN tree[p].shape
    BY <1>1, <1>4, Ranks
  <1>6. Symbols[Name(y)].kind \notin Phrases
    BY <1>3, <1>4 DEF IsOf
  <1>7. Gaps[Name(x)] \subseteq {"newline"}
    <2> DEFINE s == tree[p].shape
               a == Rank(y)
               b == Rank(x)
    <2>1. /\ tree[p].kind \in DOMAIN Grammar /\ s \in Grammar[tree[p].kind]
          /\ b \in DOMAIN s /\ a \in 1..b - 1
          /\ ~IsToken(s[a]) /\ ~IsToken(s[b]) /\ Symbols[s[a]].kind \notin Phrases
          /\ Name(x) = s[b]
      BY <1>4, <1>5, <1>6
    <2> HIDE DEF s, a, b, p
    <2> QED
      BY <2>1, GrammarLines
  <1>8. parent(x) # x - 1
    <2>1. parent(y) \in 1..y - 1
      BY <1>1, TreeNodes
    <2> QED
      BY <1>1, <2>1
  <1> DEFINE l == Max(Leaves(y))
  <1>9. l \in DOMAIN tree /\ IsLast(y, l) /\ EndPosition(y) = EndOfToken(l)
    BY <1>1, LastExists, Intervals
  <1> HIDE DEF l, p
  <1>10. l < x
    <2> SUFFICES ASSUME x <= l PROVE FALSE
      BY <1>1, <1>9
    <2>1. In(y, x)
      BY <1>1, <1>9, Nested DEF IsLast
    <2>2. y <= parent(x)
      BY <1>1, <2>1 DEF In
    <2>3. parent(y) \in 1..y - 1
      BY <1>1, TreeNodes
    <2> QED
      BY <1>1, <2>2, <2>3
  <1> QED
    BY <1>1, <1>7, <1>8, <1>9, <1>10, NewLine

(* What has children is apart from the tokens before it.                   *)
LEMMA StartsApart ==
    ASSUME Grown, NEW k \in DOMAIN tree, ~HasChildren(k)
    PROVE  \A m \in DOMAIN tree : k < m /\ HasChildren(m) => pointLT(EndOfToken(k), StartPosition(m))
  <1> DEFINE n == Len(tree)
             Apart(m) == k < m /\ HasChildren(m) => pointLT(EndOfToken(k), StartPosition(m))
             T == {b \in 0..n : \A m \in 1..b : Apart(m)}
  <1>1. n \in Nat /\ DOMAIN tree = 1..n /\ Ordered /\ Made
    BY TreeNodes DEF Grown
  <1>2. 0 \in T
    BY <1>1
  <1>3. ASSUME NEW b \in 0..n - 1, b \in T PROVE b + 1 \in T
    <2> DEFINE m == b + 1
    <2>1. m \in 1..n /\ m \in 0..n /\ m \in DOMAIN tree /\ (\A j \in 1..m : j \in 1..b \/ j = m)
          /\ b = m - 1
      BY <1>1
    <2>2. \A j \in 1..b : Apart(j)
      BY <1>3
    <2> HIDE DEF m
    <2>3. ASSUME k < m, HasChildren(m) PROVE pointLT(EndOfToken(k), StartPosition(m))
      <3>1. m \in 2..n /\ b \in DOMAIN tree /\ k <= b /\ b \in 1..b /\ m # 1
        BY <1>1, <2>1, <2>3
      <3>2. /\ EndOfToken(k) \in Points /\ StartPosition(m) \in Points /\ EndOfToken(b) \in Points
            /\ StartPosition(b) \in Points /\ pointLE(StartPosition(b), EndOfToken(b))
        BY <1>1, <2>1, <3>1, TokenEnds
      <3>3. CASE parent(m) = b
        <4>1. StartPosition(m) = StartPosition(b)
          BY <2>1, <3>1, <3>3 DEF Grown, LaidOut
        <4>2. HasChildren(b)
          BY <2>1, <3>3 DEF HasChildren, Children
        <4>3. k < b
          BY <1>1, <3>1, <4>2
        <4> QED
          BY <2>2, <3>1, <4>1, <4>2, <4>3
      <3>4. CASE parent(m) # b
        <4>1. PICK gap \in Gaps[Name(m)] : StartPosition(m) = Skip(EndOfToken(b), gap)
          BY <2>1, <3>1, <3>4 DEF Grown, LaidOut
        <4>2. /\ tree[parent(m)].kind \in DOMAIN Grammar
              /\ tree[parent(m)].shape \in Grammar[tree[parent(m)].kind]
              /\ Rank(m) \in DOMAIN tree[parent(m)].shape
              /\ Rank(m) \in Nat /\ ~IsToken(Name(m))
              /\ gap \in {"none", "blank", "blanks", "newline"}
          BY <1>1, <2>1, <2>3, <3>1, <4>1, NodeNames, NoToken
        <4>3. Rank(m) > 1
          <5>1. Rank(m) # 1
            BY <1>1, <2>1, <3>1, <3>4, FirstRank
          <5>2. Rank(m) > 0
            BY <1>1, <2>1, <3>1, NodeNames
          <5> QED
            BY <4>2, <5>1, <5>2
        <4>4. "none" \notin Gaps[Name(m)]
          BY <4>2, <4>3, GrammarLines DEF Name
        <4>5. pointLT(EndOfToken(b), StartPosition(m))
          BY <3>2, <4>1, <4>2, <4>4, SkipOn
        <4>6. pointLE(EndOfToken(k), EndOfToken(b))
          <5>1. CASE k = b
            BY <3>2, <5>1, PointOrder
          <5>2. CASE k # b
            <6>1. k < b
              BY <1>1, <3>1, <5>2
            <6>2. pointLE(EndOfToken(k), StartPosition(b))
              BY <3>1, <6>1, Onwards
            <6> QED
              BY <3>2, <6>2, PointOrder
          <5> QED
            BY <5>1, <5>2
        <4> QED
          BY <3>2, <4>5, <4>6, PointOrder
      <3> QED
        BY <3>3, <3>4
    <2> HIDE DEF Apart
    <2>4. Apart(m)
      BY <2>3 DEF Apart
    <2> QED
      BY <2>1, <2>2, <2>4 DEF m
  <1>4. \A b \in 0..n : b \in T
    <2> HIDE DEF T, n
    <2> QED
      BY <1>1, <1>2, <1>3, BoundedInduction
  <1>5. n \in T
    BY <1>1, <1>4
  <1> QED
    BY <1>1, <1>5

-----------------------------------------------------------------------------
(* Where the library's search ends.                                        *)
Touches(p, k) == IF StartPosition(k) = EndPosition(k)
                 THEN pointLE(p, EndPosition(k)) ELSE pointLT(p, EndPosition(k))
Ahead(p, i) == {k \in Children(i) : Touches(p, k)}
Goes(p, i) == Ahead(p, i) # {} /\ pointLE(StartPosition(Min(Ahead(p, i))), p)
IsSearch(p, f) == f = [i \in DOMAIN tree |-> IF Goes(p, i) THEN f[Min(Ahead(p, i))] ELSE i]

LEMMA MinAhead ==
    ASSUME Ordered, NEW S \in SUBSET DOMAIN tree, S # {}
    PROVE  Min(S) \in S /\ \A k \in S : Min(S) <= k
  <1>1. S \in SUBSET Nat
    BY TreeNodes
  <1>2. \E m \in S : \A k \in S : m <= k
    BY <1>1, LeastMember
  <1> QED
    BY <1>2 DEF Min

LEMMA SearchIs ==
    ASSUME Ordered, NEW p
    PROVE  \E f : /\ IsSearch(p, f) /\ DescendantForPointRange(p) = f[1]
                  /\ \A R \in SUBSET DOMAIN tree :
                        (\A i \in R : Goes(p, i) => Min(Ahead(p, i)) \in R)
                           => \A i \in R : f[i] \in R /\ ~Goes(p, f[i])
  <1> DEFINE n == Len(tree)
             S == {i \in 1..n : Goes(p, i)}
             next == [i \in S |-> Min(Ahead(p, i))]
  <1>1. n \in Nat /\ DOMAIN tree = 1..n
    BY TreeNodes
  <1>2. S \in SUBSET (1..n)
    OBVIOUS
  <1>3. \A i \in S : next[i] \in 1..n /\ i < next[i]
    <2> TAKE i \in S
    <2>1. Ahead(p, i) # {} /\ Ahead(p, i) \in SUBSET DOMAIN tree
          /\ Ahead(p, i) \subseteq i + 1..n
      BY <1>1, TreeNodes DEF Goes, Ahead, Children
    <2>2. Min(Ahead(p, i)) \in Ahead(p, i)
      BY <2>1, MinAhead
    <2> QED
      BY <1>1, <2>1, <2>2
  <1>4. next \in [S -> 1..n]
    BY <1>3
  <1> DEFINE f == CHOOSE g : IsSearch(p, g)
  <1>5. IsSearch(p, f)
    <2>1. PICK g : g \in WalksOut(n, S, next)
      <3> HIDE DEF S, n, next
      <3> QED
        BY <1>1, <1>2, <1>3, <1>4, WalkExists
    <2>2. g = [i \in 1..n |-> IF i \in S THEN g[next[i]] ELSE i]
      BY <2>1 DEF WalksOut
    <2>3. \A i \in 1..n : (IF i \in S THEN g[next[i]] ELSE i)
                           = IF Goes(p, i) THEN g[Min(Ahead(p, i))] ELSE i
      OBVIOUS
    <2>4. IsSearch(p, g)
      BY <1>1, <2>2, <2>3 DEF IsSearch
    <2> QED
      BY <2>4
  <1>6. DescendantForPointRange(p) = f[1]
    BY DEF DescendantForPointRange, IsSearch, Goes, Ahead, Touches
  <1> HIDE DEF f
  <1>7. \A i \in 1..n : f[i] = IF i \in S THEN f[next[i]] ELSE i
    BY <1>1, <1>5 DEF IsSearch
  <1>8. ASSUME NEW R \in SUBSET DOMAIN tree, \A i \in R : Goes(p, i) => Min(Ahead(p, i)) \in R
        PROVE  \A i \in R : f[i] \in R /\ ~Goes(p, f[i])
    <2>1. \A i \in R \cap S : next[i] \in R
      BY <1>8
    <2>2. \A i \in R : f[i] \in R \ S
      <3>1. R \in SUBSET (1..n) /\ \A i \in S : i < next[i]
        BY <1>1, <1>3
      <3> HIDE DEF S, n, next
      <3> QED
        BY <1>1, <1>2, <1>4, <1>7, <2>1, <3>1, WalkEnds
    <2> QED
      BY <1>1, <2>2
  <1> QED
    BY <1>5, <1>6, <1>8

(* In a node that every node around it touches the position, and that has  *)
(* no child that does.                                                     *)
LEMMA SearchEnds ==
    ASSUME Whole, NEW p \in Points
    PROVE  LET D == DescendantForPointRange(p) IN
           /\ D \in DOMAIN tree
           /\ \A a \in DOMAIN tree : In(a, D) /\ a # 1 =>
                 pointLE(StartPosition(a), p) /\ Touches(p, a)
           /\ \A k \in Children(D) : ~(pointLE(StartPosition(k), p) /\ Touches(p, k))
  <1>1. Ordered /\ Grown /\ 1 \in DOMAIN tree /\ Len(tree) \in Nat /\ DOMAIN tree = 1..Len(tree)
    BY TreeNodes DEF Whole, Grown
  <1> DEFINE Near(a) == pointLE(StartPosition(a), p) /\ Touches(p, a)
             R == {i \in DOMAIN tree : \A a \in DOMAIN tree : In(a, i) /\ a # 1 => Near(a)}
  <1>2. ASSUME NEW i \in R, Goes(p, i) PROVE Min(Ahead(p, i)) \in R
    <2> DEFINE m == Min(Ahead(p, i))
    <2>1. m \in Ahead(p, i)
      BY <1>1, <1>2, MinAhead DEF Goes, Ahead, Children
    <2>2. Near(m) /\ m \in DOMAIN tree /\ parent(m) = i
      BY <1>2, <2>1 DEF Goes, Ahead, Children
    <2>3. \A a \in DOMAIN tree : In(a, m) => a = m \/ In(a, i)
      BY <1>1, <2>2, Nested
    <2> HIDE DEF Near, m
    <2>4. m \in R
      BY <2>2, <2>3
    <2> QED
      BY <2>4 DEF m
  <1>3. 1 \in R
    BY <1>1 DEF In
  <1>4. /\ DescendantForPointRange(p) \in R
        /\ ~Goes(p, DescendantForPointRange(p))
    <2> HIDE DEF R
    <2>1. R \in SUBSET DOMAIN tree
      BY DEF R
    <2> QED
      BY <1>1, <1>2, <1>3, <2>1, SearchIs
  <1> DEFINE D == DescendantForPointRange(p)
  <1>5. D \in R /\ ~Goes(p, D)
    BY <1>4
  <1> HIDE DEF D
  <1>6. ASSUME NEW k \in Children(D), Near(k) PROVE FALSE
    <2>1. k \in Ahead(p, D) /\ Ahead(p, D) \in SUBSET DOMAIN tree
      BY <1>6 DEF Ahead, Children
    <2> DEFINE m == Min(Ahead(p, D))
    <2>2. m \in DOMAIN tree /\ k \in DOMAIN tree /\ m <= k
      BY <1>1, <2>1, MinAhead
    <2>3. /\ pointLE(StartPosition(m), StartPosition(k))
          /\ StartPosition(m) \in Points /\ StartPosition(k) \in Points
      BY <1>1, <2>2, Onwards, TokenEnds
    <2>4. pointLE(StartPosition(m), p)
      BY <1>6, <2>3, PointOrder
    <2> QED
      BY <1>5, <2>1, <2>4 DEF Goes
  <1>7. /\ D \in DOMAIN tree
        /\ \A a \in DOMAIN tree : In(a, D) /\ a # 1 => Near(a)
    BY <1>5
  <1> QED
    BY <1>6, <1>7 DEF D

(* It is in every node the position is in, unless it is one without width, *)
(* at the position.                                                        *)
LEMMA Found ==
    ASSUME Whole, NEW p \in Points, NEW x \in DOMAIN tree,
           pointLE(StartPosition(x), p), pointLT(p, EndPosition(x))
    PROVE  LET D == DescendantForPointRange(p) IN
           \/ In(x, D)
           \/ D # 1 /\ ~HasChildren(D) /\ StartPosition(D) = p /\ EndPosition(D) = p
  <1> DEFINE D == DescendantForPointRange(p)
             Near(a) == pointLE(StartPosition(a), p) /\ Touches(p, a)
  <1>1. /\ D \in DOMAIN tree
        /\ \A a \in DOMAIN tree : In(a, D) /\ a # 1 => Near(a)
        /\ \A k \in Children(D) : ~Near(k)
    BY SearchEnds
  <1>2. Ordered /\ Grown /\ Len(tree) \in Nat /\ DOMAIN tree = 1..Len(tree)
    BY TreeNodes DEF Whole, Grown
  <1> HIDE DEF D
  <1>3. \A i \in DOMAIN tree : StartPosition(i) \in Points /\ EndPosition(i) \in Points
                               /\ pointLE(StartPosition(i), EndPosition(i))
    BY <1>2, TokenEnds, Intervals
  <1>4. ASSUME In(D, x), D # x PROVE FALSE
    <2>1. PICK k \in Children(D) : In(k, x) /\ k \in DOMAIN tree
      BY <1>1, <1>2, <1>4, ChildToward
    <2>2. pointLE(StartPosition(k), StartPosition(x)) /\ pointLE(EndPosition(x), EndPosition(k))
      BY <2>1, Within
    <2>3. pointLE(StartPosition(k), p) /\ pointLT(p, EndPosition(k))
      BY <1>3, <2>1, <2>2, PointOrder
    <2>4. Near(k)
      BY <1>3, <2>1, <2>3, PointOrder DEF Touches
    <2> HIDE DEF Near
    <2> QED
      BY <1>1, <2>1, <2>4
  <1>5. CASE x < D /\ ~In(x, D)
    <2>1. pointLE(EndPosition(x), StartPosition(D))
      BY <1>1, <1>5, Beside
    <2>2. D # 1
      BY <1>2, <1>5
    <2>3. pointLE(StartPosition(D), p)
      BY <1>1, <1>2, <2>2, Self
    <2> QED
      BY <1>1, <1>3, <2>1, <2>3, PointOrder
  <1>6. CASE D < x /\ ~In(D, x)
    <2>1. pointLE(EndPosition(D), StartPosition(x))
      BY <1>1, <1>6, Beside
    <2>2. D # 1
      BY <1>2, <1>6, Self
    <2>3. Near(D)
      BY <1>1, <1>2, <2>2, Self
    <2>4. pointLE(EndPosition(D), p)
      BY <1>1, <1>3, <2>1, PointOrder
    <2>5. StartPosition(D) = EndPosition(D) /\ pointLE(p, EndPosition(D))
      BY <1>1, <1>3, <2>3, <2>4, PointOrder DEF Touches
    <2>6. EndPosition(D) = p
      BY <1>1, <1>3, <2>4, <2>5, PointOrder
    <2>7. ASSUME NEW k \in Children(D) PROVE FALSE
      <3>1. k \in DOMAIN tree /\ In(D, k)
        BY <1>1, <1>2, Self, TreeNodes DEF Children
      <3>2. pointLE(StartPosition(D), StartPosition(k)) /\ pointLE(EndPosition(k), EndPosition(D))
        BY <1>1, <3>1, Within
      <3>3. StartPosition(k) = p /\ EndPosition(k) = p
        BY <1>1, <1>3, <2>5, <2>6, <3>1, <3>2, PointOrder
      <3>4. Near(k)
        BY <3>3, PointOrder DEF Touches
      <3> HIDE DEF Near
      <3> QED
        BY <1>1, <3>4
    <2> QED
      BY <2>2, <2>5, <2>6, <2>7 DEF HasChildren, D
  <1>7. CASE D = x
    BY <1>1, <1>2, <1>7, Self DEF D
  <1> QED
    BY <1>1, <1>2, <1>4, <1>5, <1>6, <1>7 DEF D

-----------------------------------------------------------------------------
(* Where the descent for the token before the position ends.               *)
Before(p, i) == {k \in Children(i) : pointLE(EndPosition(k), p)}
IsDescent(p, f) == f = [i \in DOMAIN tree |-> IF Before(p, i) = {} THEN i ELSE f[Max(Before(p, i))]]

LEMMA DescentIs ==
    ASSUME Ordered, NEW p
    PROVE  \E f : /\ IsDescent(p, f) /\ deepestLeafEndingAtOrBefore(p) = f[1]
                  /\ \A R \in SUBSET DOMAIN tree :
                        (\A i \in R : Before(p, i) # {} => Max(Before(p, i)) \in R)
                           => \A i \in R : f[i] \in R /\ Before(p, f[i]) = {}
  <1> DEFINE n == Len(tree)
             S == {i \in 1..n : Before(p, i) # {}}
             next == [i \in S |-> Max(Before(p, i))]
  <1>1. n \in Nat /\ DOMAIN tree = 1..n
    BY TreeNodes
  <1>2. S \in SUBSET (1..n)
    OBVIOUS
  <1>3. \A i \in S : next[i] \in 1..n /\ i < next[i]
    <2> TAKE i \in S
    <2>1. Before(p, i) # {} /\ Before(p, i) \in SUBSET (1..n)
          /\ Before(p, i) \subseteq i + 1..n
      BY <1>1, TreeNodes DEF Before, Children
    <2>2. Max(Before(p, i)) \in Before(p, i)
      BY <1>1, <2>1, GreatestMember
    <2> QED
      BY <1>1, <2>1, <2>2
  <1>4. next \in [S -> 1..n]
    BY <1>3
  <1> DEFINE f == CHOOSE g : IsDescent(p, g)
  <1>5. IsDescent(p, f)
    <2>1. PICK g : g \in WalksOut(n, S, next)
      <3> HIDE DEF S, n, next
      <3> QED
        BY <1>1, <1>2, <1>3, <1>4, WalkExists
    <2>2. g = [i \in 1..n |-> IF i \in S THEN g[next[i]] ELSE i]
      BY <2>1 DEF WalksOut
    <2>3. \A i \in 1..n : (IF i \in S THEN g[next[i]] ELSE i)
                           = IF Before(p, i) = {} THEN i ELSE g[Max(Before(p, i))]
      OBVIOUS
    <2>4. IsDescent(p, g)
      BY <1>1, <2>2, <2>3 DEF IsDescent
    <2> QED
      BY <2>4
  <1>6. deepestLeafEndingAtOrBefore(p) = f[1]
    BY DEF deepestLeafEndingAtOrBefore, IsDescent, Before
  <1> HIDE DEF f
  <1>7. \A i \in 1..n : f[i] = IF i \in S THEN f[next[i]] ELSE i
    BY <1>1, <1>5 DEF IsDescent
  <1>8. ASSUME NEW R \in SUBSET DOMAIN tree, \A i \in R : Before(p, i) # {} => Max(Before(p, i)) \in R
        PROVE  \A i \in R : f[i] \in R /\ Before(p, f[i]) = {}
    <2>1. \A i \in R \cap S : next[i] \in R
      BY <1>8
    <2>2. \A i \in R : f[i] \in R \ S
      <3>1. R \in SUBSET (1..n) /\ \A i \in S : i < next[i]
        BY <1>1, <1>3
      <3> HIDE DEF S, n, next
      <3> QED
        BY <1>1, <1>2, <1>4, <1>7, <2>1, <3>1, WalkEnds
    <2> QED
      BY <1>1, <2>2
  <1> QED
    BY <1>5, <1>6, <1>8

(* In the root, or in a token; every node around it is the last of its     *)
(* brothers that ends at or before the position.                           *)
LEMMA PrevEnds ==
    ASSUME Whole, NEW p \in Points
    PROVE  LET P == deepestLeafEndingAtOrBefore(p) IN
           /\ P \in DOMAIN tree
           /\ P # 1 => ~HasChildren(P)
           /\ \A a \in DOMAIN tree : In(a, P) /\ a # 1 =>
                 /\ pointLE(EndPosition(a), p)
                 /\ \A x \in DOMAIN tree : parent(x) = parent(a) /\ a < x => pointLT(p, EndPosition(x))
  <1>1. Ordered /\ Grown /\ 1 \in DOMAIN tree /\ Len(tree) \in Nat /\ DOMAIN tree = 1..Len(tree)
    BY TreeNodes DEF Whole, Grown
  <1>2. \A i \in DOMAIN tree : EndPosition(i) \in Points
    BY Intervals
  <1> DEFINE Latest(a) ==
               /\ pointLE(EndPosition(a), p)
               /\ \A x \in DOMAIN tree : parent(x) = parent(a) /\ a < x => pointLT(p, EndPosition(x))
             R == {i \in DOMAIN tree : \A a \in DOMAIN tree : In(a, i) /\ a # 1 => Latest(a)}
  <1>3. ASSUME NEW i \in R, Before(p, i) # {} PROVE Max(Before(p, i)) \in R
    <2> DEFINE m == Max(Before(p, i))
    <2>1. Before(p, i) \in SUBSET (1..Len(tree))
      BY <1>1 DEF Before, Children
    <2>2. m \in Before(p, i) /\ \A k \in Before(p, i) : k <= m
      BY <1>1, <1>3, <2>1, GreatestMember
    <2>3. m \in DOMAIN tree /\ parent(m) = i /\ pointLE(EndPosition(m), p)
      BY <2>2 DEF Before, Children
    <2> HIDE DEF m
    <2>4. ASSUME NEW x \in DOMAIN tree, parent(x) = parent(m), m < x
          PROVE  pointLT(p, EndPosition(x))
      <3>1. ~pointLE(EndPosition(x), p)
        BY <1>1, <2>2, <2>3, <2>4 DEF Before, Children
      <3> QED
        BY <1>2, <3>1, PointOrder
    <2>5. Latest(m)
      BY <2>3, <2>4
    <2>6. \A a \in DOMAIN tree : In(a, m) => a = m \/ In(a, i)
      BY <1>1, <2>3, Nested
    <2> HIDE DEF Latest
    <2>7. m \in R
      BY <2>3, <2>5, <2>6
    <2> QED
      BY <2>7 DEF m
  <1>4. 1 \in R
    BY <1>1 DEF In
  <1>5. /\ deepestLeafEndingAtOrBefore(p) \in R
        /\ Before(p, deepestLeafEndingAtOrBefore(p)) = {}
    <2> HIDE DEF R
    <2>1. R \in SUBSET DOMAIN tree
      BY DEF R
    <2> QED
      BY <1>1, <1>3, <1>4, <2>1, DescentIs
  <1> DEFINE P == deepestLeafEndingAtOrBefore(p)
  <1>6. P \in R /\ Before(p, P) = {}
    BY <1>5
  <1> HIDE DEF P
  <1>7. P \in DOMAIN tree /\ \A a \in DOMAIN tree : In(a, P) /\ a # 1 => Latest(a)
    BY <1>6
  <1>8. ASSUME P # 1, NEW k \in Children(P) PROVE FALSE
    <2>1. k \in DOMAIN tree /\ In(P, k) /\ In(P, P)
      BY <1>1, <1>7, Self, TreeNodes DEF Children
    <2>2. pointLE(EndPosition(k), EndPosition(P)) /\ pointLE(EndPosition(P), p)
      BY <1>7, <1>8, <2>1, Within
    <2>3. pointLE(EndPosition(k), p)
      BY <1>2, <1>7, <2>1, <2>2, PointOrder
    <2> QED
      BY <1>6, <2>3 DEF Before
  <1> QED
    BY <1>7, <1>8 DEF P, HasChildren

-----------------------------------------------------------------------------
(* The node a position resolves to: the one the search ends in or its      *)
(* parent, or else the token before the position on its line.              *)
LEMMA NodeFound ==
    ASSUME NEW p
    PROVE  LET D == DescendantForPointRange(p)
               P == deepestLeafEndingAtOrBefore(p)
           IN  /\ tree[D].kind = "text" => FindNodeAtPosition(p) = parent(D)
               /\ tree[D].kind # "text" /\ ~HasChildren(D) =>
                     FindNodeAtPosition(p) = IF EndPosition(D) = p THEN parent(D) ELSE D
               /\ tree[D].kind # "text" /\ HasChildren(D) =>
                     FindNodeAtPosition(p) = IF JustBefore(P, p) THEN P ELSE D
  <1> DEFINE D == DescendantForPointRange(p)
             P == deepestLeafEndingAtOrBefore(p)
  <1>1. FindNodeAtPosition(p) =
          CASE tree[D].kind = "text" -> parent(D)
            [] ~HasChildren(D) /\ tree[D].kind # "text" -> IF EndPosition(D) = p THEN parent(D) ELSE D
            [] OTHER -> IF JustBefore(P, p) THEN P ELSE D
    BY DEF FindNodeAtPosition
  <1> HIDE DEF D, P
  <1>2. CASE tree[D].kind = "text"
    BY <1>1, <1>2 DEF D, P
  <1>3. CASE tree[D].kind # "text" /\ ~HasChildren(D)
    BY <1>1, <1>3 DEF D, P
  <1>4. CASE tree[D].kind # "text" /\ HasChildren(D)
    BY <1>1, <1>4 DEF D, P
  <1> QED
    BY <1>2, <1>3, <1>4 DEF D, P

LEMMA WhereFound ==
    ASSUME Whole, NEW p \in Points, FindNodeAtPosition(p) # 0
    PROVE  LET D == DescendantForPointRange(p)
               P == deepestLeafEndingAtOrBefore(p)
               node == FindNodeAtPosition(p)
           IN  /\ node \in DOMAIN tree
               /\ \/ In(node, D)
                  \/ node = P /\ JustBefore(P, p) /\ HasChildren(D)
  <1> DEFINE D == DescendantForPointRange(p)
             P == deepestLeafEndingAtOrBefore(p)
             node == FindNodeAtPosition(p)
  <1>1. D \in DOMAIN tree /\ P \in DOMAIN tree
    BY SearchEnds, PrevEnds
  <1>2. node = D \/ node = parent(D) \/ (node = P /\ JustBefore(P, p) /\ HasChildren(D))
    <2>1. /\ tree[D].kind = "text" => node = parent(D)
          /\ tree[D].kind # "text" /\ ~HasChildren(D) => node = IF EndPosition(D) = p THEN parent(D) ELSE D
          /\ tree[D].kind # "text" /\ HasChildren(D) => node = IF JustBefore(P, p) THEN P ELSE D
      BY NodeFound
    <2> HIDE DEF D, P, node
    <2> QED
      BY <2>1
  <1>3. node # 0
    OBVIOUS
  <1> HIDE DEF D, P, node
  <1>4. Ordered
    BY DEF Whole, Grown
  <1>5. CASE node = D
    BY <1>1, <1>4, <1>5, Self DEF D, P, node
  <1>6. CASE node = parent(D)
    <2>1. D # 1
      BY <1>3, <1>4, <1>6, TreeNodes
    <2>2. node \in DOMAIN tree
      BY <1>1, <1>4, <1>6, <2>1, TreeNodes
    <2> QED
      BY <1>1, <1>4, <1>6, <2>1, <2>2, Self DEF D, P, node
  <1>7. CASE node = P /\ JustBefore(P, p) /\ HasChildren(D)
    BY <1>1, <1>7 DEF D, P, node
  <1> QED
    BY <1>2, <1>5, <1>6, <1>7

(* The innermost of some nodes.                                            *)
LEMMA InnermostIs ==
    ASSUME Ordered, NEW S \in SUBSET DOMAIN tree, S # {}
    PROVE  Innermost(S) \in S /\ \A k \in S : k <= Innermost(S)
  <1>1. Len(tree) \in Nat /\ S \in SUBSET (1..Len(tree))
    BY TreeNodes
  <1>2. Max(S) \in S /\ \A k \in S : k <= Max(S)
    BY <1>1, GreatestMember
  <1>3. \E i \in S : \A k \in S : k <= i
    BY <1>2
  <1> QED
    BY <1>3 DEF Innermost

(* The command hover climbs to, with its "no", is around the node.         *)
LEMMA CommandFound ==
    ASSUME Whole, NEW n \in DOMAIN tree, commandNodeForHover(n) # 0
    PROVE  LET c == commandNodeForHover(n)
               whole == IF tree[parent(c)].kind = "negated_statement" THEN parent(c) ELSE c
           IN  /\ c \in DOMAIN tree /\ whole \in DOMAIN tree
               /\ In(whole, n) /\ tree[whole].kind \in Spoken
  <1> DEFINE around == {a \in Ancestors(n) \cup {n} :
                          IsCommand(a) \/ tree[a].kind = "negated_statement"}
             w == Innermost(around)
             keywords == {k \in Children(w) : tree[k].field = "keyword"}
             c == commandNodeForHover(n)
  <1>1. Ordered
    BY DEF Whole, Grown
  <1>2. around \in SUBSET DOMAIN tree /\ \A a \in around : In(a, n)
    BY <1>1, AncestorsIn
  <1>3. c = CASE around = {} -> 0
              [] around # {} /\ IsCommand(w) -> w
              [] OTHER -> IF keywords = {} THEN 0 ELSE Min(keywords)
    BY DEF commandNodeForHover
  <1>4. c # 0
    OBVIOUS
  <1>5. \A a \in around : IsCommand(a) \/ tree[a].kind = "negated_statement"
    OBVIOUS
  <1> HIDE DEF c, around, keywords
  <1>6. around # {}
    BY <1>3, <1>4
  <1>7. w \in around
    BY <1>1, <1>2, <1>6, InnermostIs
  <1> HIDE DEF w
  <1>8. w \in DOMAIN tree /\ In(w, n) /\ tree[w].kind \in Spoken
        /\ (IsCommand(w) \/ tree[w].kind = "negated_statement")
    BY <1>2, <1>5, <1>7 DEF IsCommand, Spoken
  <1>9. CASE IsCommand(w)
    <2>1. c = w
      BY <1>3, <1>6, <1>9
    <2>2. CASE tree[parent(c)].kind = "negated_statement"
      <3>1. w # 1
        BY <1>8, SpokenHaveChildren
      <3>2. parent(w) \in DOMAIN tree /\ In(parent(w), w)
        BY <1>1, <1>8, <3>1, Self, TreeNodes
      <3>3. In(parent(w), n)
        BY <1>1, <1>8, <3>2, Nested
      <3> QED
        BY <1>8, <2>1, <2>2, <3>2, <3>3 DEF c, Spoken
    <2>3. CASE tree[parent(c)].kind # "negated_statement"
      BY <1>8, <2>1, <2>3 DEF c
    <2> QED
      BY <2>2, <2>3
  <1>10. CASE ~IsCommand(w)
    <2>1. c = IF keywords = {} THEN 0 ELSE Min(keywords)
      BY <1>3, <1>6, <1>10
    <2>2. keywords # {} /\ c = Min(keywords)
      BY <1>4, <2>1
    <2>3. keywords \in SUBSET DOMAIN tree
      BY DEF keywords, Children
    <2>4. c \in keywords
      BY <1>1, <2>2, <2>3, MinAhead
    <2>5. c \in DOMAIN tree /\ parent(c) = w
      BY <2>4 DEF keywords, Children
    <2> QED
      BY <1>8, <1>10, <2>5 DEF c
  <1> QED
    BY <1>9, <1>10

(* A token of the text is as wide as its words.                            *)
LEMMA TokensAreWide ==
    ASSUME Whole, NEW k \in DOMAIN tree, k # 1, ~HasChildren(k), ~IsMissing(k)
    PROVE  pointLT(StartPosition(k), EndPosition(k))
  <1>1. Ordered /\ Made
    BY DEF Whole, Grown
  <1>2. Name(k) \in Held /\ IsOf(tree[k], Symbols[Name(k)])
    BY <1>1, NodeNames
  <1>3. tree[k].shape = <<>>
    <2>1. tree[k].shape \in Seq(Held)
      BY <1>1, TreeNodes DEF Nodes
    <2>2. ~(Cardinality(Children(k)) < Len(tree[k].shape))
      BY DEF Whole, Finished, Unfinished
    <2>3. Cardinality(Children(k)) = 0
      BY FS_EmptySet DEF HasChildren
    <2> QED
      BY <2>1, <2>2, <2>3
  <1>4. <<>> \in Shapes(tree[k].kind)
    BY <1>1, <1>3 DEF Made
  <1>5. tree[k].words # <<>>
    BY <1>2, <1>4, GrammarNodes DEF IsOf, IsMissing
  <1> QED
    BY <1>1, <1>5, TokenEnds, Intervals

(* Hover is near.                                                          *)
LEMMA NearWhenAsked ==
    ASSUME Whole, NEW p \in Points, answer = HoverAnswer(p)
    PROVE  HoverIsNear
  <1> DEFINE node == FindNodeAtPosition(p)
             D == DescendantForPointRange(p)
             P == deepestLeafEndingAtOrBefore(p)
             c == answer.cmd
             whole == IF tree[parent(c)].kind = "negated_statement" THEN parent(c) ELSE c
  <1> SUFFICES ASSUME answer.name # None
               PROVE  /\ pointLE(StartPosition(whole), p)
                      /\ \/ pointLE(p, EndPosition(whole))
                         \/ /\ SameRow(EndPosition(whole), p)
                            /\ \A k \in Tokens : pointLE(EndPosition(whole), StartPosition(k)) =>
                                   pointLT(p, StartPosition(k))
    <2>1. answer.at = p
      BY DEF HoverAnswer
    <2> HIDE DEF node, D, P
    <2> QED
      BY <2>1 DEF HoverIsNear
  <1>1. c = (IF node = 0 THEN 0 ELSE commandNodeForHover(node)) /\ c # 0
    BY DEF HoverAnswer
  <1>2. node # 0 /\ c = commandNodeForHover(node) /\ commandNodeForHover(node) # 0
    BY <1>1
  <1>3. node \in DOMAIN tree /\ (In(node, D) \/ (node = P /\ JustBefore(P, p) /\ HasChildren(D)))
    BY <1>2, WhereFound
  <1>4. whole \in DOMAIN tree /\ In(whole, node) /\ tree[whole].kind \in Spoken
    <2> HIDE DEF node
    <2> QED
      BY <1>2, <1>3, CommandFound
  <1>5. /\ D \in DOMAIN tree
        /\ \A a \in DOMAIN tree : In(a, D) /\ a # 1 => pointLE(StartPosition(a), p) /\ Touches(p, a)
    BY SearchEnds
  <1>6. /\ P \in DOMAIN tree /\ (P # 1 => ~HasChildren(P))
        /\ \A a \in DOMAIN tree : In(a, P) /\ a # 1 =>
              /\ pointLE(EndPosition(a), p)
              /\ \A x \in DOMAIN tree : parent(x) = parent(a) /\ a < x => pointLT(p, EndPosition(x))
    BY PrevEnds
  <1>d. \A x \in DOMAIN tree : pointLE(StartPosition(x), p) /\ pointLT(p, EndPosition(x)) =>
            In(x, D) \/ ~HasChildren(D)
    BY Found
  <1> HIDE DEF node, D, P, c, whole
  <1>7. Ordered /\ Grown /\ Made /\ Len(tree) \in Nat /\ DOMAIN tree = 1..Len(tree)
    BY TreeNodes DEF Whole, Grown
  <1>8. \A i \in DOMAIN tree : StartPosition(i) \in Points /\ EndPosition(i) \in Points
                               /\ pointLE(StartPosition(i), EndPosition(i))
    BY <1>7, TokenEnds, Intervals
  <1>9. whole # 1 /\ HasChildren(whole)
    BY <1>4, SpokenHaveChildren
  <1>10. CASE In(node, D)
    <2>1. In(whole, D)
      BY <1>3, <1>4, <1>5, <1>7, <1>10, Nested
    <2>2. pointLE(StartPosition(whole), p) /\ Touches(p, whole)
      BY <1>4, <1>5, <1>9, <2>1
    <2>3. pointLE(p, EndPosition(whole))
      BY <1>4, <1>8, <2>2, PointOrder DEF Touches
    <2> QED
      BY <2>2, <2>3
  <1>11. CASE node = P /\ JustBefore(P, p) /\ HasChildren(D)
    <2>1. In(whole, P) /\ P # 1
      <3>1. In(whole, P) /\ whole <= P
        BY <1>4, <1>11 DEF In
      <3> QED
        BY <1>4, <1>6, <1>7, <1>9, <3>1
    <2>2. pointLE(EndPosition(whole), p)
      BY <1>4, <1>6, <1>9, <2>1
    <2>3. pointLE(StartPosition(whole), p)
      BY <1>4, <1>8, <2>2, PointOrder
    <2>4. EndPosition(P)[1] = p[1] /\ pointLE(EndPosition(P), EndPosition(whole))
      BY <1>4, <1>6, <1>11, <2>1, Within DEF JustBefore, SameRow
    <2>5. \A i \in DOMAIN tree : StartPosition(i)[1] \in Nat /\ EndPosition(i)[1] \in Nat
      BY <1>8, PointOrder
    <2>6. EndPosition(whole)[1] = p[1]
      <3>1. EndPosition(P)[1] <= EndPosition(whole)[1] /\ EndPosition(whole)[1] <= p[1]
        BY <1>4, <1>6, <1>8, <2>2, <2>4, PointOrder
      <3> QED
        BY <1>4, <1>6, <2>4, <2>5, <3>1
    <2>7. ASSUME NEW k \in Tokens, pointLE(EndPosition(whole), StartPosition(k)),
                 pointLE(StartPosition(k), p)
          PROVE  FALSE
      <3>1. k \in DOMAIN tree /\ k # 1 /\ ~HasChildren(k) /\ ~IsMissing(k)
        BY DEF Tokens
      <3>2. pointLT(StartPosition(k), EndPosition(k))
        BY <3>1, TokensAreWide
      <3>3. ~pointLE(EndPosition(k), EndPosition(whole))
        BY <1>4, <1>8, <2>7, <3>1, <3>2, PointOrder
      <3>4. ~In(whole, k)
        BY <1>4, <3>1, <3>3, Within
      <3>5. ~In(k, whole)
        BY <1>4, <1>7, <1>9, <3>1, Alone
      <3>6. whole < k
        <4>1. ASSUME k < whole PROVE FALSE
          <5>1. pointLE(EndPosition(k), StartPosition(whole))
            BY <1>4, <3>1, <3>5, <4>1, Beside
          <5> QED
            BY <1>4, <1>8, <3>1, <3>3, <5>1, PointOrder
        <4> QED
          BY <1>4, <1>7, <1>9, <3>1, <4>1
      <3>7. PICK y, x \in DOMAIN tree :
              /\ y < x /\ y # 1 /\ x # 1 /\ parent(y) = parent(x)
              /\ In(y, whole) /\ In(x, k)
        BY <1>4, <1>7, <3>1, <3>4, <3>6, Diverge
      <3>8. In(y, P)
        BY <1>4, <1>6, <1>7, <2>1, <3>7, Nested
      <3>9. pointLT(p, EndPosition(x))
        BY <1>6, <3>7, <3>8
      <3>10. pointLE(StartPosition(x), p)
        <4>1. pointLE(StartPosition(x), StartPosition(k))
          BY <3>1, <3>7, Within
        <4> QED
          BY <1>8, <2>7, <3>1, <3>7, <4>1, PointOrder
      <3>11. In(x, D)
        BY <1>d, <1>11, <3>7, <3>9, <3>10
      <3>12. HasChildren(x)
        BY <1>5, <1>7, <1>11, <3>7, <3>11, Alone
      <3>13. EndPosition(y)[1] < StartPosition(x)[1]
        BY <1>4, <3>7, <3>12, NextStartsALine
      <3>14. pointLE(EndPosition(whole), EndPosition(y))
        BY <1>4, <3>7, Within
      <3>15. EndPosition(whole)[1] <= EndPosition(y)[1] /\ StartPosition(x)[1] <= p[1]
        BY <1>4, <1>8, <3>7, <3>10, <3>14, PointOrder
      <3> QED
        BY <1>4, <2>5, <2>6, <3>7, <3>13, <3>15
    <2>8. \A k \in Tokens : pointLE(EndPosition(whole), StartPosition(k)) => pointLT(p, StartPosition(k))
      <3>1. \A k \in Tokens : StartPosition(k) \in Points
        BY <1>8 DEF Tokens
      <3> QED
        BY <2>7, <3>1, PointOrder
    <2> QED
      BY <2>3, <2>6, <2>8 DEF SameRow
  <1> QED
    BY <1>3, <1>10, <1>11

-----------------------------------------------------------------------------
(* The sections around a node.                                             *)
Around(i) == {a \in Ancestors(i) \cup {i} : IsSectionHeader(a)}

LEMMA AroundIs ==
    ASSUME Ordered, NEW i \in DOMAIN tree
    PROVE  /\ \A a : a \in Around(i) <=> a \in DOMAIN tree /\ In(a, i) /\ IsSectionHeader(a)
           /\ Around(i) \in SUBSET DOMAIN tree
  <1> QED
    BY AncestorsIn DEF Around

LEMMA SameAround ==
    ASSUME NEW i, NEW j, Around(i) = Around(j)
    PROVE  EnclosingSection(i) = EnclosingSection(j)
  <1>1. \A k : EnclosingSection(k) =
           IF Around(k) = {} THEN [section |-> "config", protocol |-> ""]
           ELSE IF tree[Innermost(Around(k))].kind = "ip_access_list_section"
           THEN [section |-> resolveACLSection(Innermost(Around(k))), protocol |-> ""]
           ELSE [section |-> kindToSection[tree[Innermost(Around(k))].kind],
                 protocol |-> protocolFor(Innermost(Around(k)))]
    BY DEF EnclosingSection, Around
  <1> QED
    BY <1>1

LEMMA SectionIsSpoken ==
    ASSUME NEW s, IsSectionHeader(s)
    PROVE  tree[s].kind \in Spoken /\ tree[s].kind \in sectionHeaderKinds
  <1> QED
    BY DEF IsSectionHeader, Spoken

(* In a command there are no sections, and a token is none.                *)
LEMMA AroundInCommand ==
    ASSUME Whole, NEW c \in DOMAIN tree, tree[c].kind \in commandKinds,
           NEW j \in DOMAIN tree, In(c, j)
    PROVE  Around(j) = Around(c)
  <1>1. Ordered
    BY DEF Whole, Grown
  <1>2. \A a \in Around(c) : a \in Around(j)
    BY <1>1, AroundIs, Nested
  <1>3. ASSUME NEW a \in Around(j) PROVE a \in Around(c)
    <2>1. a \in DOMAIN tree /\ In(a, j) /\ IsSectionHeader(a) /\ tree[a].kind \in Spoken
      BY <1>1, AroundIs, SectionIsSpoken
    <2>2. CASE a <= c
      <3>1. In(a, c)
        BY <1>1, <2>1, <2>2, Nested
      <3> QED
        BY <1>1, <2>1, <3>1, AroundIs
    <2>3. CASE c <= a /\ a # c
      <3>1. In(c, a)
        BY <1>1, <2>1, <2>3, Nested
      <3> QED
        BY <2>1, <2>3, <3>1, NotInCommands
    <2>4. a <= c \/ (c <= a /\ a # c)
      BY <1>1, <2>1, TreeNodes
    <2> QED
      BY <2>2, <2>3, <2>4
  <1> QED
    BY <1>2, <1>3

LEMMA AroundToken ==
    ASSUME Whole, NEW x \in DOMAIN tree, x # 1, ~HasChildren(x)
    PROVE  parent(x) \in DOMAIN tree /\ Around(x) = Around(parent(x))
  <1>1. Ordered
    BY DEF Whole, Grown
  <1>2. parent(x) \in DOMAIN tree /\ In(parent(x), x)
    BY <1>1, TreeNodes, Self
  <1>3. ~IsSectionHeader(x)
    BY SectionIsSpoken, SpokenHaveChildren
  <1>4. \A a \in DOMAIN tree : In(a, x) /\ a # x => In(a, parent(x))
    BY <1>1, Nested
  <1>5. \A a \in DOMAIN tree : In(a, parent(x)) => In(a, x)
    BY <1>1, <1>2, Nested
  <1>6. \A a : a \in Around(x) <=> a \in Around(parent(x))
    BY <1>1, <1>2, <1>3, <1>4, <1>5, AroundIs
  <1> QED
    BY <1>2, <1>6

(* A section that is terminated ends on a line below all that is in it.    *)
LEMMA SectionEnds ==
    ASSUME Whole, NEW s \in DOMAIN tree, IsSectionHeader(s),
           ~\E e \in Children(s) : tree[e].kind = "eos" /\ IsMissing(e),
           NEW c \in DOMAIN tree, In(s, c), c # s, HasChildren(c)
    PROVE  EndPosition(c)[1] < EndPosition(s)[1]
  <1>1. Ordered /\ Made /\ Grown /\ Len(tree) \in Nat /\ DOMAIN tree = 1..Len(tree)
    BY TreeNodes DEF Whole, Grown
  <1>2. s # 1 /\ HasChildren(s) /\ tree[s].kind \in sectionHeaderKinds
    BY SectionIsSpoken, SpokenHaveChildren
  <1> DEFINE e == Max(Children(s))
  <1>3. e \in Children(s) /\ \A k \in Children(s) : k <= e
    <2>1. Children(s) \in SUBSET (1..Len(tree)) /\ Children(s) # {}
      BY <1>1, <1>2 DEF Children, HasChildren
    <2> QED
      BY <1>1, <2>1, GreatestMember
  <1> HIDE DEF e
  <1>4. e \in DOMAIN tree /\ e # 1 /\ parent(e) = s /\ s < e
    <2>1. e \in DOMAIN tree /\ parent(e) = s /\ e \in s + 1..Len(tree)
      BY <1>1, <1>3, TreeNodes DEF Children
    <2> QED
      BY <1>1, <2>1
  <1>5. Rank(e) = Len(tree[s].shape)
    <2>1. {k \in Children(s) : k <= e} = Children(s)
      BY <1>3
    <2>2. Rank(e) = Cardinality(Children(s))
      BY <1>4, <2>1 DEF Rank
    <2>3. ~(Cardinality(Children(s)) < Len(tree[s].shape))
      BY DEF Whole, Finished, Unfinished
    <2>4. Rank(e) \in 1..Len(tree[s].shape) /\ tree[s].shape \in Seq(Held)
      BY <1>1, <1>4, NodeNames
    <2>5. Len(tree[s].shape) \in Nat
      BY <2>4
    <2> QED
      BY <2>2, <2>3, <2>4, <2>5
  <1>6. tree[e].kind = "eos" /\ Name(e) \in Held /\ IsOf(tree[e], Symbols[Name(e)])
    <2>1. Name(s) \in Held /\ IsOf(tree[s], Symbols[Name(s)])
      BY <1>1, <1>2, NodeNames
    <2>2. tree[s].shape \in Shapes(Symbols[Name(s)].kind)
      BY <1>1, <2>1 DEF Made, IsOf
    <2>3. Symbols[tree[s].shape[Len(tree[s].shape)]].kind = "eos"
      BY <1>2, <2>1, <2>2, GrammarNodes DEF IsOf
    <2>4. Name(e) = tree[s].shape[Len(tree[s].shape)]
      BY <1>4, <1>5 DEF Name
    <2>5. Name(e) \in Held /\ IsOf(tree[e], Symbols[Name(e)])
      BY <1>1, <1>4, NodeNames
    <2> QED
      BY <2>3, <2>4, <2>5 DEF IsOf
  <1>7. Gaps[Name(e)] \subseteq {"newline"}
    <2>1. ~Symbols[Name(e)].missing
      BY <1>3, <1>6 DEF IsMissing, IsOf
    <2> QED
      BY <1>6, <2>1, GrammarLines DEF IsOf
  <1>8. ~HasChildren(e)
    <2>1. Shapes(tree[e].kind) = {<<>>}
      BY <1>6, GrammarNodes
    <2> QED
      BY <1>1, <1>4, <2>1, NoToken
  <1>9. PICK z \in Children(s) : In(z, c) /\ z \in DOMAIN tree /\ parent(z) = s /\ s < z
    BY <1>1, ChildToward
  <1>10. z # e /\ z < e
    <2>1. z # e
      BY <1>1, <1>4, <1>8, <1>9, Alone
    <2>2. z <= e
      BY <1>3, <1>9
    <2> QED
      BY <1>1, <1>4, <1>9, <2>1, <2>2
  <1>11. parent(e) # e - 1
    BY <1>1, <1>4, <1>9, <1>10
  <1> DEFINE l == Max(Leaves(c))
  <1>12. c # 1 /\ l \in DOMAIN tree /\ IsLast(c, l) /\ EndPosition(c) = EndOfToken(l)
    <2>1. c # 1
      BY <1>1 DEF In
    <2> QED
      BY <1>1, <2>1, LastExists, Intervals
  <1> HIDE DEF l
  <1>13. l < e
    <2> SUFFICES ASSUME e <= l PROVE FALSE
      BY <1>1, <1>4, <1>12
    <2>1. In(z, l)
      BY <1>1, <1>9, <1>12, Nested DEF IsLast
    <2>2. In(z, e)
      BY <1>1, <1>4, <1>9, <1>10, <1>12, <2>1, Nested
    <2>3. z <= parent(e)
      BY <1>1, <1>4, <1>9, <1>10, <2>2 DEF In
    <2> QED
      BY <1>1, <1>4, <1>9, <2>3
  <1>14. EndPosition(c)[1] < StartPosition(e)[1]
    BY <1>1, <1>4, <1>7, <1>11, <1>12, <1>13, NewLine
  <1>15. pointLE(StartPosition(e), EndPosition(s)) /\ StartPosition(e) \in Points
         /\ EndPosition(s) \in Points /\ EndPosition(c) \in Points
    <2>1. In(s, e)
      BY <1>1, <1>4, Self
    <2>2. pointLE(StartPosition(e), EndPosition(e)) /\ pointLE(EndPosition(e), EndPosition(s))
          /\ StartPosition(e) \in Points /\ EndPosition(e) \in Points
          /\ EndPosition(s) \in Points /\ EndPosition(c) \in Points
      BY <1>1, <1>4, <2>1, Within, Intervals, TokenEnds
    <2> QED
      BY <2>2, PointOrder
  <1>16. /\ StartPosition(e)[1] <= EndPosition(s)[1]
         /\ StartPosition(e)[1] \in Nat /\ EndPosition(s)[1] \in Nat /\ EndPosition(c)[1] \in Nat
    BY <1>15, PointOrder
  <1> QED
    BY <1>14, <1>16

(* It starts on a line below all tokens before it.                         *)
LEMMA SectionStarts ==
    ASSUME Whole, NEW s \in DOMAIN tree, IsSectionHeader(s),
           NEW k \in DOMAIN tree, k # 1, k < s
    PROVE  EndOfToken(k)[1] < StartPosition(s)[1]
  <1>1. Ordered /\ Made /\ Grown /\ Len(tree) \in Nat /\ DOMAIN tree = 1..Len(tree)
    BY TreeNodes DEF Whole, Grown
  <1>2. s # 1 /\ tree[s].kind \in sectionHeaderKinds
    BY SectionIsSpoken, SpokenHaveChildren
  <1> DEFINE p == parent(s)
  <1>3. /\ tree[p].kind \in DOMAIN Grammar /\ tree[p].shape \in Grammar[tree[p].kind]
        /\ Rank(s) \in DOMAIN tree[p].shape
        /\ Symbols[tree[p].shape[Rank(s)]].kind \in sectionHeaderKinds
        /\ Name(s) = tree[p].shape[Rank(s)]
    BY <1>1, <1>2, NodeNames DEF Name, IsOf
  <1>4. IF Rank(s) = 1 THEN tree[p].kind = "config" ELSE Gaps[Name(s)] \subseteq {"newline"}
    BY <1>3, GrammarLines
  <1>5. Rank(s) # 1
    <2> SUFFICES ASSUME Rank(s) = 1 PROVE FALSE
      OBVIOUS
    <2>1. p = s - 1 /\ tree[p].kind = "config" /\ p \in DOMAIN tree
      BY <1>1, <1>2, <1>4, FirstRank, TreeNodes
    <2>2. p # 1 => FALSE
      BY <1>1, <2>1, NodeNames DEF Held, IsOf
    <2> QED
      BY <1>1, <2>1, <2>2
  <1> QED
    BY <1>1, <1>2, <1>4, <1>5, FirstRank, NewLine

(* A command is not empty.                                                 *)
LEMMA CommandsAreWide ==
    ASSUME Whole, NEW c \in DOMAIN tree, tree[c].kind \in commandKinds
    PROVE  pointLT(StartPosition(c), EndPosition(c))
  <1>1. Ordered /\ Made /\ Grown /\ Len(tree) \in Nat /\ DOMAIN tree = 1..Len(tree)
    BY TreeNodes DEF Whole, Grown
  <1>2. c # 1 /\ HasChildren(c)
    BY SpokenHaveChildren DEF Spoken
  <1> DEFINE k == c + 1
  <1>3. k \in DOMAIN tree /\ k # 1 /\ parent(k) = c /\ k - 1 = c
    <2>1. PICK d \in Children(c) : TRUE
      BY <1>2 DEF HasChildren
    <2>2. d \in DOMAIN tree /\ d \in c + 1..Len(tree) /\ parent(d) = c
      BY <2>1, <1>1, TreeNodes DEF Children
    <2>3. In(c, d) /\ k \in c..d /\ k \in DOMAIN tree /\ k # 1
      BY <1>1, <2>2, Self
    <2>4. In(c, k)
      BY <1>1, <2>2, <2>3, Nested
    <2>5. c <= parent(k) /\ parent(k) \in 1..k - 1
      BY <1>1, <2>3, <2>4, TreeNodes DEF In
    <2> QED
      BY <1>1, <2>3, <2>5
  <1> HIDE DEF k
  <1>4. Rank(k) = 1
    BY <1>1, <1>3, FirstRank
  <1>5. Name(c) \in Held /\ IsOf(tree[c], Symbols[Name(c)]) /\ tree[c].shape \in Shapes(tree[c].kind)
        /\ IsOf(tree[k], Symbols[Name(k)]) /\ Name(k) = tree[c].shape[1]
    BY <1>1, <1>2, <1>3, <1>4, NodeNames DEF Made, Name
  <1>6. IsToken(Name(k)) /\ ~IsMissing(k)
    BY <1>5, GrammarNodes DEF IsOf, IsMissing
  <1>7. ~HasChildren(k)
    BY <1>1, <1>3, <1>6, NoToken
  <1>8. pointLT(StartPosition(k), EndPosition(k))
    BY <1>3, <1>6, <1>7, TokensAreWide
  <1>9. In(c, k)
    BY <1>1, <1>3, Self
  <1>10. pointLE(StartPosition(c), StartPosition(k)) /\ pointLE(EndPosition(k), EndPosition(c))
    BY <1>3, <1>9, Within
  <1>11. /\ StartPosition(c) \in Points /\ StartPosition(k) \in Points
         /\ EndPosition(c) \in Points /\ EndPosition(k) \in Points
    BY <1>1, <1>3, TokenEnds, Intervals
  <1> QED
    BY <1>8, <1>10, <1>11, PointOrder

LEMMA Spans ==
    ASSUME Whole
    PROVE  \A i \in DOMAIN tree : /\ StartPosition(i) \in Points /\ EndPosition(i) \in Points
                                  /\ pointLE(StartPosition(i), EndPosition(i))
  <1> QED
    BY TokenEnds, Intervals DEF Whole, Grown

(* A command the position is in, or at the end of, whose sections go on on *)
(* later lines.                                                            *)
AskedAt(c, p) ==
    /\ c \in DOMAIN tree /\ IsCommand(c)
    /\ pointLE(StartPosition(c), p) /\ pointLE(p, EndPosition(c))
    /\ \A s \in Around(c) : EndPosition(c)[1] < EndPosition(s)[1]

(* Around the node the search ends in are the sections of the command.     *)
LEMMA AroundSearch ==
    ASSUME Whole, NEW p \in Points, NEW c, AskedAt(c, p)
    PROVE  DescendantForPointRange(p) \in DOMAIN tree /\ Around(DescendantForPointRange(p)) = Around(c)
  <1> DEFINE D == DescendantForPointRange(p)
  <1>1. Ordered /\ Grown /\ Made /\ Len(tree) \in Nat /\ DOMAIN tree = 1..Len(tree)
    BY TreeNodes DEF Whole, Grown
  <1>2. /\ D \in DOMAIN tree
        /\ \A a \in DOMAIN tree : In(a, D) /\ a # 1 => pointLE(StartPosition(a), p) /\ Touches(p, a)
    BY SearchEnds
  <1>3. \A x \in DOMAIN tree : pointLE(StartPosition(x), p) /\ pointLT(p, EndPosition(x)) =>
           In(x, D) \/ (D # 1 /\ ~HasChildren(D) /\ StartPosition(D) = p /\ EndPosition(D) = p)
    BY Found
  <1> HIDE DEF D
  <1>4. /\ c \in DOMAIN tree /\ tree[c].kind \in commandKinds
        /\ pointLE(StartPosition(c), p) /\ pointLE(p, EndPosition(c))
        /\ \A s \in Around(c) : EndPosition(c)[1] < EndPosition(s)[1]
    BY DEF AskedAt, IsCommand
  <1>5. c # 1 /\ HasChildren(c) /\ pointLT(StartPosition(c), EndPosition(c))
    BY <1>4, SpokenHaveChildren, CommandsAreWide DEF Spoken
  <1>6. \A i \in DOMAIN tree : StartPosition(i) \in Points /\ EndPosition(i) \in Points
                               /\ pointLE(StartPosition(i), EndPosition(i))
    BY Spans
  <1>7. ASSUME D # 1, ~HasChildren(D), StartPosition(D) = p, EndPosition(D) = p, ~In(c, D)
        PROVE  c < D /\ p = EndPosition(c)
    <2>1. c # D
      BY <1>5, <1>7
    <2>2. ~(D < c)
      <3>1. EndOfToken(D) = p
        BY <1>2, <1>7, Intervals
      <3>2. D < c => pointLT(EndOfToken(D), StartPosition(c))
        BY <1>1, <1>2, <1>4, <1>5, <1>7, StartsApart
      <3> QED
        BY <1>4, <1>6, <3>1, <3>2, PointOrder
    <2>3. c < D
      BY <1>1, <1>2, <1>4, <2>1, <2>2
    <2>4. pointLE(EndPosition(c), p)
      BY <1>2, <1>4, <1>7, <2>3, Beside
    <2> QED
      BY <1>4, <1>6, <2>3, <2>4, PointOrder
  <1> SUFFICES Around(D) = Around(c)
    BY <1>2 DEF D
  <1>8. CASE In(c, D)
    BY <1>2, <1>4, <1>8, AroundInCommand
  <1>9. CASE ~In(c, D)
    <2>1. p = EndPosition(c)
      <3>1. p # EndPosition(c) => pointLT(p, EndPosition(c))
        BY <1>4 DEF pointLT
      <3> QED
        BY <1>3, <1>4, <1>7, <1>9, <3>1
    <2>2. ASSUME NEW a \in Around(c) PROVE a \in Around(D)
      <3>1. a \in DOMAIN tree /\ In(a, c) /\ IsSectionHeader(a)
        BY <1>1, <1>4, AroundIs
      <3>2. pointLE(StartPosition(a), p) /\ pointLT(p, EndPosition(a)) /\ a <= c
        <4>1. pointLE(StartPosition(a), StartPosition(c)) /\ a <= c
          BY <1>4, <3>1, Within DEF In
        <4>2. EndPosition(c)[1] < EndPosition(a)[1]
          BY <1>4
        <4>3. ~pointLE(EndPosition(a), p)
          BY <1>4, <1>6, <2>1, <3>1, <4>2, PointOrder
        <4> QED
          BY <1>4, <1>6, <3>1, <4>1, <4>3, PointOrder
      <3>3. In(a, D)
        <4> SUFFICES ASSUME ~In(a, D) PROVE FALSE
          OBVIOUS
        <4>1. c < D /\ StartPosition(D) = p
          BY <1>3, <1>7, <1>9, <3>1, <3>2
        <4>2. a < D
          BY <1>1, <1>2, <1>4, <3>1, <3>2, <4>1
        <4>3. pointLE(EndPosition(a), p)
          BY <1>2, <3>1, <4>1, <4>2, Beside
        <4> QED
          BY <1>6, <3>1, <3>2, <4>3, PointOrder
      <3> QED
        BY <1>1, <1>2, <3>1, <3>3, AroundIs
    <2>3. ASSUME NEW a \in Around(D) PROVE a \in Around(c)
      <3>1. a \in DOMAIN tree /\ In(a, D) /\ IsSectionHeader(a)
        BY <1>1, <1>2, AroundIs
      <3>2. a # 1
        BY <3>1, SectionIsSpoken, SpokenHaveChildren
      <3>3. pointLE(StartPosition(a), p) /\ Touches(p, a)
        BY <1>2, <3>1, <3>2
      <3>4. pointLE(p, EndPosition(a))
        BY <1>6, <3>1, <3>3, PointOrder DEF Touches
      <3> SUFFICES ASSUME ~In(a, c) PROVE FALSE
        BY <1>1, <1>4, <3>1, AroundIs
      <3>5. a # c
        BY <1>1, <1>4, Self
      <3>6. CASE a < c
        <4>1. pointLE(EndPosition(a), StartPosition(c))
          BY <1>4, <3>1, <3>6, Beside
        <4>2. pointLE(p, StartPosition(c))
          BY <1>4, <1>6, <3>1, <3>4, <4>1, PointOrder
        <4> QED
          BY <1>4, <1>5, <1>6, <2>1, <4>2, PointOrder
      <3>7. CASE c < a
        <4> DEFINE l == Max(Leaves(c))
        <4>1. l \in DOMAIN tree /\ IsLast(c, l)
          BY <1>1, <1>4, LastExists
        <4> HIDE DEF l
        <4>2. EndPosition(c) = EndOfToken(l) /\ In(c, l)
          BY <1>4, <1>5, <4>1, Intervals DEF IsLast
        <4>3. c < l /\ ~HasChildren(l)
          <5>1. ~HasChildren(l) /\ c <= l
            BY <4>1, <4>2 DEF IsLast, In
          <5>2. c # l
            BY <1>5, <5>1
          <5> QED
            BY <1>1, <1>4, <4>1, <5>1, <5>2
        <4>4. l # 1 /\ l # a
          <5>1. HasChildren(a)
            BY <3>1, SectionIsSpoken, SpokenHaveChildren
          <5> QED
            BY <1>1, <1>4, <4>3, <5>1
        <4>5. ~(a < l)
          <5> SUFFICES ASSUME a < l PROVE FALSE
            OBVIOUS
          <5>1. In(c, a)
            BY <1>1, <1>4, <3>1, <3>7, <4>1, <4>2, Nested
          <5>2. tree[a].kind \notin Spoken
            BY <1>4, <3>1, <3>5, <5>1, NotInCommands
          <5> QED
            BY <3>1, <5>2, SectionIsSpoken
        <4>6. l < a
          BY <1>1, <3>1, <4>1, <4>4, <4>5
        <4>7. p[1] < StartPosition(a)[1]
          BY <2>1, <3>1, <4>1, <4>2, <4>4, <4>6, SectionStarts
        <4>8. StartPosition(a)[1] <= p[1] /\ p[1] \in Nat /\ StartPosition(a)[1] \in Nat
          BY <1>6, <3>1, <3>3, PointOrder
        <4> QED
          BY <4>7, <4>8
      <3> QED
        BY <1>1, <1>4, <3>1, <3>5, <3>6, <3>7
    <2> QED
      BY <2>2, <2>3
  <1> QED
    BY <1>8, <1>9

(* So are they around the token before the position on its line.           *)
LEMMA AroundBefore ==
    ASSUME Whole, NEW p \in Points, NEW c, AskedAt(c, p),
           JustBefore(deepestLeafEndingAtOrBefore(p), p)
    PROVE  /\ deepestLeafEndingAtOrBefore(p) \in DOMAIN tree
           /\ Around(deepestLeafEndingAtOrBefore(p)) = Around(c)
  <1> DEFINE P == deepestLeafEndingAtOrBefore(p)
  <1>1. Ordered /\ Grown /\ Made /\ Len(tree) \in Nat /\ DOMAIN tree = 1..Len(tree) /\ 1 \in DOMAIN tree
    BY TreeNodes DEF Whole, Grown
  <1>2. /\ P \in DOMAIN tree /\ (P # 1 => ~HasChildren(P))
        /\ P # 1 => pointLE(EndPosition(P), p)
    <2>1. P \in DOMAIN tree /\ (P # 1 => ~HasChildren(P))
          /\ \A a \in DOMAIN tree : In(a, P) /\ a # 1 => pointLE(EndPosition(a), p)
      BY PrevEnds
    <2> QED
      BY <1>1, <2>1, Self
  <1>3. EndPosition(P) # p /\ EndPosition(P)[1] = p[1]
    BY DEF JustBefore, SameRow
  <1> HIDE DEF P
  <1>4. /\ c \in DOMAIN tree /\ tree[c].kind \in commandKinds
        /\ pointLE(StartPosition(c), p) /\ pointLE(p, EndPosition(c))
        /\ \A s \in Around(c) : EndPosition(c)[1] < EndPosition(s)[1]
    BY DEF AskedAt, IsCommand
  <1>5. c # 1 /\ HasChildren(c)
    BY <1>4, SpokenHaveChildren DEF Spoken
  <1>6. \A i \in DOMAIN tree : StartPosition(i) \in Points /\ EndPosition(i) \in Points
                               /\ pointLE(StartPosition(i), EndPosition(i))
    BY Spans
  <1>7. /\ StartPosition(c)[1] <= p[1] /\ p[1] <= EndPosition(c)[1] /\ p[1] \in Nat
        /\ StartPosition(c)[1] \in Nat /\ EndPosition(c)[1] \in Nat
    BY <1>4, <1>6, PointOrder
  <1> SUFFICES Around(P) = Around(c)
    BY <1>2 DEF P
  <1>8. CASE P = 1
    <2>1. ASSUME NEW a \in Around(1) PROVE FALSE
      <3>1. a \in DOMAIN tree /\ In(a, 1) /\ IsSectionHeader(a)
        BY <1>1, AroundIs
      <3>2. a # 1
        BY <3>1, SectionIsSpoken, SpokenHaveChildren
      <3>3. a <= 1
        BY <3>1 DEF In
      <3> QED
        BY <1>1, <3>1, <3>2, <3>3
    <2>2. ASSUME NEW a \in Around(c) PROVE FALSE
      <3>1. a \in DOMAIN tree /\ In(1, a)
        BY <1>1, <1>4, AroundIs, Self
      <3>2. EndPosition(a)[1] <= p[1] /\ EndPosition(a)[1] \in Nat
        <4>1. pointLE(EndPosition(a), EndPosition(1))
          BY <1>1, <3>1, Within
        <4> QED
          BY <1>1, <1>3, <1>6, <1>8, <3>1, <4>1, PointOrder
      <3>3. EndPosition(c)[1] < EndPosition(a)[1]
        BY <1>4
      <3> QED
        BY <1>7, <3>2, <3>3
    <2> QED
      BY <1>8, <2>1, <2>2
  <1>9. CASE P # 1 /\ In(c, P)
    BY <1>2, <1>4, <1>9, AroundInCommand
  <1>10. CASE P # 1 /\ ~In(c, P)
    <2>1. ~HasChildren(P) /\ pointLE(EndPosition(P), p) /\ P # c
      BY <1>2, <1>5, <1>10
    <2>2. P < c
      <3> SUFFICES ASSUME c < P PROVE FALSE
        BY <1>1, <1>2, <1>4, <2>1
      <3>1. pointLE(EndPosition(c), StartPosition(P))
        BY <1>2, <1>4, <1>10, Beside
      <3>2. pointLE(p, StartPosition(P))
        BY <1>2, <1>4, <1>6, <3>1, PointOrder
      <3>3. pointLE(p, EndPosition(P))
        BY <1>2, <1>6, <3>2, PointOrder
      <3> QED
        BY <1>2, <1>3, <1>6, <2>1, <3>3, PointOrder
    <2>3. ASSUME NEW a \in Around(P) PROVE a \in Around(c)
      <3>1. a \in DOMAIN tree /\ In(a, P) /\ IsSectionHeader(a)
        BY <1>1, <1>2, AroundIs
      <3> SUFFICES ASSUME ~In(a, c) PROVE FALSE
        BY <1>1, <1>4, <3>1, AroundIs
      <3>2. a <= P
        BY <3>1 DEF In
      <3>3. ~In(P, c)
        BY <1>1, <1>2, <1>4, <2>1, Alone
      <3>4. PICK y, x \in DOMAIN tree :
              /\ y < x /\ y # 1 /\ x # 1 /\ parent(y) = parent(x) /\ parent(x) \in DOMAIN tree
              /\ In(y, P) /\ In(x, c)
        BY <1>1, <1>2, <1>4, <2>2, <3>3, Diverge
      <3>5. y <= P
        BY <3>4 DEF In
      <3>6. ~(In(a, y) /\ a # y)
        <4> SUFFICES ASSUME In(a, y), a # y PROVE FALSE
          OBVIOUS
        <4>1. In(a, parent(x))
          BY <1>1, <3>1, <3>4, Nested
        <4>2. In(parent(x), x)
          BY <1>1, <3>4, Self
        <4>3. In(a, x)
          BY <1>1, <3>1, <3>4, <4>1, <4>2, Nested
        <4>4. In(a, c)
          BY <1>1, <1>4, <3>1, <3>4, <4>3, Nested
        <4> QED
          BY <4>4
      <3>7. In(y, a)
        <4>1. CASE a <= y
          <5>1. In(a, y)
            <6>1. \A k \in a..P : In(a, k)
              BY <1>1, <1>2, <3>1, Nested
            <6> QED
              BY <1>1, <1>2, <3>1, <3>4, <3>5, <4>1, <6>1
          <5> QED
            BY <1>1, <3>4, <3>6, <5>1, Self
        <4>2. CASE y <= a
          <5>1. \A k \in y..P : In(y, k)
            BY <1>1, <1>2, <3>4, Nested
          <5> QED
            BY <1>1, <1>2, <3>1, <3>2, <3>4, <4>2, <5>1
        <4> QED
          BY <1>1, <3>1, <3>4, <4>1, <4>2
      <3>8. HasChildren(x)
        <4>1. ~HasChildren(x) => x = c
          BY <1>1, <1>4, <3>4, Alone
        <4> QED
          BY <1>5, <4>1
      <3>9. EndPosition(y)[1] < StartPosition(x)[1]
        BY <3>1, <3>4, <3>7, <3>8, SectionIsSpoken, NextStartsALine
      <3>10. pointLE(EndPosition(P), EndPosition(y)) /\ pointLE(StartPosition(x), StartPosition(c))
        BY <1>2, <1>4, <3>4, Within
      <3>11. /\ EndPosition(P)[1] <= EndPosition(y)[1] /\ StartPosition(x)[1] <= StartPosition(c)[1]
             /\ EndPosition(y)[1] \in Nat /\ StartPosition(x)[1] \in Nat
        BY <1>2, <1>4, <1>6, <3>4, <3>10, PointOrder
      <3> QED
        BY <1>3, <1>7, <3>9, <3>11
    <2>4. ASSUME NEW a \in Around(c) PROVE a \in Around(P)
      <3>1. a \in DOMAIN tree /\ In(a, c) /\ IsSectionHeader(a)
        BY <1>1, <1>4, AroundIs
      <3>2. a # P
        BY <2>1, <3>1, SectionIsSpoken, SpokenHaveChildren
      <3>3. ~(P < a)
        <4> SUFFICES ASSUME P < a PROVE FALSE
          OBVIOUS
        <4>1. EndOfToken(P)[1] < StartPosition(a)[1]
          BY <1>2, <1>10, <3>1, SectionStarts
        <4>2. EndOfToken(P) = EndPosition(P)
          BY <1>2, <1>10, <2>1, Intervals
        <4>3. pointLE(StartPosition(a), StartPosition(c))
          BY <1>4, <3>1, Within
        <4>4. StartPosition(a)[1] <= StartPosition(c)[1] /\ StartPosition(a)[1] \in Nat
          BY <1>4, <1>6, <3>1, <4>3, PointOrder
        <4> QED
          BY <1>3, <1>7, <4>1, <4>2, <4>4
      <3>4. a < P
        BY <1>1, <1>2, <3>1, <3>2, <3>3
      <3>5. In(a, P)
        <4>1. \A k \in a..c : In(a, k)
          BY <1>1, <1>4, <3>1, Nested
        <4> QED
          BY <1>1, <1>2, <1>4, <2>2, <3>1, <3>4, <4>1
      <3> QED
        BY <1>1, <1>2, <3>1, <3>5, AroundIs
    <2> QED
      BY <2>3, <2>4
  <1> QED
    BY <1>8, <1>9, <1>10

(* A command in a terminated section, or in none, is asked for as such.    *)
LEMMA Terminated ==
    ASSUME Whole, NEW p \in Points, NEW c \in DOMAIN tree, IsCommand(c),
           pointLE(StartPosition(c), p), pointLE(p, EndPosition(c)),
           Around(c) # {} => ~\E e \in Children(Innermost(Around(c))) : tree[e].kind = "eos" /\ IsMissing(e)
    PROVE  AskedAt(c, p)
  <1>1. Ordered /\ Len(tree) \in Nat /\ DOMAIN tree = 1..Len(tree)
    BY TreeNodes DEF Whole, Grown
  <1>2. c # 1 /\ HasChildren(c) /\ ~IsSectionHeader(c)
    <2>1. c # 1 /\ HasChildren(c)
      BY SpokenHaveChildren DEF Spoken, IsCommand
    <2> QED
      BY <2>1 DEF IsCommand, commandKinds, IsSectionHeader, sectionHeaderKinds, kindToSection
  <1>3. Around(c) \in SUBSET DOMAIN tree
        /\ \A a \in Around(c) : In(a, c) /\ IsSectionHeader(a) /\ a # c
    BY <1>1, <1>2, AroundIs
  <1>4. ASSUME NEW s \in Around(c) PROVE EndPosition(c)[1] < EndPosition(s)[1]
    <2> DEFINE i == Innermost(Around(c))
    <2>1. i \in Around(c) /\ s <= i
      BY <1>1, <1>3, InnermostIs
    <2>2. ~\E e \in Children(i) : tree[e].kind = "eos" /\ IsMissing(e)
      OBVIOUS
    <2> HIDE DEF i
    <2>3. i \in DOMAIN tree /\ s \in DOMAIN tree /\ In(i, c) /\ In(s, c) /\ IsSectionHeader(i) /\ i # c
      BY <1>3, <2>1
    <2>4. EndPosition(c)[1] < EndPosition(i)[1]
      BY <1>2, <2>2, <2>3, SectionEnds
    <2>5. In(s, i)
      BY <1>1, <2>1, <2>3, Nested
    <2>6. pointLE(EndPosition(i), EndPosition(s))
      BY <2>3, <2>5, Within
    <2>7. \A k \in {c, i, s} : EndPosition(k) \in Points
      BY <2>3, Spans
    <2>8. EndPosition(i)[1] <= EndPosition(s)[1] /\ EndPosition(c)[1] \in Nat /\ EndPosition(i)[1] \in Nat
          /\ EndPosition(s)[1] \in Nat
      BY <2>6, <2>7, PointOrder
    <2> QED
      BY <2>4, <2>8
  <1> QED
    BY <1>4 DEF AskedAt

(* A node that is only words has no children.                              *)
LEMMA TextIsToken ==
    ASSUME Whole, NEW i \in DOMAIN tree, tree[i].kind = "text"
    PROVE  i # 1 /\ ~HasChildren(i)
  <1>1. Ordered /\ Made
    BY DEF Whole, Grown
  <1>2. i # 1
    BY <1>1 DEF Ordered
  <1> QED
    BY <1>1, <1>2, NoToken, GrammarNodes

(* Completion is about the section the command is in.                      *)
LEMMA SectionWhenAsked ==
    ASSUME Whole, NEW p \in Points, answer = CompletionAnswer(p)
    PROVE  CompletionAsksAsChecked
  <1> DEFINE node == FindNodeAtPosition(p)
             D == DescendantForPointRange(p)
             P == deepestLeafEndingAtOrBefore(p)
  <1>1. Ordered
    BY DEF Whole, Grown
  <1>2. /\ answer.at = p
        /\ answer.offered => answer.section = EnclosingSection(node).section /\ node # 0
    BY DEF CompletionAnswer, Suppressed
  <1>3. ASSUME NEW c, AskedAt(c, p), node # 0
        PROVE  Around(node) = Around(c)
    <2>1. D \in DOMAIN tree /\ Around(D) = Around(c)
      BY <1>3, AroundSearch
    <2>2. JustBefore(P, p) => Around(P) = Around(c)
      BY <1>3, AroundBefore
    <2>3. /\ tree[D].kind = "text" => node = parent(D)
          /\ tree[D].kind # "text" /\ ~HasChildren(D) =>
                node = IF EndPosition(D) = p THEN parent(D) ELSE D
          /\ tree[D].kind # "text" /\ HasChildren(D) =>
                node = IF JustBefore(P, p) THEN P ELSE D
      BY NodeFound
    <2> HIDE DEF node, D, P
    <2>4. tree[D].kind = "text" => ~HasChildren(D)
      BY <2>1, TextIsToken
    <2>5. node = parent(D) => D # 1
      BY <1>1, <1>3, TreeNodes
    <2>6. D # 1 /\ ~HasChildren(D) => Around(D) = Around(parent(D))
      BY <2>1, AroundToken
    <2>7. CASE HasChildren(D)
      BY <2>1, <2>2, <2>3, <2>4, <2>7
    <2>8. CASE ~HasChildren(D)
      <3>1. node = D \/ node = parent(D)
        BY <2>3, <2>8
      <3> QED
        BY <2>1, <2>5, <2>6, <2>8, <3>1
    <2> QED
      BY <2>7, <2>8
  <1> HIDE DEF node, D, P
  <1>4. ASSUME answer.offered, NEW c \in DOMAIN tree, IsCommand(c),
               pointLE(StartPosition(c), p), pointLE(p, EndPosition(c)),
               LET sections == {s \in Ancestors(c) : IsSectionHeader(s)}
               IN  sections # {} => ~\E e \in Children(Innermost(sections)) :
                                         tree[e].kind = "eos" /\ IsMissing(e)
        PROVE  answer.section = EnclosingSection(c).section
    <2>1. Around(c) = {s \in Ancestors(c) : IsSectionHeader(s)}
      <3>1. ~IsSectionHeader(c)
        BY <1>4 DEF IsCommand, commandKinds, IsSectionHeader, sectionHeaderKinds, kindToSection
      <3> QED
        BY <3>1 DEF Around
    <2>2. Around(c) # {} => ~\E e \in Children(Innermost(Around(c))) :
                                 tree[e].kind = "eos" /\ IsMissing(e)
      BY <1>4, <2>1
    <2>3. AskedAt(c, p)
      BY <1>4, <2>2, Terminated
    <2>4. Around(node) = Around(c)
      BY <1>2, <1>3, <1>4, <2>3
    <2>5. EnclosingSection(node) = EnclosingSection(c)
      BY <2>4, SameAround
    <2> QED
      BY <1>2, <1>4, <2>5
  <1> QED
    BY <1>2, <1>4 DEF CompletionAsksAsChecked

(* Some nodes in order are a sequence of them, empty only if they are none. *)
LEMMA InOrderIs ==
    ASSUME Ordered, NEW S \in SUBSET DOMAIN tree, S # {}
    PROVE  InOrder(S) \in Seq(S) /\ InOrder(S) # <<>>
  <1> DEFINE n == Len(tree)
             R == Seq(S)
             empty == <<>>
             here == [i \in 1..n |-> IF i \in S THEN <<i>> ELSE empty]
             step == [i \in 1..n |-> [s \in R |-> s \o here[i]]]
             Adds(h) == h = [i \in 0..n |->
                               IF i = 0 THEN <<>> ELSE h[i - 1] \o (IF i \in S THEN <<i>> ELSE <<>>)]
             upto == CHOOSE h : Adds(h)
             T == {m \in 0..n : (\E i \in S : i <= m) => Len(upto[m]) > 0}
  <1>1. InOrder(S) = upto[n]
    BY DEF InOrder
  <1>2. n \in Nat /\ DOMAIN tree = 1..n
    BY TreeNodes
  <1> HIDE DEF n
  <1>3. \A i \in 1..n : here[i] \in R
    OBVIOUS
  <1>4. step \in [1..n -> [R -> R]] /\ empty \in R
    <2>1. ASSUME NEW i \in 1..n, NEW s \in R PROVE s \o here[i] \in R
      <3> HIDE DEF here
      <3> QED
        BY <1>3, ConcatProperties
    <2> QED
      BY <2>1
  <1>5. PICK f : f \in Recurrences(R, empty, step, n)
    <2> HIDE DEF R, step, empty
    <2> QED
      BY <1>2, <1>4, BoundedRecursive
  <1>6. f \in [0..n -> R] /\ f = [i \in 0..n |-> IF i = 0 THEN empty ELSE step[i][f[i - 1]]]
    BY <1>5 DEF Recurrences
  <1>7. \A i \in 1..n, s \in R : step[i][s] = s \o here[i]
    OBVIOUS
  <1>h. \A i \in 1..n : here[i] = IF i \in S THEN <<i>> ELSE <<>>
    OBVIOUS
  <1>e. empty = <<>>
    OBVIOUS
  <1> HIDE DEF R, step, empty, here
  <1>8. Adds(f)
    <2>1. ASSUME NEW i \in 0..n
          PROVE  (IF i = 0 THEN empty ELSE step[i][f[i - 1]])
                 = (IF i = 0 THEN <<>> ELSE f[i - 1] \o (IF i \in S THEN <<i>> ELSE <<>>))
      <3>1. CASE i = 0
        BY <1>e, <3>1
      <3>2. CASE i # 0
        <4>1. i \in 1..n /\ i - 1 \in 0..n
          BY <1>2, <3>2
        <4>2. f[i - 1] \in R
          BY <1>6, <4>1
        <4>3. step[i][f[i - 1]] = f[i - 1] \o here[i]
          BY <1>7, <4>1, <4>2
        <4>4. here[i] = IF i \in S THEN <<i>> ELSE <<>>
          BY <1>h, <4>1
        <4> QED
          BY <3>2, <4>3, <4>4
      <3> QED
        BY <3>1, <3>2
    <2> QED
      BY <1>6, <2>1
  <1>9. Adds(upto)
    BY <1>8
  <1> HIDE DEF upto
  <1>10. upto[0] = empty /\ \A i \in 0..n - 1 : upto[i + 1] = upto[i] \o here[i + 1]
    <2>1. \A i \in 0..n - 1 : i + 1 \in 1..n /\ i + 1 \in 0..n /\ i + 1 # 0 /\ i + 1 - 1 = i
      BY <1>2
    <2>2. \A i \in 0..n : upto[i] = IF i = 0 THEN <<>> ELSE upto[i - 1] \o (IF i \in S THEN <<i>> ELSE <<>>)
      BY <1>9
    <2>3. upto[0] = empty
      <3>1. 0 \in 0..n
        BY <1>2
      <3>2. upto[0] = IF 0 = 0 THEN <<>> ELSE upto[0 - 1] \o (IF 0 \in S THEN <<0>> ELSE <<>>)
        BY <2>2, <3>1, Zenon
      <3> QED
        BY <1>e, <3>2, Zenon
    <2>4. ASSUME NEW i \in 0..n - 1 PROVE upto[i + 1] = upto[i] \o here[i + 1]
      <3> DEFINE k == i + 1
      <3>0. k \in 0..n /\ k # 0 /\ k - 1 = i
        BY <2>1
      <3> HIDE DEF k
      <3>3. upto[k] = IF k = 0 THEN <<>> ELSE upto[k - 1] \o (IF k \in S THEN <<k>> ELSE <<>>)
        BY <2>2, <3>0, Zenon
      <3>4. upto[k] = upto[i] \o (IF k \in S THEN <<k>> ELSE <<>>)
        BY <3>0, <3>3, Zenon
      <3>1. upto[i + 1] = upto[i] \o (IF i + 1 \in S THEN <<i + 1>> ELSE <<>>)
        BY <3>4 DEF k
      <3>2. here[i + 1] = IF i + 1 \in S THEN <<i + 1>> ELSE <<>>
        BY <1>h, <2>1
      <3> QED
        BY <3>1, <3>2
    <2> QED
      BY <2>3, <2>4
  <1>11. \A m \in 0..n : upto[m] \in R
    <2> DEFINE U == {m \in 0..n : upto[m] \in R}
    <2>1. 0 \in U
      BY <1>2, <1>4, <1>10
    <2>2. ASSUME NEW m \in 0..n - 1, m \in U PROVE m + 1 \in U
      <3>1. m + 1 \in 1..n /\ m + 1 \in 0..n /\ m + 1 - 1 = m /\ upto[m] \in R
        BY <1>2, <2>2
      <3>2. upto[m + 1] = upto[m] \o here[m + 1]
        BY <1>10, <3>1
      <3>3. upto[m] \o here[m + 1] \in R
        BY <1>3, <3>1, ConcatProperties DEF R
      <3> QED
        BY <3>1, <3>2, <3>3
    <2>3. \A m \in 0..n : m \in U
      <3> HIDE DEF U
      <3> QED
        BY <1>2, <2>1, <2>2, BoundedInduction
    <2> QED
      BY <2>3
  <1>12. 0 \in T
    BY <1>2
  <1>13. ASSUME NEW m \in 0..n - 1, m \in T PROVE m + 1 \in T
    <2>1. m + 1 \in 1..n /\ m + 1 \in 0..n /\ m \in 0..n /\ m + 1 - 1 = m
      BY <1>2
    <2>2. upto[m + 1] = upto[m] \o here[m + 1] /\ upto[m] \in Seq(S) /\ here[m + 1] \in Seq(S)
      BY <1>3, <1>10, <1>11, <2>1 DEF R
    <2>3. Len(upto[m + 1]) = Len(upto[m]) + Len(here[m + 1])
          /\ Len(upto[m]) \in Nat /\ Len(here[m + 1]) \in Nat
      BY <2>2, ConcatProperties, LenProperties
    <2>4. m + 1 \in S => Len(here[m + 1]) = 1
      <3>1. m + 1 \in S => here[m + 1] = <<m + 1>>
        BY <1>h, <2>1
      <3>2. Len(<<m + 1>>) = 1
        OBVIOUS
      <3> QED
        BY <3>1, <3>2
    <2>5. ASSUME NEW i \in S, i <= m + 1 PROVE Len(upto[m + 1]) > 0
      <3> DEFINE all == Len(upto[m + 1])
                 old == Len(upto[m])
                 new == Len(here[m + 1])
      <3>1. i \in Nat /\ (i = m + 1 \/ i <= m)
        BY <1>2, <2>5
      <3>2. (i = m + 1 => new = 1) /\ (i <= m => old > 0)
        BY <1>13, <2>4
      <3>3. all = old + new /\ old \in Nat /\ new \in Nat
        BY <2>3
      <3> HIDE DEF all, old, new
      <3>4. all > 0
        BY <3>1, <3>2, <3>3
      <3> QED
        BY <3>4 DEF all
    <2> QED
      BY <2>1, <2>5
  <1>14. \A m \in 0..n : m \in T
    <2> HIDE DEF T
    <2> QED
      BY <1>2, <1>12, <1>13, BoundedInduction
  <1>15. PICK i \in S : i <= n
    BY <1>2
  <1>16. Len(upto[n]) > 0 /\ upto[n] \in Seq(S)
    BY <1>2, <1>11, <1>14, <1>15 DEF R
  <1>17. upto[n] # <<>>
    BY <1>16
  <1> QED
    BY <1>1, <1>16, <1>17

(* A generic command is on one line.                                       *)
LEMMA OneRow ==
    ASSUME Whole, NEW c \in DOMAIN tree, tree[c].kind = "command_line"
    PROVE  \A j \in DOMAIN tree : In(c, j) => StartPosition(j)[1] = StartPosition(c)[1]
  <1> DEFINE n == Len(tree)
             On(j) == In(c, j) => StartPosition(j)[1] = StartPosition(c)[1]
             T == {m \in 0..n : \A j \in 1..m : On(j)}
  <1>1. n \in Nat /\ DOMAIN tree = 1..n /\ Ordered /\ Made /\ LaidOut
    BY TreeNodes DEF Whole, Grown
  <1>2. HasChildren(c)
    BY SpokenHaveChildren DEF Spoken, commandKinds
  <1>3. PICK K \in SUBSET DOMAIN Grammar :
          /\ Closed(K) /\ "command_line" \in K
          /\ \A kind \in K : \A s \in Grammar[kind] : \A b \in 2..Len(s) : "newline" \notin Gaps[s[b]]
    <2>1. "command_line" \in DOMAIN Grammar
      BY <1>1, <1>2, NoToken
    <2> QED
      BY <2>1, GrammarLines DEF OneLiners
  <1>4. \A j \in DOMAIN tree : In(c, j) /\ HasChildren(j) => tree[j].kind \in K
    BY <1>1, <1>3, ClosedBelow
  <1>5. 0 \in T
    BY <1>1
  <1>6. ASSUME NEW m \in 0..n - 1, m \in T PROVE m + 1 \in T
    <2> DEFINE k == m + 1
    <2>1. k \in 1..n /\ k \in 0..n /\ k \in DOMAIN tree /\ \A j \in 1..k : j \in 1..m \/ j = k
      BY <1>1
    <2>2. \A j \in 1..m : On(j)
      BY <1>6
    <2>3. k - 1 = m
      BY <1>1
    <2> HIDE DEF k, n
    <2>4. ASSUME In(c, k), c # k PROVE StartPosition(k)[1] = StartPosition(c)[1]
      <3>1. /\ In(c, parent(k)) /\ parent(k) \in DOMAIN tree /\ c <= k
            /\ \A i \in c..k : In(c, i)
        BY <1>1, <2>1, <2>4, Nested
      <3>2. k # 1 /\ k \in 2..n
        <4>1. k # 1
          BY <1>1, <3>1, TreeNodes
        <4> QED
          BY <1>1, <2>1, <4>1
      <3>3. m \in 1..m /\ m \in DOMAIN tree /\ In(c, m)
        <4>1. m \in 1..n /\ m \in c..k /\ m \in 1..m
          BY <1>1, <2>1, <2>3, <2>4, <3>1, <3>2
        <4> QED
          BY <1>1, <3>1, <4>1
      <3>4. StartPosition(m)[1] = StartPosition(c)[1]
        BY <2>2, <3>3
      <3>5. CASE parent(k) = k - 1
        <4>1. StartPosition(k) = StartPosition(m)
          BY <1>1, <2>3, <3>2, <3>5 DEF LaidOut, n
        <4> QED
          BY <3>4, <4>1
      <3>6. CASE parent(k) # k - 1
        <4>1. PICK gap \in Gaps[Name(k)] : StartPosition(k) = Skip(EndOfToken(m), gap)
          BY <1>1, <2>3, <3>2, <3>6 DEF LaidOut, n
        <4>2. HasChildren(parent(k))
          BY <2>1 DEF HasChildren, Children
        <4>3. tree[parent(k)].kind \in K
          BY <1>4, <3>1, <4>2
        <4>4. /\ tree[parent(k)].shape \in Grammar[tree[parent(k)].kind]
              /\ Rank(k) \in 1..Len(tree[parent(k)].shape) /\ Rank(k) # 1
              /\ tree[parent(k)].shape \in Seq(Held)
              /\ Gaps[Name(k)] \subseteq {"none", "blank", "blanks", "newline"}
          BY <1>1, <2>1, <3>2, <3>6, NodeNames, FirstRank
        <4>5. Rank(k) \in 2..Len(tree[parent(k)].shape)
          BY <4>4
        <4>6. "newline" \notin Gaps[Name(k)]
          BY <1>3, <4>3, <4>4, <4>5 DEF Name
        <4>7. gap \in {"none", "blank", "blanks", "newline"} /\ gap # "newline"
          BY <4>4, <4>6
        <4>8. EndOfToken(m) \in Points /\ EndOfToken(m)[1] = StartPosition(m)[1]
          BY <1>1, <3>3, TokenEnds
        <4>9. Skip(EndOfToken(m), gap)[1] = EndOfToken(m)[1]
          BY <4>7, <4>8, SkipOn
        <4> QED
          BY <3>4, <4>1, <4>8, <4>9
      <3> QED
        BY <3>5, <3>6
    <2>5. On(k)
      BY <2>4
    <2> HIDE DEF On
    <2> QED
      BY <2>1, <2>2, <2>5 DEF k, n
  <1>7. \A m \in 0..n : m \in T
    <2> HIDE DEF T, n
    <2> QED
      BY <1>1, <1>5, <1>6, BoundedInduction
  <1>8. n \in T
    BY <1>1, <1>7
  <1> QED
    BY <1>1, <1>8

(* The command hover climbs to from a token: the one the token is in, or   *)
(* the one next to the "no".                                               *)
CommandsNear(k) == {c \in DOMAIN tree : IsCommand(c) /\
                       \/ c \in Ancestors(k)
                       \/ tree[parent(c)].kind = "negated_statement" /\ parent(c) = parent(k)}

LEMMA Keyword ==
    ASSUME Whole, NEW i \in DOMAIN tree, tree[i].kind = "negated_statement"
    PROVE  /\ \A c \in Children(i) : tree[c].field = "keyword" <=> IsCommand(c)
           /\ \A b, c \in Children(i) : IsCommand(b) /\ IsCommand(c) => b = c
           /\ \A c \in Children(i) : HasChildren(c) => IsCommand(c)
  <1>1. Ordered /\ Made /\ DOMAIN tree \subseteq Nat
    BY TreeNodes DEF Whole, Grown
  <1>2. \A c \in Children(i) : c \in DOMAIN tree /\ c # 1 /\ parent(c) = i
    BY <1>1, TreeNodes DEF Children
  <1>3. ASSUME NEW c \in Children(i)
        PROVE  /\ tree[i].kind \in DOMAIN Grammar /\ tree[i].shape \in Grammar[tree[i].kind]
               /\ Rank(c) \in DOMAIN tree[i].shape
               /\ IsOf(tree[c], Symbols[tree[i].shape[Rank(c)]])
    BY <1>1, <1>2, NodeNames DEF Name
  <1>4. ASSUME NEW c \in Children(i)
        PROVE  LET part == Symbols[tree[i].shape[Rank(c)]] IN
               /\ IsToken(tree[i].shape[Rank(c)]) \/ part.kind \in commandKinds
               /\ part.kind \in commandKinds <=> part.field = "keyword"
               /\ \A a \in DOMAIN tree[i].shape :
                     Symbols[tree[i].shape[a]].field = "keyword" /\ part.field = "keyword" => a = Rank(c)
    BY <1>3, GrammarNests
  <1>5. \A c \in Children(i) : tree[c].field = "keyword" <=> IsCommand(c)
    BY <1>3, <1>4 DEF IsOf, IsCommand
  <1>6. ASSUME NEW b \in Children(i), NEW c \in Children(i), IsCommand(b), IsCommand(c) PROVE b = c
    <2>1. Rank(b) = Rank(c)
      <3>1. /\ Symbols[tree[i].shape[Rank(b)]].field = "keyword"
            /\ Symbols[tree[i].shape[Rank(c)]].field = "keyword"
        BY <1>3, <1>5, <1>6 DEF IsOf
      <3> QED
        BY <1>3, <1>4, <3>1
    <2>2. ~(b < c) /\ ~(c < b)
      BY <1>1, <1>2, <2>1, Ranks
    <2> QED
      BY <1>1, <1>2, <2>2
  <1>7. ASSUME NEW c \in Children(i), HasChildren(c) PROVE IsCommand(c)
    <2>1. ~IsToken(tree[i].shape[Rank(c)])
      BY <1>1, <1>2, <1>7, NoToken DEF Name
    <2> QED
      BY <1>3, <1>4, <2>1 DEF IsOf, IsCommand
  <1> QED
    BY <1>5, <1>6, <1>7

LEMMA CommandOfToken ==
    ASSUME Whole, NEW k \in DOMAIN tree, k # 1, ~HasChildren(k), NEW n \in {k, parent(k)}
    PROVE  commandNodeForHover(n) = IF CommandsNear(k) = {} THEN 0 ELSE Max(CommandsNear(k))
  <1> DEFINE Of(m) == {a \in Ancestors(m) \cup {m} :
                         IsCommand(a) \/ tree[a].kind = "negated_statement"}
             around == Of(n)
             i == Innermost(around)
             keywords == {c \in Children(i) : tree[c].field = "keyword"}
  <1>1. Ordered /\ Made /\ Len(tree) \in Nat /\ DOMAIN tree = 1..Len(tree) /\ parent(k) \in DOMAIN tree
        /\ parent(k) < k /\ In(parent(k), k)
    <2>1. Ordered
      BY DEF Whole, Grown
    <2>2. Len(tree) \in Nat /\ DOMAIN tree = 1..Len(tree) /\ parent(k) \in DOMAIN tree
          /\ parent(k) \in 1..k - 1
      BY <2>1, TreeNodes
    <2> QED
      BY <2>1, <2>2, Self DEF Whole, Grown
  <1>2. ~IsCommand(k) /\ tree[k].kind # "negated_statement"
    BY SpokenHaveChildren DEF Spoken, IsCommand
  <1>3. \A a : a \in around <=> /\ a \in DOMAIN tree /\ In(a, k) /\ a # k
                                /\ IsCommand(a) \/ tree[a].kind = "negated_statement"
    <2>1. \A a \in DOMAIN tree : In(a, parent(k)) <=> In(a, k) /\ a # k
      <3>1. \A a \in DOMAIN tree : In(a, k) /\ a # k => In(a, parent(k))
        BY <1>1, Nested
      <3>2. \A a \in DOMAIN tree : In(a, parent(k)) => In(a, k) /\ a <= parent(k)
        BY <1>1, Nested DEF In
      <3> QED
        BY <1>1, <3>1, <3>2
    <2>2. \A a : a \in Ancestors(k) \cup {k} <=> a \in DOMAIN tree /\ In(a, k)
      BY <1>1, AncestorsIn
    <2>3. \A a : a \in Ancestors(parent(k)) \cup {parent(k)} <=> a \in DOMAIN tree /\ In(a, parent(k))
      BY <1>1, AncestorsIn
    <2>4. CASE n = k
      BY <1>2, <2>2, <2>4
    <2>5. CASE n = parent(k)
      BY <2>1, <2>3, <2>5
    <2> QED
      BY <2>4, <2>5
  <1>4. commandNodeForHover(n) =
          CASE around = {} -> 0
            [] around # {} /\ IsCommand(i) -> i
            [] OTHER -> IF keywords = {} THEN 0 ELSE Min(keywords)
    BY DEF commandNodeForHover
  <1>5. \A c : c \in CommandsNear(k) <=> /\ c \in DOMAIN tree /\ IsCommand(c)
                                 /\ \/ In(c, k) /\ c # k
                                    \/ tree[parent(c)].kind = "negated_statement" /\ parent(c) = parent(k)
    <2>1. \A a : a \in Ancestors(k) <=> a \in DOMAIN tree /\ In(a, k) /\ a # k
      BY <1>1, AncestorsIn
    <2> QED
      BY <2>1 DEF CommandsNear
  <1>6. around # {} => i \in around /\ \A a \in around : a <= i
    <2>1. around \in SUBSET DOMAIN tree
      BY <1>3
    <2> HIDE DEF around
    <2> QED
      BY <1>1, <2>1, InnermostIs
  <1>7. tree[parent(k)].kind = "negated_statement" => parent(k) \in around
    BY <1>1, <1>3
  <1>8. CommandsNear(k) \in SUBSET (1..Len(tree))
    BY <1>1 DEF CommandsNear
  <1> HIDE DEF around, i
  <1>9. CASE around = {}
    <2>1. CommandsNear(k) = {}
      BY <1>1, <1>3, <1>5, <1>7, <1>9
    <2> QED
      BY <1>4, <1>9, <2>1
  <1>10. CASE around # {} /\ IsCommand(i)
    <2>1. i \in CommandsNear(k)
      BY <1>3, <1>5, <1>6, <1>10
    <2>2. ASSUME NEW c \in CommandsNear(k) PROVE c <= i
      <3>1. CASE In(c, k) /\ c # k
        BY <1>3, <1>5, <1>6, <1>10, <3>1
      <3>2. CASE tree[parent(c)].kind = "negated_statement" /\ parent(c) = parent(k)
        <4>1. parent(k) <= i
          BY <1>6, <1>7, <1>10, <3>2
        <4>2. i \in DOMAIN tree /\ In(i, k) /\ i # k
          BY <1>3, <1>6, <1>10
        <4>3. i <= parent(k)
          <5>1. In(i, parent(k))
            BY <1>1, <4>2, Nested
          <5> QED
            BY <5>1 DEF In
        <4>4. i = parent(k)
          BY <1>1, <4>1, <4>2, <4>3
        <4> QED
          BY <1>10, <3>2, <4>4 DEF IsCommand, commandKinds
      <3> QED
        BY <1>5, <3>1, <3>2
    <2>3. Max(CommandsNear(k)) \in CommandsNear(k) /\ \A c \in CommandsNear(k) : c <= Max(CommandsNear(k))
      BY <1>1, <1>8, <2>1, GreatestMember
    <2>4. Max(CommandsNear(k)) = i
      BY <1>1, <1>8, <2>1, <2>2, <2>3
    <2> QED
      BY <1>4, <1>10, <2>1, <2>4
  <1>11. CASE around # {} /\ ~IsCommand(i)
    <2>1. i \in DOMAIN tree /\ In(i, k) /\ i # k /\ tree[i].kind = "negated_statement"
      BY <1>3, <1>6, <1>11
    <2>2. parent(k) = i
      <3>1. PICK y \in Children(i) : In(y, k) /\ y \in DOMAIN tree /\ y # 1 /\ parent(y) = i /\ i < y
        BY <1>1, <2>1, ChildToward
      <3>2. y = k
        <4> SUFFICES ASSUME y # k PROVE FALSE
          OBVIOUS
        <4>1. HasChildren(y)
          BY <1>1, <3>1, Alone
        <4>2. IsCommand(y)
          BY <2>1, <3>1, <4>1, Keyword
        <4>3. y \in around
          BY <1>3, <3>1, <4>2
        <4> QED
          BY <1>1, <1>6, <1>11, <2>1, <3>1, <4>3
      <3> QED
        BY <3>1, <3>2
    <2>3. ASSUME NEW c \in CommandsNear(k) PROVE c \in keywords
      <3>1. CASE In(c, k) /\ c # k
        <4>1. c \in around /\ c \in DOMAIN tree /\ tree[c].kind \in commandKinds
          BY <1>3, <1>5, <3>1 DEF IsCommand
        <4>2. c <= i /\ c # i
          BY <1>5, <1>6, <1>11, <4>1
        <4>3. In(c, i)
          <5>1. \A m \in c..k : In(c, m)
            BY <1>1, <3>1, <4>1, Nested
          <5>2. i \in c..k
            BY <1>1, <2>1, <4>1, <4>2 DEF In
          <5> QED
            BY <5>1, <5>2
        <4>4. tree[i].kind \notin Spoken
          BY <2>1, <4>1, <4>2, <4>3, NotInCommands
        <4> QED
          BY <2>1, <4>4 DEF Spoken
      <3>2. CASE parent(c) = parent(k)
        <4>1. c \in Children(i) /\ IsCommand(c)
          BY <1>5, <2>2, <3>2 DEF Children
        <4> QED
          BY <2>1, <4>1, Keyword
      <3> QED
        BY <1>5, <3>1, <3>2
    <2>4. ASSUME NEW c \in keywords PROVE c \in CommandsNear(k)
      <3>1. c \in DOMAIN tree /\ parent(c) = i /\ IsCommand(c)
        BY <2>1, Keyword DEF Children
      <3> QED
        BY <1>5, <2>1, <2>2, <3>1
    <2>5. keywords = CommandsNear(k)
      BY <2>3, <2>4
    <2>6. \A b, c \in CommandsNear(k) : b = c
      <3>1. \A c \in keywords : c \in Children(i) /\ IsCommand(c)
        BY <2>1, Keyword
      <3> QED
        BY <2>1, <2>5, <3>1, Keyword
    <2>7. commandNodeForHover(n) = IF CommandsNear(k) = {} THEN 0 ELSE Min(CommandsNear(k))
      BY <1>4, <1>11, <2>5
    <2> HIDE DEF keywords
    <2>8. CASE CommandsNear(k) # {}
      <3>1. Max(CommandsNear(k)) \in CommandsNear(k)
        BY <1>1, <1>8, <2>8, GreatestMember
      <3>2. Min(CommandsNear(k)) \in CommandsNear(k)
        BY <1>1, <1>8, <2>8, MinAhead
      <3> QED
        BY <2>6, <2>7, <2>8, <3>1, <3>2
    <2> QED
      BY <2>7, <2>8
  <1> QED
    BY <1>9, <1>10, <1>11

(* Where a generic command is all words, hover names it as the diagnostics *)
(* do.                                                                     *)
LEMMA SameName ==
    ASSUME Whole, NEW c \in DOMAIN tree, tree[c].kind = "command_line",
           \A k \in Children(c) : tree[k].named /\ Len(Text(k)) = 1
    PROVE  resolveHoverKeyword(c) = firstKeywordFromNode(c)
  <1> DEFINE children == Upto(InOrder(Children(c)), MaxTokens)
             breaks == {n \in DOMAIN children :
                           \/ ~SameRow(StartPosition(children[n]), StartPosition(c))
                           \/ Len(Text(children[n])) # 1}
             read == {k \in Children(c) : k = Min(Children(c)) \/ tree[k].named}
  <1>1. Ordered
    BY DEF Whole, Grown
  <1>2. Children(c) # {} /\ Children(c) \in SUBSET DOMAIN tree
    BY SpokenHaveChildren DEF Spoken, commandKinds, HasChildren, Children
  <1>3. InOrder(Children(c)) \in Seq(Children(c)) /\ InOrder(Children(c)) # <<>>
    BY <1>1, <1>2, InOrderIs
  <1>4. read = Children(c)
    OBVIOUS
  <1>5. firstKeywordFromNode(c) = LongestName(children)
    <2>1. firstKeywordFromNode(c) =
            CASE Children(c) = {} -> None
              [] Children(c) # {} /\ tree[c].kind # "command_line" -> Text(Min(Children(c)))
              [] OTHER -> LongestName(Upto(InOrder(read), MaxTokens))
      BY DEF firstKeywordFromNode
    <2> HIDE DEF read
    <2> QED
      BY <1>2, <1>4, <2>1
  <1>6. children \in Seq(Children(c)) /\ Len(children) > 0
    <2> DEFINE s == InOrder(Children(c))
               m == IF Len(s) < 4 THEN Len(s) ELSE 4
               S == Children(c)
    <2>1. s \in Seq(S) /\ s # <<>> /\ Len(s) \in Nat /\ \A i \in 1..Len(s) : s[i] \in S
      BY <1>3
    <2>2. Len(s) > 0
      <3> HIDE DEF s
      <3> QED
        BY <2>1, EmptySeq
    <2>3. children = SubSeq(s, 1, m)
      BY DEF Upto, MaxTokens
    <2> HIDE DEF s, S, children
    <2>4. m \in 1..Len(s)
      BY <2>1, <2>2
    <2> HIDE DEF m
    <2>5. SubSeq(s, 1, m) \in Seq(S) /\ Len(SubSeq(s, 1, m)) = m
      BY <2>1, <2>4, SubSeqProperties
    <2> QED
      BY <2>1, <2>3, <2>4, <2>5 DEF S
  <1> HIDE DEF children, read
  <1>7. \A n \in DOMAIN children : children[n] \in Children(c)
    BY <1>6
  <1>8. \A k \in Children(c) : SameRow(StartPosition(k), StartPosition(c)) /\ Len(Text(k)) = 1
    <2>1. \A k \in Children(c) : k \in DOMAIN tree /\ k # 1 /\ parent(k) = c
      BY <1>1, TreeNodes DEF Children
    <2>2. \A k \in Children(c) : In(c, k)
      BY <1>1, <2>1, Self
    <2> QED
      BY <2>1, <2>2, OneRow DEF SameRow
  <1>9. breaks = {}
    BY <1>7, <1>8
  <1>10. LeadingWords(c) = IF breaks = {} THEN children ELSE SubSeq(children, 1, Min(breaks) - 1)
    BY DEF LeadingWords, children
  <1> HIDE DEF breaks
  <1>11. LeadingWords(c) = children
    BY <1>9, <1>10
  <1>12. children # <<>>
    BY <1>6
  <1>13. resolveHoverKeyword(c) = IF LeadingWords(c) = <<>> THEN None ELSE LongestName(LeadingWords(c))
    BY DEF resolveHoverKeyword
  <1> QED
    BY <1>5, <1>11, <1>12, <1>13

(* Hover is on the command of the token under the cursor.                  *)
LEMMA TokenWhenAsked ==
    ASSUME Whole, NEW p \in Points, answer = HoverAnswer(p)
    PROVE  TokenHoversItsCommand
  <1> DEFINE node == FindNodeAtPosition(p)
             D == DescendantForPointRange(p)
             cmd == IF node = 0 THEN 0 ELSE commandNodeForHover(node)
             name == IF cmd = 0 THEN None ELSE resolveHoverKeyword(cmd)
             known(w) == IF w \in Keywords THEN w ELSE None
             words(c) == \A k \in Children(c) : tree[k].named /\ Len(Text(k)) = 1
  <1>1. /\ answer.at = p /\ answer.cmd = cmd
        /\ answer.name = IF name \in Keywords THEN name ELSE None
    BY DEF HoverAnswer
  <1>2. ASSUME ~\E k \in DOMAIN tree : IsMissing(k) /\ StartPosition(k) = p,
               NEW k \in Tokens, pointLE(StartPosition(k), p), pointLT(p, EndPosition(k))
        PROVE  cmd = IF CommandsNear(k) = {} THEN 0 ELSE Max(CommandsNear(k))
    <2>1. k \in DOMAIN tree /\ k # 1 /\ ~HasChildren(k) /\ ~IsMissing(k) /\ Ordered
      BY <1>2 DEF Tokens, Whole, Grown
    <2>2. In(k, D) \/ (D # 1 /\ ~HasChildren(D) /\ StartPosition(D) = p /\ EndPosition(D) = p)
      BY <1>2, <2>1, Found
    <2>3. D \in DOMAIN tree
      BY SearchEnds
    <2>4. /\ tree[D].kind = "text" => node = parent(D)
          /\ tree[D].kind # "text" /\ ~HasChildren(D) =>
                node = IF EndPosition(D) = p THEN parent(D) ELSE D
      BY NodeFound
    <2>5. \A n \in {k, parent(k)} :
            commandNodeForHover(n) = IF CommandsNear(k) = {} THEN 0 ELSE Max(CommandsNear(k))
      BY <2>1, CommandOfToken
    <2> HIDE DEF node, D
    <2>6. D = k
      <3>1. CASE In(k, D)
        BY <2>1, <2>3, <3>1, Alone
      <3>2. CASE D # 1 /\ ~HasChildren(D) /\ StartPosition(D) = p /\ EndPosition(D) = p
        <4>1. ~IsMissing(D)
          BY <1>2, <2>3, <3>2
        <4>2. pointLT(p, p)
          BY <2>3, <3>2, <4>1, TokensAreWide
        <4> QED
          BY <4>2 DEF pointLT
      <3> QED
        BY <2>2, <3>1, <3>2
    <2>7. node \in {k, parent(k)} /\ node # 0
      <3>1. parent(k) # 0 /\ k # 0
        BY <2>1, TreeNodes
      <3> QED
        BY <2>1, <2>4, <2>6, <3>1
    <2> QED
      BY <2>5, <2>7
  <1>3. ASSUME NEW c \in DOMAIN tree, c = cmd, c # 0, tree[c].kind = "command_line", words(c)
        PROVE  answer.name = known(firstKeywordFromNode(c))
    <2>1. resolveHoverKeyword(c) = firstKeywordFromNode(c)
      BY <1>3, SameName
    <2>2. name = firstKeywordFromNode(c)
      <3> HIDE DEF cmd
      <3> QED
        BY <1>3, <2>1
    <2> QED
      BY <1>1, <2>2
  <1>4. \A k : CommandsNear(k) # {} => Max(CommandsNear(k)) \in DOMAIN tree
    <2>1. Len(tree) \in Nat /\ DOMAIN tree = 1..Len(tree)
      BY TreeNodes DEF Whole, Grown
    <2>2. \A k : CommandsNear(k) \in SUBSET (1..Len(tree))
      BY <2>1 DEF CommandsNear
    <2> QED
      BY <2>1, <2>2, GreatestMember
  <1> HIDE DEF node, D, cmd, name, words, known
  <1>5. ASSUME {k \in DOMAIN tree : IsMissing(k) /\ StartPosition(k) = p} = {},
               NEW k \in Tokens, pointLE(StartPosition(k), p), pointLT(p, EndPosition(k))
        PROVE  LET c == IF CommandsNear(k) = {} THEN 0 ELSE Max(CommandsNear(k))
               IN  /\ answer.cmd = c
                   /\ c # 0 /\ tree[c].kind = "command_line" /\ words(c) =>
                          answer.name = known(firstKeywordFromNode(c))
    <2>1. ~\E m \in DOMAIN tree : IsMissing(m) /\ StartPosition(m) = p
      BY <1>5
    <2>2. cmd = IF CommandsNear(k) = {} THEN 0 ELSE Max(CommandsNear(k))
      BY <1>2, <1>5, <2>1
    <2>3. cmd = 0 \/ cmd \in DOMAIN tree
      BY <1>4, <2>2
    <2> QED
      BY <1>1, <1>3, <2>2, <2>3
  <1> QED
    BY <1>1, <1>5 DEF TokenHoversItsCommand, CommandsNear, known, words

(* What is asked of a tree is of the tree alone.                           *)
LEMMA AskedOfTree ==
    ASSUME tree' = tree
    PROVE  /\ \A i : /\ Ancestors(i)' = Ancestors(i) /\ Descendants(i)' = Descendants(i)
                    /\ Children(i)' = Children(i)
           /\ \A p : HoverAnswer(p)' = HoverAnswer(p) /\ CompletionAnswer(p)' = CompletionAnswer(p)
  <1>1. \A i : Ancestors(i)' = Ancestors(i)
    BY tree' = tree DEF Ancestors, parent
  <1>2. \A i : Children(i)' = Children(i) /\ HasChildren(i)' = HasChildren(i) /\ parent(i)' = parent(i)
               /\ StartPosition(i)' = StartPosition(i) /\ EndPosition(i)' = EndPosition(i)
    BY tree' = tree DEF Children, parent, HasChildren, StartPosition, EndPosition
  <1>3. \A i : Descendants(i)' = Descendants(i)
    BY <1>1 DEF Descendants
  <1>4. \A p : DescendantForPointRange(p)' = DescendantForPointRange(p)
    BY tree' = tree DEF DescendantForPointRange, StartPosition, EndPosition, Children, parent, pointLE, pointLT
  <1>5. \A p : deepestLeafEndingAtOrBefore(p)' = deepestLeafEndingAtOrBefore(p)
    BY tree' = tree DEF deepestLeafEndingAtOrBefore, EndPosition, Children, parent, pointLE
  <1>6. \A p : FindNodeAtPosition(p)' = FindNodeAtPosition(p)
    BY <1>2, <1>4, <1>5 DEF FindNodeAtPosition, JustBefore
  <1>7. \A S : InOrder(S)' = InOrder(S)
    BY tree' = tree DEF InOrder
  <1>8. \A S : WordsOf(S)' = WordsOf(S)
    BY <1>7 DEF WordsOf
  <1>9. \A i : Text(i)' = Text(i)
    BY <1>2, <1>3, <1>8 DEF Text, Leaves
  <1>10. \A i : (tree[i])' = tree[i]
    BY tree' = tree
  <1>11. \A n : commandNodeForHover(n)' = commandNodeForHover(n)
    BY tree' = tree DEF commandNodeForHover, IsCommand, Ancestors, Children, parent
  <1>12. \A s : LongestName(s)' = LongestName(s)
    BY <1>9 DEF LongestName
  <1>13. \A i : LeadingWords(i)' = LeadingWords(i)
    BY <1>2, <1>7, <1>9 DEF LeadingWords
  <1>14. \A i : resolveHoverKeyword(i)' = resolveHoverKeyword(i)
    BY <1>12, <1>13 DEF resolveHoverKeyword
  <1>15. \A p : HoverAnswer(p)' = HoverAnswer(p)
    BY <1>6, <1>11, <1>14 DEF HoverAnswer
  <1>16. Tokens' = Tokens
    BY tree' = tree DEF Tokens, HasChildren, Children, parent, IsMissing
  <1>17. \A p : inArgumentPosition(p)' = inArgumentPosition(p)
    BY <1>2, <1>8, <1>16 DEF inArgumentPosition
  <1>18. \A p : Suppressed(p)' = Suppressed(p)
    BY <1>6, <1>10, <1>17 DEF Suppressed, KindSuppresses
  <1>19. \A i : EnclosingSection(i)' = EnclosingSection(i)
    BY tree' = tree DEF EnclosingSection, IsSectionHeader, resolveACLSection, protocolFor, Ancestors, parent
  <1>20. \A p : CompletionAnswer(p)' = CompletionAnswer(p)
    BY <1>6, <1>18, <1>19 DEF CompletionAnswer
  <1> QED
    BY <1>1, <1>2, <1>3, <1>15, <1>20

-----------------------------------------------------------------------------
(* The parser keeps to the grammar.                                        *)
LEMMA NewNode ==
    ASSUME NEW name \in DOMAIN Symbols, NEW place \in Nat, NEW from \in Points,
           NEW s \in Shapes(Symbols[name].kind)
    PROVE  LET node == Node(name, place, from, s) IN
           /\ node \in Nodes /\ IsOf(node, Symbols[name])
           /\ node.kind = Symbols[name].kind
           /\ node.parent = place /\ node.from = from /\ node.shape = s /\ node.to = None
  <1> DEFINE symbol == Symbols[name]
             T == [kind : STRING, named : BOOLEAN, missing : BOOLEAN, field : STRING,
                   words : Seq(STRING), text : STRING, parent : {0}, from : {None}, to : {None},
                   shape : {None}]
             node == [symbol EXCEPT !.parent = place, !.from = from, !.shape = s]
  <1>1. symbol \in T
    BY GrammarTypes
  <1>2. s \in Seq(Held)
    <2>1. CASE symbol.kind \in DOMAIN Grammar
      BY <2>1, GrammarTypes DEF Shapes
    <2>2. CASE symbol.kind \notin DOMAIN Grammar
      <3>1. s = <<>>
        BY <2>2 DEF Shapes
      <3> QED
        BY <3>1, EmptySeq
    <2> QED
      BY <2>1, <2>2
  <1> HIDE DEF symbol
  <1>3. /\ node.kind = symbol.kind /\ node.named = symbol.named /\ node.missing = symbol.missing
        /\ node.field = symbol.field /\ node.words = symbol.words /\ node.text = symbol.text
        /\ node.parent = place /\ node.from = from /\ node.shape = s /\ node.to = symbol.to
    BY <1>1
  <1>4. node \in Nodes
    <2> DEFINE rest == [kind : STRING, named : BOOLEAN, missing : BOOLEAN, field : STRING,
                        words : Seq(STRING), text : STRING, parent : Nat, from : {None} \cup Points,
                        to : {None} \cup Points, shape : {None} \cup Seq(Held)]
    <2>1. symbol \in rest
      BY <1>1
    <2>2. [symbol EXCEPT !.parent = place] \in rest
      BY <2>1
    <2> DEFINE placed == [symbol EXCEPT !.parent = place]
    <2> HIDE DEF placed
    <2>3. [placed EXCEPT !.from = from] \in rest /\ [placed EXCEPT !.from = from].from = from
      BY <2>2 DEF placed
    <2> DEFINE begun == [placed EXCEPT !.from = from]
    <2> HIDE DEF begun
    <2>4. [begun EXCEPT !.shape = s] \in Nodes
      <3>1. begun \in rest /\ begun.from \in Points
        BY <2>3 DEF begun
      <3>2. begun \in [kind : STRING, named : BOOLEAN, missing : BOOLEAN, field : STRING,
                       words : Seq(STRING), text : STRING, parent : Nat, from : Points,
                       to : {None} \cup Points, shape : {None} \cup Seq(Held)]
        BY <3>1
      <3> QED
        BY <1>2, <3>2 DEF Nodes
    <2> QED
      BY <2>4 DEF begun, placed
  <1>5. symbol.to = None
    BY <1>1
  <1>6. Node(name, place, from, s) = node
    BY DEF Node, symbol
  <1> HIDE DEF node
  <1> QED
    BY <1>3, <1>4, <1>5, <1>6 DEF IsOf, symbol

LEMMA InitIInv ==
    ASSUME Init
    PROVE  IInv
  <1>1. PICK s \in Shapes("config") : tree = <<Node("config", 0, <<0, 0>>, s)>>
    BY DEF Init
  <1> DEFINE root == Node("config", 0, <<0, 0>>, s)
  <1>2. "config" \in DOMAIN Symbols /\ Symbols["config"].kind = "config"
    BY GrammarTypes
  <1>3. root \in Nodes /\ root.kind = "config" /\ root.parent = 0 /\ root.shape = s
    BY <1>2, NewNode DEF Points
  <1> HIDE DEF root
  <1>4. tree = <<root>> /\ Len(tree) = 1 /\ tree[1] = root /\ DOMAIN tree = {1}
    BY <1>1 DEF root
  <1>5. tree \in Seq(Nodes)
    BY <1>3, <1>4
  <1>6. 2..Len(tree) = {}
    BY <1>4
  <1>7. \A u \in Unfinished : u = 1 /\ u + 1..Len(tree) = {}
    BY <1>4 DEF Unfinished
  <1>8. Ordered
    BY <1>3, <1>4, <1>5, <1>6, <1>7 DEF Ordered
  <1>9. Made
    BY <1>3, <1>4, <1>6 DEF Made
  <1>10. LaidOut
    BY <1>6 DEF LaidOut
  <1> QED
    BY <1>8, <1>9, <1>10 DEF IInv, Grown, Init

(* A new node is the next child of the last one that is not complete.      *)
LEMMA ParseGrown ==
    ASSUME Grown, Parse
    PROVE  Grown'
  <1>l. PICK L : L = Len(tree)
    OBVIOUS
  <1>p. PICK p : p = Max(Unfinished)
    OBVIOUS
  <1>n. PICK n : n = tree[p].shape[Cardinality(Children(p)) + 1]
    OBVIOUS
  <1>1. Ordered /\ Made /\ LaidOut /\ L \in Nat /\ L > 0 /\ DOMAIN tree = 1..L
        /\ tree \in Seq(Nodes)
    BY <1>l, TreeNodes DEF Grown, Ordered
  <1>2. p \in Unfinished /\ \A u \in Unfinished : u <= p
    <2>1. Unfinished \in SUBSET (1..L) /\ Unfinished # {}
      BY <1>1 DEF Unfinished, Parse
    <2> QED
      BY <1>1, <1>p, <2>1, GreatestMember
  <1>3. PICK s \in Shapes(Symbols[n].kind),
             from \in IF HasChildren(p) THEN {After(gap) : gap \in Gaps[n]} ELSE {tree[p].from} :
          tree' = Append(tree, Node(n, p, from, s))
    BY <1>n, <1>p DEF Parse
  <1>4. p \in 1..L /\ p \in DOMAIN tree /\ tree[p] \in Nodes
        /\ Cardinality(Children(p)) \in Nat /\ Cardinality(Children(p)) < Len(tree[p].shape)
    <2>1. IsFiniteSet(Children(p))
      BY <1>1, ChildrenFinite
    <2>2. Cardinality(Children(p)) \in Nat
      BY <2>1, FS_CardinalityType
    <2> QED
      BY <1>1, <1>2, <2>2 DEF Unfinished
  <1>5. n \in Held /\ n \in DOMAIN Symbols /\ Gaps[n] \subseteq {"none", "blank", "blanks", "newline"}
    <2>1. tree[p].shape \in Seq(Held) /\ Cardinality(Children(p)) + 1 \in 1..Len(tree[p].shape)
      <3>1. tree[p].shape \in Seq(Held)
        BY <1>4 DEF Nodes
      <3>2. Len(tree[p].shape) \in Nat
        BY <3>1
      <3> QED
        BY <1>4, <3>1, <3>2
    <2>2. n \in Held
      BY <1>n, <2>1
    <2> QED
      BY <2>2, GrammarTypes DEF Held
  <1>6. from \in Points
    <2>1. CASE HasChildren(p)
      <3>1. PICK gap \in Gaps[n] : from = Skip(EndOfToken(L), gap)
        BY <1>l, <1>3, <2>1 DEF After
      <3>2. EndOfToken(L) \in Points
        BY <1>1, TokenEnds
      <3> QED
        BY <1>5, <3>1, <3>2, SkipOn
    <2>2. CASE ~HasChildren(p)
      BY <1>3, <1>4, <2>2 DEF Nodes
    <2> QED
      BY <2>1, <2>2
  <1> DEFINE new == Node(n, p, from, s)
  <1>7. /\ new \in Nodes /\ IsOf(new, Symbols[n]) /\ new.kind = Symbols[n].kind
        /\ new.parent = p /\ new.from = from /\ new.shape = s
    BY <1>4, <1>5, <1>6, NewNode
  <1> HIDE DEF new
  <1>8. /\ tree' \in Seq(Nodes) /\ Len(tree') = L + 1 /\ DOMAIN tree' = 1..L + 1
        /\ tree'[L + 1] = new /\ \A i \in 1..L : tree'[i] = tree[i]
    BY <1>1, <1>3, <1>7, <1>l, AppendProperties DEF new
  <1>9. \A i \in 1..L + 1 : i \in 1..L \/ i = L + 1
    BY <1>1
  <1>10. 1 \in 1..L /\ L + 1 \notin 1..L
    BY <1>1
  <1>11. (\A i \in 1..L : parent(i)' = parent(i)) /\ parent(L + 1)' = p
    BY <1>7, <1>8 DEF parent
  <1>12. \A i \in 1..L : Children(i)' = Children(i) \cup (IF i = p THEN {L + 1} ELSE {})
    <2> TAKE i \in 1..L
    <2>1. Children(i)' = {k \in 1..L + 1 : parent(k)' = i}
      BY <1>8 DEF Children
    <2>2. Children(i) = {k \in 1..L : parent(k) = i}
      BY <1>1, <1>l DEF Children
    <2>3. ASSUME NEW k \in 1..L PROVE k \in Children(i)' <=> k \in Children(i)
      <3>1. parent(k)' = parent(k)
        BY <1>11
      <3>2. k \in 1..L + 1
        BY <1>1
      <3>3. k \in Children(i)' <=> parent(k)' = i
        BY <2>1, <3>2
      <3>4. k \in Children(i) <=> parent(k) = i
        BY <2>2
      <3> QED
        BY <3>1, <3>3, <3>4
    <2>4. L + 1 \in Children(i)' <=> i = p
      BY <1>1, <1>11, <2>1
    <2>5. L + 1 \notin Children(i)
      BY <1>10, <2>2
    <2>6. \A k : k \in Children(i)' => k \in 1..L \/ k = L + 1
      BY <1>9, <2>1
    <2>7. \A k : k \in Children(i) => k \in 1..L
      BY <2>2
    <2> QED
      BY <2>3, <2>4, <2>5, <2>6, <2>7
  <1>13. \A i \in p + 1..L : p <= parent(i)
    BY <1>1, <1>2, <1>l DEF Ordered
  <1>14. \A u \in Unfinished' : u \in 1..L => u \in Unfinished
    <2> SUFFICES ASSUME NEW u \in 1..L, u \notin Unfinished
                 PROVE  u \notin Unfinished'
      OBVIOUS
    <2>1. u # p
      BY <1>2
    <2>2. Children(u)' = Children(u)
      BY <1>12, <2>1
    <2>3. ~(Cardinality(Children(u)) < Len(tree[u].shape))
      BY <1>1, <1>l DEF Unfinished
    <2> QED
      BY <1>8, <2>2, <2>3 DEF Unfinished
  <1>15. Ordered'
    <2>1. tree'[1].kind = "config" /\ tree'[1].parent = 0
      BY <1>1, <1>8, <1>10 DEF Ordered
    <2>2. ASSUME NEW i \in 2..L + 1 PROVE parent(i)' \in 1..i - 1
      <3>1. i \in 2..L \/ i = L + 1
        BY <1>1
      <3>2. \A j \in 2..L : j \in 1..L /\ parent(j) \in 1..j - 1
        BY <1>1, <1>l DEF Ordered
      <3>3. L + 1 - 1 = L
        BY <1>1
      <3>4. CASE i \in 2..L
        BY <1>11, <3>2, <3>4
      <3>5. CASE i = L + 1
        <4>1. parent(i)' = p
          BY <1>11, <3>5
        <4>2. i - 1 = L /\ p \in 1..L
          BY <1>1, <1>4, <3>5
        <4>3. p \in 1..i - 1
          BY <4>2
        <4> QED
          BY <4>1, <4>3, Zenon
      <3> QED
        BY <3>1, <3>4, <3>5
    <2>3. ASSUME NEW i \in 2..L + 1, NEW j \in 2..L + 1, i < j, parent(j)' < i
          PROVE  parent(j)' <= parent(i)'
      <3>1. i \in 2..L /\ i \in 1..L /\ (j \in 2..L \/ j = L + 1)
        BY <1>1, <2>3
      <3>2. CASE j \in 2..L
        <4>1. j \in 1..L /\ parent(j) < i
          BY <1>1, <1>11, <2>3, <3>2
        <4> QED
          BY <1>1, <1>11, <2>3, <3>1, <3>2, <4>1, <1>l DEF Ordered
      <3>3. CASE j = L + 1
        <4>1. i \in p + 1..L
          BY <1>1, <1>4, <1>11, <2>3, <3>1, <3>3
        <4> QED
          BY <1>11, <1>13, <3>1, <3>3, <4>1
      <3> QED
        BY <3>1, <3>2, <3>3
    <2>4. ASSUME NEW u \in Unfinished', NEW i \in u + 1..L + 1 PROVE u <= parent(i)'
      <3>1. u \in 1..L + 1
        BY <1>8 DEF Unfinished
      <3>2. u \in 1..L /\ (i \in u + 1..L \/ i = L + 1)
        BY <1>1, <3>1
      <3>3. u \in Unfinished
        BY <1>14, <3>2
      <3>4. CASE i \in u + 1..L
        <4>1. u <= parent(i) /\ i \in 1..L
          BY <1>1, <3>2, <3>3, <3>4, <1>l DEF Ordered
        <4> QED
          BY <1>11, <4>1
      <3>5. CASE i = L + 1
        BY <1>2, <1>11, <3>3, <3>5
      <3> QED
        BY <3>2, <3>4, <3>5
    <2>5. Len(tree') > 0 /\ L + 1 = Len(tree')
      BY <1>1, <1>8
    <2> QED
      BY <1>8, <2>1, <2>2, <2>3, <2>4, <2>5 DEF Ordered
  <1>16. \A i \in 2..L : i \in 1..L /\ parent(i) \in 1..L /\ i # L + 1
                         /\ Rank(i)' = Rank(i) /\ Name(i)' = Name(i)
    <2> TAKE i \in 2..L
    <2>1. i \in 1..L /\ parent(i) \in 1..L /\ i < L + 1
      BY <1>1, <1>l DEF Ordered
    <2>2. parent(i)' = parent(i) /\ Children(parent(i))' = Children(parent(i)) \cup (IF parent(i) = p THEN {L + 1} ELSE {})
      <3>q. PICK q : q = parent(i)
        OBVIOUS
      <3>1. \A j \in 1..L : Children(j)' = Children(j) \cup (IF j = p THEN {L + 1} ELSE {})
        BY <1>12
      <3>2. parent(i)' = q /\ q \in 1..L
        BY <1>11, <2>1, <3>q
      <3> QED
        BY <1>8, <1>11, <2>1, <3>1, <3>2, <3>q DEF Children
    <2>3. {k \in Children(parent(i))' : k <= i} = {k \in Children(parent(i)) : k <= i}
      BY <1>1, <2>1, <2>2
    <2>4. Rank(i)' = Rank(i)
      BY <2>3 DEF Rank
    <2>5. (tree[parent(i)])' = tree[parent(i)]
      BY <1>8, <2>1, <2>2
    <2> QED
      BY <2>1, <2>4, <2>5 DEF Name
  <1>17. Rank(L + 1)' = Cardinality(Children(p)) + 1 /\ Name(L + 1)' = n
    <2>1. Children(p)' = Children(p) \cup {L + 1}
      BY <1>4, <1>12
    <2>2. {k \in Children(parent(L + 1))' : k <= L + 1} = Children(p) \cup {L + 1}
      <3>1. Children(parent(L + 1))' = Children(p)'
        BY <1>11 DEF Children
      <3>2. \A k \in Children(p) \cup {L + 1} : k <= L + 1
        BY <1>1 DEF Children
      <3> QED
        BY <2>1, <3>1, <3>2
    <2>3. IsFiniteSet(Children(p)) /\ L + 1 \notin Children(p)
      BY <1>1, <1>10, ChildrenFinite DEF Children
    <2>4. Cardinality(Children(p) \cup {L + 1}) = Cardinality(Children(p)) + 1
      BY <2>3, FS_AddElement
    <2>5. Rank(L + 1)' = Cardinality(Children(p)) + 1
      BY <2>2, <2>4 DEF Rank
    <2>6. (tree[parent(L + 1)])' = tree[p]
      BY <1>4, <1>8, <1>11
    <2> QED
      BY <1>n, <2>5, <2>6 DEF Name
  <1>18. Made'
    <2>1. ASSUME NEW i \in 1..L + 1 PROVE tree'[i].shape \in Shapes(tree'[i].kind)
      BY <1>1, <1>3, <1>7, <1>8, <1>9 DEF Made
    <2>2. ASSUME NEW i \in 2..L + 1
          PROVE  /\ Rank(i)' \in (DOMAIN tree[parent(i)].shape)'
                 /\ IsOf(tree'[i], Symbols[Name(i)'])
      <3>1. CASE i \in 2..L
        <4>1. (tree[parent(i)])' = tree[parent(i)]
          BY <1>8, <1>11, <1>16, <3>1
        <4>2. Rank(i) \in DOMAIN tree[parent(i)].shape /\ IsOf(tree[i], Symbols[Name(i)])
          BY <1>1, <1>l, <3>1 DEF Made
        <4> QED
          BY <1>8, <1>16, <3>1, <4>1, <4>2
      <3>2. CASE i = L + 1
        <4>1. (tree[parent(i)])' = tree[p]
          BY <1>4, <1>8, <1>11, <3>2
        <4>2. tree[p].shape \in Seq(Held)
          BY <1>4 DEF Nodes
        <4>3. Cardinality(Children(p)) + 1 \in DOMAIN tree[p].shape
          BY <1>4, <4>2
        <4> QED
          BY <1>7, <1>8, <1>17, <3>2, <4>1, <4>3
      <3> QED
        BY <1>1, <3>1, <3>2
    <2> QED
      BY <1>8, <2>1, <2>2 DEF Made
  <1>19. \A i \in 1..L : StartPosition(i)' = StartPosition(i) /\ EndOfToken(i)' = EndOfToken(i)
    BY <1>8 DEF StartPosition, EndOfToken, Width, IsMissing
  <1>20. LaidOut'
    <2>1. ASSUME NEW i \in 2..L + 1
          PROVE  IF parent(i)' = i - 1 THEN StartPosition(i)' = StartPosition(i - 1)'
                 ELSE \E gap \in Gaps[Name(i)'] : StartPosition(i)' = Skip(EndOfToken(i - 1)', gap)
      <3>1. CASE i \in 2..L
        <4>1. i \in 1..L /\ i - 1 \in 1..L
          BY <1>1, <3>1
        <4>2. parent(i)' = parent(i) /\ Name(i)' = Name(i)
              /\ StartPosition(i)' = StartPosition(i) /\ StartPosition(i - 1)' = StartPosition(i - 1)
              /\ EndOfToken(i - 1)' = EndOfToken(i - 1)
          BY <1>11, <1>16, <1>19, <3>1, <4>1
        <4>3. IF parent(i) = i - 1 THEN StartPosition(i) = StartPosition(i - 1)
              ELSE \E gap \in Gaps[Name(i)] : StartPosition(i) = Skip(EndOfToken(i - 1), gap)
          BY <1>1, <1>l, <3>1 DEF LaidOut
        <4> QED
          BY <4>2, <4>3
      <3>2. CASE i = L + 1
        <4>1. i - 1 = L /\ L \in 1..L /\ parent(i)' = p /\ Name(i)' = n
          BY <1>1, <1>11, <1>17, <3>2
        <4>2. StartPosition(i)' = from /\ StartPosition(L)' = StartPosition(L)
              /\ EndOfToken(L)' = EndOfToken(L)
          <5>1. StartPosition(i)' = from
            BY <1>7, <1>8, <3>2 DEF StartPosition
          <5> QED
            BY <1>19, <4>1, <5>1
        <4>3. CASE p = L
          <5>1. ~HasChildren(L)
            <6>1. L \in DOMAIN tree
              BY <1>1, <4>1
            <6>2. Children(L) \subseteq L + 1..Len(tree)
              BY <1>1, <6>1, TreeNodes
            <6> QED
              BY <1>1, <1>l, <6>2 DEF HasChildren
          <5>2. from = StartPosition(L)
            BY <1>3, <4>3, <5>1 DEF StartPosition
          <5> QED
            BY <4>1, <4>2, <4>3, <5>2
        <4>4. CASE p # L
          <5>1. p + 1 \in 2..L /\ p + 1 \in p + 1..L /\ p + 1 - 1 = p
            BY <1>1, <1>4, <4>4
          <5>2. p <= parent(p + 1) /\ parent(p + 1) \in 1..p
            <6>k. PICK k : k = p + 1
              OBVIOUS
            <6>1. parent(k) \in 1..k - 1
              BY <1>1, <1>l, <5>1, <6>k DEF Ordered
            <6>2. p \in Nat /\ k - 1 = p
              BY <1>1, <1>4, <6>k
            <6>3. parent(k) \in 1..p
              BY <6>1, <6>2
            <6>4. p <= parent(k)
              BY <1>13, <5>1, <6>k
            <6> QED
              BY <6>3, <6>4, <6>k, Zenon
          <5>3. HasChildren(p)
            <6>1. parent(p + 1) = p
              BY <1>4, <5>2
            <6>2. p + 1 \in DOMAIN tree
              BY <1>1, <5>1
            <6> QED
              BY <6>1, <6>2 DEF HasChildren, Children
          <5>4. \E gap \in Gaps[n] : from = Skip(EndOfToken(L), gap)
            BY <1>3, <1>l, <5>3 DEF After
          <5> QED
            BY <4>1, <4>2, <4>4, <5>4
        <4> QED
          BY <4>3, <4>4
      <3> QED
        BY <1>1, <3>1, <3>2
    <2>2. Len(tree') = L + 1
      BY <1>8
    <2> QED
      BY <2>1, <2>2 DEF LaidOut
  <1> QED
    BY <1>15, <1>18, <1>20 DEF Grown

(* When the text ends, nodes get their ends and nothing else changes.      *)
LEMMA ParsedWhole ==
    ASSUME Grown, Parsed
    PROVE  Grown' /\ Finished' /\ end' # None
  <1>l. PICK L : L = Len(tree)
    OBVIOUS
  <1>1. Ordered /\ Made /\ LaidOut /\ L \in Nat /\ L > 0 /\ DOMAIN tree = 1..L
        /\ tree \in Seq(Nodes) /\ L \in DOMAIN tree
    BY <1>l, TreeNodes DEF Grown, Ordered
  <1>2. PICK gap \in {"none", "blank", "newline"} :
          /\ end' = Skip(EndOfToken(L), gap)
          /\ tree' = [i \in DOMAIN tree |-> [tree[i] EXCEPT
                         !.to = IF i = 1 THEN end' ELSE EndOfToken(Max(Leaves(i)))]]
    BY <1>l DEF Parsed, After
  <1>3. end' \in Points /\ pointLE(EndOfToken(L), end')
    <2>1. EndOfToken(L) \in Points
      BY <1>1, TokenEnds
    <2> QED
      BY <1>2, <2>1, SkipOn
  <1>4. \A i \in 1..L : IsLast(i, Max(Leaves(i))) /\ Max(Leaves(i)) \in 1..L
                        /\ EndOfToken(Max(Leaves(i))) \in Points
    BY <1>1, LastExists, TokenEnds
  <1>5. ASSUME NEW i \in 1..L
        PROVE  /\ tree'[i] \in Nodes
               /\ tree'[i].to = IF i = 1 THEN end' ELSE EndOfToken(Max(Leaves(i)))
               /\ tree'[i].kind = tree[i].kind /\ tree'[i].missing = tree[i].missing
               /\ tree'[i].field = tree[i].field /\ tree'[i].words = tree[i].words
               /\ tree'[i].parent = tree[i].parent /\ tree'[i].from = tree[i].from
               /\ tree'[i].shape = tree[i].shape
    <2>1. PICK to : to = IF i = 1 THEN end' ELSE EndOfToken(Max(Leaves(i)))
      OBVIOUS
    <2>2. tree'[i] = [tree[i] EXCEPT !.to = to]
      BY <1>1, <1>2, <2>1
    <2>3. to \in Points
      BY <1>3, <1>4, <2>1
    <2>4. tree[i] \in Nodes
      BY <1>1
    <2>5. [tree[i] EXCEPT !.to = to] \in Nodes
      BY <2>3, <2>4 DEF Nodes
    <2> QED
      BY <2>1, <2>2, <2>4, <2>5 DEF Nodes
  <1>6. tree' \in Seq(Nodes) /\ Len(tree') = L /\ DOMAIN tree' = 1..L
    <2>1. DOMAIN tree' = 1..L
      BY <1>1, <1>2
    <2>2. tree' = [i \in 1..L |-> tree'[i]]
      BY <1>1, <1>2
    <2> QED
      BY <1>1, <1>5, <2>1, <2>2
  <1>7. \A i \in 1..L : /\ parent(i)' = parent(i) /\ StartPosition(i)' = StartPosition(i)
                        /\ EndOfToken(i)' = EndOfToken(i)
    BY <1>5 DEF parent, StartPosition, EndOfToken, Width, IsMissing
  <1>8. \A i : Children(i)' = Children(i)
    <2> TAKE i
    <2>1. Children(i)' = {k \in 1..L : parent(k)' = i}
      BY <1>6 DEF Children
    <2>2. Children(i) = {k \in 1..L : parent(k) = i}
      BY <1>1 DEF Children
    <2> QED
      BY <1>7, <2>1, <2>2
  <1>9. Unfinished' = Unfinished
    <2>1. Unfinished' = {i \in 1..L : Cardinality(Children(i)') < Len(tree'[i].shape)}
      BY <1>6 DEF Unfinished
    <2>2. Unfinished = {i \in 1..L : Cardinality(Children(i)) < Len(tree[i].shape)}
      BY <1>1 DEF Unfinished
    <2>3. \A i \in 1..L : tree'[i].shape = tree[i].shape /\ Children(i)' = Children(i)
      BY <1>5, <1>8
    <2> QED
      BY <2>1, <2>2, <2>3
  <1>10. \A i \in 2..L : i \in 1..L /\ i - 1 \in 1..L /\ parent(i) \in 1..i - 1 /\ parent(i) \in 1..L
    BY <1>1, <1>l DEF Ordered
  <1>11. Ordered'
    <2>1. tree'[1].kind = "config" /\ tree'[1].parent = 0
      BY <1>1, <1>5 DEF Ordered
    <2>2. ASSUME NEW i \in 2..L PROVE parent(i)' \in 1..i - 1
      <3>1. parent(i)' = parent(i) /\ parent(i) \in 1..i - 1
        BY <1>7, <1>10
      <3> QED
        BY <3>1, Zenon
    <2>3. ASSUME NEW i \in 2..L, NEW j \in 2..L, i < j, parent(j)' < i PROVE parent(j)' <= parent(i)'
      <3>1. parent(j)' = parent(j) /\ parent(i)' = parent(i)
        BY <1>7, <1>10
      <3> QED
        BY <1>1, <1>l, <2>3, <3>1 DEF Ordered
    <2>4. ASSUME NEW u \in Unfinished', NEW i \in u + 1..L PROVE u <= parent(i)'
      <3>1. u \in Unfinished /\ u \in 1..L /\ i \in 1..L
        BY <1>1, <1>9 DEF Unfinished
      <3>2. u <= parent(i)
        BY <1>1, <1>l, <2>4, <3>1 DEF Ordered
      <3> QED
        BY <1>7, <3>1, <3>2
    <2> QED
      BY <1>1, <1>6, <2>1, <2>2, <2>3, <2>4 DEF Ordered
  <1>12. \A i \in 2..L : /\ Rank(i)' = Rank(i) /\ Name(i)' = Name(i)
                         /\ (tree[parent(i)])'.shape = tree[parent(i)].shape
    <2> TAKE i \in 2..L
    <2>q. PICK q : q = parent(i)
      OBVIOUS
    <2>1. q \in 1..L /\ parent(i)' = q
      BY <1>7, <1>10, <2>q
    <2>2. Children(parent(i))' = Children(parent(i))
      <3>1. Children(parent(i))' = Children(q)'
        BY <2>1 DEF Children
      <3> QED
        BY <1>8, <2>q, <3>1
    <2>3. Rank(i)' = Rank(i)
      BY <2>2 DEF Rank
    <2>4. (tree[parent(i)])'.shape = tree[parent(i)].shape
      BY <1>5, <2>1, <2>q
    <2> QED
      BY <2>3, <2>4 DEF Name
  <1>13. Made'
    <2>1. ASSUME NEW i \in 1..L PROVE tree'[i].shape \in Shapes(tree'[i].kind)
      BY <1>1, <1>5 DEF Made
    <2>2. ASSUME NEW i \in 2..L
          PROVE  /\ Rank(i)' \in DOMAIN (tree[parent(i)])'.shape
                 /\ IsOf(tree'[i], Symbols[Name(i)'])
      <3>1. Rank(i) \in DOMAIN tree[parent(i)].shape /\ IsOf(tree[i], Symbols[Name(i)])
        BY <1>1, <1>l DEF Made
      <3>2. IsOf(tree'[i], Symbols[Name(i)])
        BY <1>5, <1>10, <3>1 DEF IsOf
      <3> QED
        BY <1>12, <3>1, <3>2
    <2> QED
      BY <1>6, <2>1, <2>2 DEF Made
  <1>14. LaidOut'
    <2>1. ASSUME NEW i \in 2..L
          PROVE  IF parent(i)' = i - 1 THEN StartPosition(i)' = StartPosition(i - 1)'
                 ELSE \E g \in Gaps[Name(i)'] : StartPosition(i)' = Skip(EndOfToken(i - 1)', g)
      <3>1. parent(i)' = parent(i) /\ Name(i)' = Name(i)
            /\ StartPosition(i)' = StartPosition(i) /\ StartPosition(i - 1)' = StartPosition(i - 1)
            /\ EndOfToken(i - 1)' = EndOfToken(i - 1)
        BY <1>7, <1>10, <1>12
      <3>2. IF parent(i) = i - 1 THEN StartPosition(i) = StartPosition(i - 1)
            ELSE \E g \in Gaps[Name(i)] : StartPosition(i) = Skip(EndOfToken(i - 1), g)
        BY <1>1, <1>l DEF LaidOut
      <3> QED
        BY <3>1, <3>2
    <2> QED
      BY <1>6, <2>1 DEF LaidOut
  <1>15. Finished'
    <2>1. Unfinished' = {}
      BY <1>9 DEF Parsed
    <2>2. EndOfToken(Len(tree))' = EndOfToken(L)
      <3>1. EndOfToken(Len(tree))' = EndOfToken(L)'
        BY <1>6 DEF EndOfToken, Width, IsMissing
      <3> QED
        BY <1>1, <1>7, <3>1
    <2>3. EndPosition(1)' = end'
      BY <1>1, <1>5 DEF EndPosition
    <2>4. ASSUME NEW i \in 2..L
          PROVE  \E k \in 1..L : IsLast(i, k)' /\ EndPosition(i)' = EndOfToken(k)'
      <3>m. PICK m : m = Max(Leaves(i))
        OBVIOUS
      <3>1. i \in 1..L /\ m \in 1..L /\ IsLast(i, m)
        BY <1>4, <1>10, <3>m
      <3>2. EndPosition(i)' = EndOfToken(m)'
        <4>1. EndPosition(i)' = EndOfToken(m)
          BY <1>5, <3>1, <3>m DEF EndPosition
        <4> QED
          BY <1>7, <3>1, <4>1
      <3>3. In(i, m)'
        <4>1. i <= m /\ \A k \in i + 1..m : i <= parent(k)
          BY <3>1 DEF IsLast, In
        <4>2. \A k \in i + 1..m : parent(k)' = parent(k)
          BY <1>1, <1>7, <3>1
        <4> QED
          BY <4>1, <4>2 DEF In
      <3>4. (~HasChildren(m))'
        BY <1>8, <3>1 DEF IsLast, HasChildren
      <3>5. m = L \/ parent(m + 1)' < i
        <4>1. m = L \/ parent(m + 1) < i
          BY <1>l, <3>1 DEF IsLast
        <4>2. m # L => m + 1 \in 1..L
          BY <1>1, <3>1
        <4> QED
          BY <1>7, <4>1, <4>2
      <3>6. IsLast(i, m)'
        BY <1>6, <3>3, <3>4, <3>5 DEF IsLast
      <3> QED
        BY <3>1, <3>2, <3>6
    <2> QED
      BY <1>3, <1>6, <2>1, <2>2, <2>3, <2>4 DEF Finished
  <1>16. end' # None
    BY <1>3 DEF Points, None
  <1> QED
    BY <1>11, <1>13, <1>14, <1>15, <1>16 DEF Grown

LEMMA SameWhole ==
    ASSUME tree' = tree, end' = end
    PROVE  Grown' = Grown /\ Finished' = Finished
  <1>1. Grown' = Grown
    BY tree' = tree
    DEF Grown, Ordered, Made, LaidOut, Unfinished, Children, parent, Rank, Name, IsOf,
        StartPosition, EndOfToken, Width, IsMissing
  <1>2. Finished' = Finished
    BY tree' = tree, end' = end
    DEF Finished, Unfinished, Children, parent, EndOfToken, Width, IsMissing, EndPosition,
        IsLast, In, HasChildren
  <1> QED
    BY <1>1, <1>2

(* A cursor is at a position of the text.                                  *)
LEMMA Asked ==
    ASSUME end # None => Finished, NEW p \in Positions
    PROVE  end # None /\ answer = Nobody /\ p \in Points /\ pointLE(p, end)
  <1>1. end # None /\ answer = Nobody
    BY DEF Positions
  <1>2. end[1] \in Nat
    BY <1>1 DEF Finished, Points
  <1> DEFINE ends(row) == {0} \cup {EndPosition(k)[2] : k \in {l \in Tokens : EndPosition(l)[1] = row}}
             columns(row) == 0..Max(ends(row)) + 1
  <1>3. p \in UNION {{<<row, column>> : column \in columns(row)} : row \in 0..end[1]} /\ pointLE(p, end)
    BY <1>1 DEF Positions
  <1>4. \A row : columns(row) \subseteq Nat
    BY DEF columns
  <1> HIDE DEF columns
  <1>5. PICK row \in 0..end[1] : \E column \in columns(row) : p = <<row, column>>
    BY <1>3
  <1>6. p \in Points
    BY <1>2, <1>4, <1>5 DEF Points
  <1> QED
    BY <1>1, <1>3, <1>6

LEMMA NextIInv ==
    ASSUME IInv, [Next]_vars
    PROVE  IInv'
  <1>1. Grown /\ (end = None => answer = Nobody) /\ (end # None => Finished)
        /\ (answer # Nobody => Answered)
    BY DEF IInv
  <1>2. CASE Parse
    <2>1. Grown'
      BY <1>1, <1>2, ParseGrown
    <2>2. end' = None /\ answer' = Nobody
      BY <1>1, <1>2 DEF Parse
    <2> QED
      BY <2>1, <2>2 DEF IInv
  <1>3. CASE Parsed
    <2>1. Grown' /\ Finished' /\ end' # None
      BY <1>1, <1>3, ParsedWhole
    <2>2. answer' = Nobody
      BY <1>1, <1>3 DEF Parsed
    <2> QED
      BY <2>1, <2>2 DEF IInv
  <1>4. ASSUME NEW p \in Positions, Hover(p) \/ Completion(p) PROVE IInv'
    <2>1. end # None /\ p \in Points /\ pointLE(p, end)
      BY <1>1, <1>4, Asked
    <2>2. tree' = tree /\ end' = end /\ answer' \in {HoverAnswer(p), CompletionAnswer(p)}
      BY <1>4 DEF Hover, Completion
    <2>3. Grown' /\ Finished'
      BY <1>1, <2>1, <2>2, SameWhole
    <2>4. (answer.at)' = p
      <3>1. HoverAnswer(p).at = p
        BY DEF HoverAnswer
      <3>2. CompletionAnswer(p).at = p
        BY DEF CompletionAnswer
      <3> QED
        BY <2>2, <3>1, <3>2
    <2>5. HoverAnswer(p)' = HoverAnswer(p) /\ CompletionAnswer(p)' = CompletionAnswer(p)
      BY <2>2, AskedOfTree
    <2>6. answer' \in {HoverAnswer(answer.at)', CompletionAnswer(answer.at)'}
      BY <2>2, <2>4, <2>5
    <2>7. Answered'
      BY <2>1, <2>2, <2>4, <2>6 DEF Answered
    <2> QED
      BY <2>1, <2>2, <2>3, <2>7 DEF IInv
  <1>5. CASE UNCHANGED vars
    <2>1. tree' = tree /\ end' = end /\ answer' = answer
      BY <1>5 DEF vars
    <2>2. Grown' = Grown /\ Finished' = Finished
      BY <2>1, SameWhole
    <2>3. Answered => Answered'
      <3>1. \A p : HoverAnswer(p)' = HoverAnswer(p) /\ CompletionAnswer(p)' = CompletionAnswer(p)
        BY <2>1, AskedOfTree
      <3> QED
        BY <2>1, <3>1 DEF Answered
    <2> QED
      BY <1>1, <2>1, <2>2, <2>3 DEF IInv
  <1> QED
    BY <1>2, <1>3, <1>4, <1>5 DEF Next

-----------------------------------------------------------------------------
LEMMA Invariance == Spec => []IInv
  <1>1. Init => IInv
    BY InitIInv
  <1>2. IInv /\ [Next]_vars => IInv'
    BY NextIInv
  <1> QED
    BY <1>1, <1>2, PTL DEF Spec

LEMMA AnswersAreOfTheText ==
    ASSUME IInv, answer # Nobody
    PROVE  /\ Whole /\ answer.at \in Points
           /\ \/ answer = HoverAnswer(answer.at) /\ answer.ask = "hover"
              \/ answer = CompletionAnswer(answer.at) /\ answer.ask = "completion"
  <1>1. Answered /\ Whole
    BY DEF IInv, Whole
  <1>2. \A p : HoverAnswer(p).ask = "hover"
    BY DEF HoverAnswer
  <1>3. \A p : CompletionAnswer(p).ask = "completion"
    BY DEF CompletionAnswer
  <1> QED
    BY <1>1, <1>2, <1>3 DEF Answered

(* Hover describes a command the cursor is in or at the end of, its "no"   *)
(* included, or the last thing before the cursor on its line: never one of *)
(* another line, and never one that something else has come after, in any  *)
(* text and at any position (node.go:7-15, 39-42, hover.go:46-82).         *)
THEOREM Near == Spec => []HoverIsNear
  <1>1. IInv => HoverIsNear
    <2> SUFFICES ASSUME IInv PROVE HoverIsNear
      OBVIOUS
    <2>1. CASE answer = Nobody
      BY <2>1 DEF HoverIsNear, Nobody
    <2>2. CASE answer # Nobody /\ answer = HoverAnswer(answer.at)
      BY <2>2, AnswersAreOfTheText, NearWhenAsked
    <2>3. CASE answer # Nobody /\ answer.ask = "completion"
      BY <2>3 DEF HoverIsNear
    <2> QED
      BY <2>1, <2>2, <2>3, AnswersAreOfTheText
  <1> QED
    BY <1>1, Invariance, PTL

(* The cursor in a token of a command, or of the "no" before it, is on     *)
(* that command, and hover names a generic command that is all words by    *)
(* what the diagnostics call it (hover.go:46-109,                          *)
(* diagnostics_section.go:77-116).                                         *)
THEOREM OnTheCommand == Spec => []TokenHoversItsCommand
  <1>1. IInv => TokenHoversItsCommand
    <2> SUFFICES ASSUME IInv PROVE TokenHoversItsCommand
      OBVIOUS
    <2>1. CASE answer = Nobody
      BY <2>1 DEF TokenHoversItsCommand, Nobody
    <2>2. CASE answer # Nobody /\ answer = HoverAnswer(answer.at)
      BY <2>2, AnswersAreOfTheText, TokenWhenAsked
    <2>3. CASE answer # Nobody /\ answer.ask = "completion"
      BY <2>3 DEF TokenHoversItsCommand
    <2> QED
      BY <2>1, <2>2, <2>3, AnswersAreOfTheText
  <1> QED
    BY <1>1, Invariance, PTL

(* Completion at a command, up to its end, offers what the diagnostics     *)
(* check that command against: the section it is in, unless that one is    *)
(* unterminated (completion.go:118-136, diagnostics_section.go:27-66).     *)
THEOREM AsChecked == Spec => []CompletionAsksAsChecked
  <1>1. IInv => CompletionAsksAsChecked
    <2> SUFFICES ASSUME IInv PROVE CompletionAsksAsChecked
      OBVIOUS
    <2>1. CASE answer = Nobody
      BY <2>1 DEF CompletionAsksAsChecked, Nobody
    <2>2. CASE answer # Nobody /\ answer = CompletionAnswer(answer.at)
      BY <2>2, AnswersAreOfTheText, SectionWhenAsked
    <2>3. CASE answer # Nobody /\ answer.ask = "hover"
      BY <2>3 DEF CompletionAsksAsChecked
    <2> QED
      BY <2>1, <2>2, <2>3, AnswersAreOfTheText
  <1> QED
    BY <1>1, Invariance, PTL
=============================================================================
