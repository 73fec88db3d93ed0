-------------------------- MODULE NavigationProofs --------------------------
(***************************************************************************)
(* That the symbol table indexes a document as a linear scan would read    *)
(* it, and that the features that answer from it agree with each other,    *)
(* for every document, of any length, over any nodes.  The inductive       *)
(* invariant says that each part of the entry is what the extractors and   *)
(* buildIndices make of the stored text; the rest is about those: that     *)
(* they give one symbol per place, and pointers to every place of a name   *)
(* in the order of the slice.                                              *)
(***************************************************************************)
EXTENDS Navigation, Recursion

Found == [kind : Kinds, name : Names, at : Nat \X Nat]
Pointers == Seq(Nat)
KindIndex == [Kinds -> [Names -> Pointers]]
NameIndex == [Names -> Pointers]

(* Pointers to some places, all of them and in order.                      *)
Enumerates(pointers, places) ==
    /\ ToSet(pointers) = places
    /\ \A j, k \in DOMAIN pointers : j < k => pointers[j] < pointers[k]

-----------------------------------------------------------------------------
(* PointersByKindName adds the elements one by one, in order.              *)
LEMMA KindSteps ==
    ASSUME NEW found \in Seq(Found)
    PROVE  \E f \in [0..Len(found) -> KindIndex] :
              /\ f[0] = NoPointers
              /\ \A i \in 1..Len(found) : f[i] = PointTo(found, f[i - 1], i)
              /\ PointersByKindName(found) = f[Len(found)]
  <1> DEFINE n == Len(found)
             step == [i \in Nat |-> [index \in KindIndex |->
                         IF i \in 1..n THEN PointTo(found, index, i) ELSE index]]
             ids == [i \in DOMAIN found |-> i]
             Folds(h) == h = [s \in SUBSET (DOMAIN ids) |->
                                IF s = {} THEN NoPointers
                                ELSE LET x == Max(s) IN PointTo(found, h[s \ {x}], ids[x])]
             F == CHOOSE h : Folds(h)
  <1>1. n \in Nat /\ DOMAIN found = 1..n /\ DOMAIN ids = 1..n /\ \A i \in 1..n : found[i] \in Found
    OBVIOUS
  <1>2. NoPointers \in KindIndex
    BY DEF NoPointers, KindIndex, Pointers
  <1>3. ASSUME NEW i \in 1..n, NEW index \in KindIndex
        PROVE  PointTo(found, index, i) \in KindIndex
    <2>1. i \in Nat /\ found[i].kind \in Kinds /\ found[i].name \in Names
      BY <1>1 DEF Found
    <2>2. Append(index[found[i].kind][found[i].name], i) \in Pointers
      BY <2>1 DEF KindIndex, Pointers
    <2> QED
      BY <2>1, <2>2 DEF PointTo, KindIndex
  <1>4. step \in [Nat -> [KindIndex -> KindIndex]]
    BY <1>3
  <1> HIDE DEF n, ids
  <1>5. PICK iter : iter \in Foldings(KindIndex, NoPointers, step, n)
    <2> HIDE DEF step
    <2> QED
      BY <1>1, <1>2, <1>4, FoldExists
  <1>6. /\ iter \in [SUBSET (1..n) -> KindIndex]
        /\ \A s \in SUBSET (1..n) :
              iter[s] = IF s = {} THEN NoPointers ELSE step[Max(s)][iter[s \ {Max(s)}]]
    <2> HIDE DEF step
    <2> QED
      BY <1>5 DEF Foldings
  <1>7. Folds(iter)
    <2>1. ASSUME NEW s \in SUBSET (1..n), s # {}
          PROVE  iter[s] = PointTo(found, iter[s \ {Max(s)}], ids[Max(s)])
      <3>1. Max(s) \in 1..n /\ Max(s) \in Nat
        <4>1. Max(s) \in s
          BY <1>1, <2>1, GreatestMember
        <4>2. Max(s) \in 1..n
          BY <4>1
        <4> QED
          BY <1>1, <4>2
      <3>2. ids[Max(s)] = Max(s)
        BY <1>1, <3>1 DEF ids
      <3>3. s \ {Max(s)} \in SUBSET (1..n)
        OBVIOUS
      <3>4. iter[s \ {Max(s)}] \in KindIndex
        BY <1>6, <3>3
      <3> QED
        BY <1>6, <2>1, <3>1, <3>2, <3>4
    <2> HIDE DEF step
    <2> QED
      BY <1>1, <1>6, <2>1
  <1> HIDE DEF step
  <1>8. Folds(F)
    BY <1>7
  <1>9. PointersByKindName(found) = F[1..n]
    BY <1>1 DEF PointersByKindName, FoldLeft, MapThenFoldSet, ids
  <1> HIDE DEF F
  <1>10. F[{}] = NoPointers
    BY <1>1, <1>8
  <1>11. ASSUME NEW i \in 1..n PROVE F[1..i] = PointTo(found, F[1..i - 1], i)
    <2>1. 1..i \in SUBSET (1..n) /\ i \in Nat /\ i > 0
      BY <1>1
    <2>2. 1..i # {} /\ Max(1..i) = i /\ (1..i) \ {Max(1..i)} = 1..i - 1
      BY <2>1, MaxOfFirst
    <2>3. ids[i] = i
      BY <1>1 DEF ids
    <2> QED
      BY <1>1, <1>8, <2>1, <2>2, <2>3
  <1> DEFINE f == [i \in 0..n |-> F[1..i]]
             T == {i \in 0..n : f[i] \in KindIndex}
  <1>12. f[0] = NoPointers /\ \A i \in 1..n : f[i] = PointTo(found, f[i - 1], i)
    <2>1. 1..0 = {} /\ 0 \in 0..n
      BY <1>1
    <2>2. \A i \in 1..n : i \in 0..n /\ i - 1 \in 0..n
      BY <1>1
    <2> QED
      BY <1>10, <1>11, <2>1, <2>2
  <1> HIDE DEF f
  <1>13. 0 \in T
    BY <1>1, <1>2, <1>12
  <1>14. ASSUME NEW i \in 0..n - 1, i \in T PROVE i + 1 \in T
    <2> DEFINE k == i + 1
    <2>1. k \in 1..n /\ k - 1 = i
      BY <1>1
    <2> HIDE DEF k
    <2>2. f[k] \in KindIndex
      BY <1>3, <1>12, <1>14, <2>1
    <2> QED
      BY <1>1, <2>1, <2>2 DEF k
  <1>15. \A i \in 0..n : i \in T
    <2> HIDE DEF T
    <2> QED
      BY <1>1, <1>13, <1>14, BoundedInduction
  <1>16. f \in [0..n -> KindIndex] /\ f[n] = F[1..n]
    BY <1>1, <1>15 DEF f
  <1> QED
    BY <1>9, <1>12, <1>16 DEF n

(* The same of PointersByName.                                             *)
NoNames == [name \in Names |-> <<>>]
PointToName(found, index, i) == [index EXCEPT ![found[i].name] = Append(@, i)]

LEMMA NameSteps ==
    ASSUME NEW found \in Seq(Found)
    PROVE  \E f \in [0..Len(found) -> NameIndex] :
              /\ f[0] = NoNames
              /\ \A i \in 1..Len(found) : f[i] = PointToName(found, f[i - 1], i)
              /\ PointersByName(found) = f[Len(found)]
  <1> DEFINE n == Len(found)
             step == [i \in Nat |-> [index \in NameIndex |->
                         IF i \in 1..n THEN PointToName(found, index, i) ELSE index]]
             ids == [i \in DOMAIN found |-> i]
             Folds(h) == h = [s \in SUBSET (DOMAIN ids) |->
                                IF s = {} THEN NoNames
                                ELSE LET x == Max(s) IN PointToName(found, h[s \ {x}], ids[x])]
             F == CHOOSE h : Folds(h)
  <1>1. n \in Nat /\ DOMAIN found = 1..n /\ DOMAIN ids = 1..n /\ \A i \in 1..n : found[i] \in Found
    OBVIOUS
  <1>2. NoNames \in NameIndex
    BY DEF NoNames, NameIndex, Pointers
  <1>3. ASSUME NEW i \in 1..n, NEW index \in NameIndex
        PROVE  PointToName(found, index, i) \in NameIndex
    <2>1. i \in Nat /\ found[i].name \in Names
      BY <1>1 DEF Found
    <2>2. Append(index[found[i].name], i) \in Pointers
      BY <2>1 DEF NameIndex, Pointers
    <2> QED
      BY <2>1, <2>2 DEF PointToName, NameIndex
  <1>4. step \in [Nat -> [NameIndex -> NameIndex]]
    BY <1>3
  <1> HIDE DEF n, ids
  <1>5. PICK iter : iter \in Foldings(NameIndex, NoNames, step, n)
    <2> HIDE DEF step
    <2> QED
      BY <1>1, <1>2, <1>4, FoldExists
  <1>6. /\ iter \in [SUBSET (1..n) -> NameIndex]
        /\ \A s \in SUBSET (1..n) :
              iter[s] = IF s = {} THEN NoNames ELSE step[Max(s)][iter[s \ {Max(s)}]]
    <2> HIDE DEF step
    <2> QED
      BY <1>5 DEF Foldings
  <1>7. Folds(iter)
    <2>1. ASSUME NEW s \in SUBSET (1..n), s # {}
          PROVE  iter[s] = PointToName(found, iter[s \ {Max(s)}], ids[Max(s)])
      <3>1. Max(s) \in 1..n /\ Max(s) \in Nat
        <4>1. Max(s) \in s
          BY <1>1, <2>1, GreatestMember
        <4>2. Max(s) \in 1..n
          BY <4>1
        <4> QED
          BY <1>1, <4>2
      <3>2. ids[Max(s)] = Max(s)
        BY <1>1, <3>1 DEF ids
      <3>3. s \ {Max(s)} \in SUBSET (1..n)
        OBVIOUS
      <3>4. iter[s \ {Max(s)}] \in NameIndex
        BY <1>6, <3>3
      <3> QED
        BY <1>6, <2>1, <3>1, <3>2, <3>4
    <2> HIDE DEF step
    <2> QED
      BY <1>1, <1>6, <2>1
  <1> HIDE DEF step
  <1>8. Folds(F)
    BY <1>7
  <1>9. PointersByName(found) = F[1..n]
    BY <1>1 DEF PointersByName, FoldLeft, MapThenFoldSet, ids, NoNames, PointToName
  <1> HIDE DEF F
  <1>10. F[{}] = NoNames
    BY <1>1, <1>8
  <1>11. ASSUME NEW i \in 1..n PROVE F[1..i] = PointToName(found, F[1..i - 1], i)
    <2>1. 1..i \in SUBSET (1..n) /\ i \in Nat /\ i > 0
      BY <1>1
    <2>2. 1..i # {} /\ Max(1..i) = i /\ (1..i) \ {Max(1..i)} = 1..i - 1
      BY <2>1, MaxOfFirst
    <2>3. ids[i] = i
      BY <1>1 DEF ids
    <2> QED
      BY <1>1, <1>8, <2>1, <2>2, <2>3
  <1> DEFINE f == [i \in 0..n |-> F[1..i]]
             T == {i \in 0..n : f[i] \in NameIndex}
  <1>12. f[0] = NoNames /\ \A i \in 1..n : f[i] = PointToName(found, f[i - 1], i)
    <2>1. 1..0 = {} /\ 0 \in 0..n
      BY <1>1
    <2>2. \A i \in 1..n : i \in 0..n /\ i - 1 \in 0..n
      BY <1>1
    <2> QED
      BY <1>10, <1>11, <2>1, <2>2
  <1> HIDE DEF f
  <1>13. 0 \in T
    BY <1>1, <1>2, <1>12
  <1>14. ASSUME NEW i \in 0..n - 1, i \in T PROVE i + 1 \in T
    <2> DEFINE k == i + 1
    <2>1. k \in 1..n /\ k - 1 = i
      BY <1>1
    <2> HIDE DEF k
    <2>2. f[k] \in NameIndex
      BY <1>3, <1>12, <1>14, <2>1
    <2> QED
      BY <1>1, <2>1, <2>2 DEF k
  <1>15. \A i \in 0..n : i \in T
    <2> HIDE DEF T
    <2> QED
      BY <1>1, <1>13, <1>14, BoundedInduction
  <1>16. f \in [0..n -> NameIndex] /\ f[n] = F[1..n]
    BY <1>1, <1>15 DEF f
  <1> QED
    BY <1>9, <1>12, <1>16 DEF n

-----------------------------------------------------------------------------
(* A later place goes to the end.                                          *)
LEMMA EnumeratesMore ==
    ASSUME NEW pointers \in Pointers, NEW places, Enumerates(pointers, places),
           NEW i \in Nat, \A k \in places : k < i
    PROVE  Enumerates(Append(pointers, i), places \cup {i})
  <1> DEFINE n == Len(pointers)
             more == Append(pointers, i)
  <1>1. n \in Nat /\ DOMAIN pointers = 1..n /\ DOMAIN more = 1..n + 1
        /\ more[n + 1] = i /\ \A k \in 1..n : more[k] = pointers[k]
    BY DEF Pointers
  <1> HIDE DEF n, more
  <1>2. \A k \in 1..n + 1 : k \in 1..n \/ k = n + 1
    BY <1>1
  <1>3. ToSet(more) = places \cup {i}
    BY <1>1, <1>2 DEF Enumerates, ToSet
  <1>4. \A j, k \in DOMAIN more : j < k => more[j] < more[k]
    <2>1. ASSUME NEW j \in 1..n, NEW k \in 1..n + 1, j < k PROVE more[j] < more[k]
      <3>1. CASE k \in 1..n
        BY <1>1, <2>1, <3>1 DEF Enumerates
      <3>2. CASE k = n + 1
        BY <1>1, <2>1, <3>2 DEF Enumerates, ToSet
      <3> QED
        BY <1>2, <3>1, <3>2
    <2>2. ASSUME NEW k \in 1..n + 1, n + 1 < k PROVE FALSE
      BY <1>1, <2>2
    <2> QED
      BY <1>1, <1>2, <2>1, <2>2
  <1> QED
    BY <1>3, <1>4 DEF Enumerates, more

(* What buildIndices files under a kind and a name are all its places.     *)
LEMMA KindPointers ==
    ASSUME NEW found \in Seq(Found)
    PROVE  /\ PointersByKindName(found) \in KindIndex
           /\ \A kind \in Kinds, name \in Names :
                Enumerates(PointersByKindName(found)[kind][name], PlacesOf(found, kind, name))
  <1> DEFINE n == Len(found)
  <1>1. PICK f \in [0..n -> KindIndex] :
              /\ f[0] = NoPointers
              /\ \A i \in 1..n : f[i] = PointTo(found, f[i - 1], i)
              /\ PointersByKindName(found) = f[n]
    BY KindSteps
  <1>2. n \in Nat /\ DOMAIN found = 1..n /\ \A i \in 1..n : found[i] \in Found
    OBVIOUS
  <1> HIDE DEF n
  <1>3. ASSUME NEW kind \in Kinds, NEW name \in Names
        PROVE  Enumerates(f[n][kind][name], PlacesOf(found, kind, name))
    <2> DEFINE P == PlacesOf(found, kind, name)
               T == {i \in 0..n : Enumerates(f[i][kind][name], P \cap 1..i)}
    <2>1. P \subseteq 1..n /\ \A i \in 1..n : i \in P <=> found[i].kind = kind /\ found[i].name = name
      BY <1>2 DEF PlacesOf, PlacesOfName
    <2> HIDE DEF P
    <2>2. 0 \in T
      BY <1>1, <1>2 DEF NoPointers, Enumerates, ToSet
    <2>3. ASSUME NEW i \in 0..n - 1, i \in T PROVE i + 1 \in T
      <3> DEFINE k == i + 1
      <3>1. k \in 1..n /\ k - 1 = i /\ i \in 0..n /\ k \in 0..n /\ k \in Nat
            /\ 1..k = 1..i \cup {k} /\ \A q \in 1..i : q < k
        BY <1>2
      <3> HIDE DEF k
      <3>2. f[k] = PointTo(found, f[i], k) /\ f[i] \in KindIndex /\ found[k] \in Found
        BY <1>1, <1>2, <3>1
      <3>3. f[i][kind][name] \in Pointers
        BY <3>2 DEF KindIndex
      <3>4. CASE k \in P
        <4>1. f[k][kind][name] = Append(f[i][kind][name], k)
          <5>1. found[k].kind = kind /\ found[k].name = name
            BY <2>1, <3>1, <3>4
          <5> QED
            BY <3>2, <5>1 DEF PointTo, KindIndex
        <4>2. P \cap 1..k = (P \cap 1..i) \cup {k}
          BY <3>1, <3>4
        <4>3. Enumerates(Append(f[i][kind][name], k), (P \cap 1..i) \cup {k})
          BY <2>3, <3>1, <3>3, EnumeratesMore
        <4> QED
          BY <3>1, <4>1, <4>2, <4>3 DEF k
      <3>5. CASE k \notin P
        <4>1. f[k][kind][name] = f[i][kind][name]
          BY <2>1, <3>1, <3>2, <3>5 DEF PointTo, KindIndex, Found
        <4>2. P \cap 1..k = P \cap 1..i
          BY <3>1, <3>5
        <4> QED
          BY <2>3, <3>1, <4>1, <4>2 DEF k
      <3> QED
        BY <3>4, <3>5
    <2>4. \A i \in 0..n : i \in T
      <3> HIDE DEF T
      <3> QED
        BY <1>2, <2>2, <2>3, BoundedInduction
    <2>5. Enumerates(f[n][kind][name], P \cap 1..n) /\ P \cap 1..n = P
      BY <1>2, <2>1, <2>4
    <2> QED
      BY <2>5 DEF P
  <1> QED
    BY <1>1, <1>2, <1>3

(* And under a name alone.                                                 *)
LEMMA NamePointers ==
    ASSUME NEW found \in Seq(Found)
    PROVE  /\ PointersByName(found) \in NameIndex
           /\ \A name \in Names :
                Enumerates(PointersByName(found)[name], PlacesOfName(found, name))
  <1> DEFINE n == Len(found)
  <1>1. PICK f \in [0..n -> NameIndex] :
              /\ f[0] = NoNames
              /\ \A i \in 1..n : f[i] = PointToName(found, f[i - 1], i)
              /\ PointersByName(found) = f[n]
    BY NameSteps
  <1>2. n \in Nat /\ DOMAIN found = 1..n /\ \A i \in 1..n : found[i] \in Found
    OBVIOUS
  <1> HIDE DEF n
  <1>3. ASSUME NEW name \in Names
        PROVE  Enumerates(f[n][name], PlacesOfName(found, name))
    <2> DEFINE P == PlacesOfName(found, name)
               T == {i \in 0..n : Enumerates(f[i][name], P \cap 1..i)}
    <2>1. P \subseteq 1..n /\ \A i \in 1..n : i \in P <=> found[i].name = name
      BY <1>2 DEF PlacesOfName
    <2> HIDE DEF P
    <2>2. 0 \in T
      BY <1>1, <1>2 DEF NoNames, Enumerates, ToSet
    <2>3. ASSUME NEW i \in 0..n - 1, i \in T PROVE i + 1 \in T
      <3> DEFINE k == i + 1
      <3>1. k \in 1..n /\ k - 1 = i /\ i \in 0..n /\ k \in 0..n /\ k \in Nat
            /\ 1..k = 1..i \cup {k} /\ \A q \in 1..i : q < k
        BY <1>2
      <3> HIDE DEF k
      <3>2. f[k] = PointToName(found, f[i], k) /\ f[i] \in NameIndex /\ found[k] \in Found
        BY <1>1, <1>2, <3>1
      <3>3. f[i][name] \in Pointers
        BY <3>2 DEF NameIndex
      <3>4. CASE k \in P
        <4>1. f[k][name] = Append(f[i][name], k)
          <5>1. found[k].name = name
            BY <2>1, <3>1, <3>4
          <5> QED
            BY <3>2, <5>1 DEF PointToName, NameIndex
        <4>2. P \cap 1..k = (P \cap 1..i) \cup {k}
          BY <3>1, <3>4
        <4>3. Enumerates(Append(f[i][name], k), (P \cap 1..i) \cup {k})
          BY <2>3, <3>1, <3>3, EnumeratesMore
        <4> QED
          BY <3>1, <4>1, <4>2, <4>3 DEF k
      <3>5. CASE k \notin P
        <4>1. f[k][name] = f[i][name]
          BY <2>1, <3>1, <3>2, <3>5 DEF PointToName, NameIndex, Found
        <4>2. P \cap 1..k = P \cap 1..i
          BY <3>1, <3>5
        <4> QED
          BY <2>3, <3>1, <4>1, <4>2 DEF k
      <3> QED
        BY <3>4, <3>5
    <2>4. \A i \in 0..n : i \in T
      <3> HIDE DEF T
      <3> QED
        BY <1>2, <2>2, <2>3, BoundedInduction
    <2>5. Enumerates(f[n][name], P \cap 1..n) /\ P \cap 1..n = P
      BY <1>2, <2>1, <2>4
    <2> QED
      BY <2>5 DEF P
  <1> QED
    BY <1>1, <1>2, <1>3

-----------------------------------------------------------------------------
(* Following pointers to some places, all of them and in order, gives what *)
(* a scan collects that picks the elements at those places.                *)
LEMMA ScanFollows ==
    ASSUME NEW S, NEW slice \in Seq(S), NEW places, places \subseteq DOMAIN slice,
           NEW pointers \in Pointers, Enumerates(pointers, places)
    PROVE  Dereference(slice, pointers) = LinearScan(slice, places)
  <1> DEFINE n == Len(slice)
             R == Seq(S)
             l == Len(pointers)
             empty == <<>>
             step == [i \in 1..n |-> [s \in R |-> IF i \in places THEN Append(s, slice[i]) ELSE s]]
             Scans(h) == h = [i \in 0..n |->
                                IF i = 0 THEN empty
                                ELSE IF i \in places THEN Append(h[i - 1], slice[i]) ELSE h[i - 1]]
             F == CHOOSE h : Scans(h)
             T == {k \in 0..n : \E c \in 0..l :
                      /\ {pointers[j] : j \in 1..c} = places \cap 1..k
                      /\ F[k] = [j \in 1..c |-> slice[pointers[j]]]}
  <1>1. n \in Nat /\ \A i \in 1..n : slice[i] \in S
    OBVIOUS
  <1>2. l \in Nat /\ DOMAIN pointers = 1..l /\ places \subseteq 1..n
        /\ places = {pointers[j] : j \in 1..l}
        /\ \A j, k \in 1..l : j < k => pointers[j] < pointers[k]
    BY DEF Pointers, Enumerates, ToSet
  <1>3. LinearScan(slice, places) = F[n]
    BY DEF LinearScan
  <1>4. step \in [1..n -> [R -> R]] /\ empty \in R
    BY <1>1
  <1> HIDE DEF n
  <1>r. PICK f : f \in Recurrences(R, empty, step, n)
    <2> HIDE DEF R, step, empty
    <2> QED
      BY <1>1, <1>4, BoundedRecursive
  <1>5. f \in [0..n -> R] /\ f = [i \in 0..n |-> IF i = 0 THEN empty ELSE step[i][f[i - 1]]]
    <2> HIDE DEF R, step, empty
    <2> QED
      BY <1>r DEF Recurrences
  <1>6. \A i \in 0..n : i # 0 =>
            step[i][f[i - 1]] = IF i \in places THEN Append(f[i - 1], slice[i]) ELSE f[i - 1]
    <2> TAKE i \in 0..n
    <2> HAVE i # 0
    <2>1. i \in 1..n /\ i - 1 \in 0..n
      BY <1>1
    <2>2. f[i - 1] \in R
      BY <1>5, <2>1
    <2> HIDE DEF R
    <2> QED
      BY <2>1, <2>2
  <1> HIDE DEF step, R, empty
  <1>7. Scans(f)
    BY <1>5, <1>6
  <1>8. Scans(F)
    <2> HIDE DEF Scans
    <2> QED
      BY <1>7
  <1> HIDE DEF F
  <1>9. F[0] = <<>> /\ \A i \in 1..n :
            F[i] = IF i \in places THEN Append(F[i - 1], slice[i]) ELSE F[i - 1]
    <2>1. 0 \in 0..n /\ \A i \in 1..n : i \in 0..n /\ i # 0
      BY <1>1
    <2> QED
      BY <1>8, <2>1 DEF empty
  <1> HIDE DEF l
  <1>10. 0 \in T
    <2>1. 0 \in 0..l /\ 1..0 = {}
      BY <1>2
    <2>2. {pointers[j] : j \in 1..0} = places \cap 1..0 /\ F[0] = [j \in 1..0 |-> slice[pointers[j]]]
      BY <1>9, <2>1
    <2> QED
      BY <1>1, <2>1, <2>2
  <1>11. ASSUME NEW i \in 0..n - 1, i \in T PROVE i + 1 \in T
    <2> DEFINE k == i + 1
    <2>1. k \in 1..n /\ k - 1 = i /\ k \in 0..n /\ i \in Nat
          /\ 1..k = 1..i \cup {k} /\ \A q \in 1..i : q < k
      BY <1>1
    <2>k. k = i + 1
      OBVIOUS
    <2> HIDE DEF k
    <2>2. PICK c \in 0..l : /\ {pointers[j] : j \in 1..c} = places \cap 1..i
                            /\ F[i] = [j \in 1..c |-> slice[pointers[j]]]
      BY <1>11
    <2>c. c \in Nat /\ 1..c \subseteq 1..l
      BY <1>2
    <2>3. CASE k \in places
      <3> DEFINE d == c + 1
      <3>1. PICK m \in 1..l : pointers[m] = k
        BY <1>2, <2>3
      <3>2. m \notin 1..c
        BY <2>1, <2>2, <3>1
      <3>3. d \in 1..l /\ d \in 0..l /\ d <= m /\ d - 1 = c /\ 1..d = 1..c \cup {d} /\ d = c + 1
        BY <1>2, <2>c, <3>1, <3>2
      <3> HIDE DEF d
      <3>4. pointers[d] \in places /\ pointers[d] \in Nat
        BY <1>2, <3>3 DEF Pointers
      <3>5. pointers[d] <= k
        <4>1. m \in Nat /\ d \in Nat /\ k \in Nat
          BY <1>1, <1>2, <2>1, <3>3
        <4>2. d = m \/ d < m
          BY <3>3, <4>1
        <4>3. d < m => pointers[d] < k
          BY <1>2, <3>1, <3>3
        <4> QED
          BY <3>1, <4>1, <4>2, <4>3, <3>4
      <3>6. pointers[d] \notin 1..i
        <4> SUFFICES ASSUME pointers[d] \in 1..i PROVE FALSE
          OBVIOUS
        <4>1. PICK j \in 1..c : pointers[j] = pointers[d]
          BY <2>2, <3>4
        <4>2. j < d /\ j \in 1..l
          BY <2>c, <3>3
        <4> QED
          BY <1>2, <3>3, <3>4, <4>1, <4>2
      <3>7. pointers[d] = k
        BY <1>1, <1>2, <2>1, <2>k, <3>4, <3>5, <3>6
      <3>8. {pointers[j] : j \in 1..d} = places \cap 1..k
        BY <2>1, <2>2, <2>3, <3>3, <3>7
      <3>9. F[k] = [j \in 1..d |-> slice[pointers[j]]]
        <4>1. F[k] = Append(F[i], slice[k])
          BY <1>9, <2>1, <2>3
        <4>2. [j \in 1..c |-> slice[pointers[j]]] \in Seq(S)
          <5>1. \A j \in 1..c : slice[pointers[j]] \in S
            BY <1>1, <1>2, <2>c
          <5> QED
            BY <2>c, <5>1
        <4>3. Len([j \in 1..c |-> slice[pointers[j]]]) = c
          BY <2>c
        <4> QED
          BY <2>2, <2>c, <3>3, <3>7, <4>1, <4>2, <4>3, AppendProperties, <1>1, <2>1
      <3> QED
        BY <2>1, <2>k, <3>3, <3>8, <3>9
    <2>4. CASE k \notin places
      <3>1. places \cap 1..k = places \cap 1..i /\ F[k] = F[i]
        BY <1>9, <2>1, <2>4
      <3> QED
        BY <2>1, <2>2, <2>k, <3>1
    <2> QED
      BY <2>3, <2>4
  <1>12. \A i \in 0..n : i \in T
    <2> HIDE DEF T
    <2> QED
      BY <1>1, <1>10, <1>11, BoundedInduction
  <1>13. PICK c \in 0..l : /\ {pointers[j] : j \in 1..c} = places \cap 1..n
                           /\ F[n] = [j \in 1..c |-> slice[pointers[j]]]
    <2>1. n \in 0..n
      BY <1>1
    <2> QED
      BY <1>12, <2>1
  <1>14. c = l
    <2> SUFFICES ASSUME c # l PROVE FALSE
      OBVIOUS
    <2>1. l \in 1..l /\ c < l /\ c \in Nat
      BY <1>2
    <2>2. pointers[l] \in places /\ pointers[l] \in 1..n
      BY <1>2, <2>1
    <2>3. PICK j \in 1..c : pointers[j] = pointers[l]
      BY <1>13, <2>2
    <2>4. j \in 1..l /\ j < l
      BY <1>2, <2>1
    <2> QED
      BY <1>1, <1>2, <2>1, <2>2, <2>3, <2>4
  <1> QED
    BY <1>2, <1>3, <1>13, <1>14 DEF Dereference

-----------------------------------------------------------------------------
(* What an extractor returns for node i: one element, found there, or none. *)
OneOrNone(s, i) ==
    /\ s \in Seq(Found)
    /\ Len(s) <= 1
    /\ Len(s) = 1 => s[1].at[1] = i

Extracted(s) == \A found \in ToSet(s) : found.kind \in Kinds /\ found.name \in Names

(* A sequence of one symbol, or none, of a kind and a name that are known. *)
LEMMA One ==
    ASSUME NEW kind \in Kinds, NEW name \in Names, NEW i \in Nat, NEW token \in Nat
    PROVE  OneOrNone(<<Symbol(kind, name, i, token)>>, i)
  <1>1. Symbol(kind, name, i, token) \in Found /\ Symbol(kind, name, i, token).at[1] = i
    BY DEF Symbol, Found
  <1> QED
    BY <1>1 DEF OneOrNone

LEMMA None == ASSUME NEW i PROVE OneOrNone(<<>>, i)
  BY DEF OneOrNone

(* At most one of three sequences has an element.                          *)
LEMMA JoinOneOrNone ==
    ASSUME NEW i, NEW s, NEW t, OneOrNone(s, i), OneOrNone(t, i), s = <<>> \/ t = <<>>
    PROVE  OneOrNone(s \o t, i)
  <1>1. s \o t \in {s, t}
    BY ConcatEmptySeq DEF OneOrNone
  <1> QED
    BY <1>1

(* A section, or a reference by its header: the tokens of the name field.  *)
LEMMA FromTokens ==
    ASSUME NEW tokens \in Seq(STRING), Len(tokens) <= 1, NEW i \in Nat, NEW kind \in Kinds,
           NEW s, s = [t \in DOMAIN tokens |-> Symbol(kind, tokens[t], i, t)],
           \A found \in ToSet(s) : found.name \in Names
    PROVE  OneOrNone(s, i)
  <1>1. DOMAIN tokens = 1..Len(tokens) /\ Len(tokens) \in Nat
    OBVIOUS
  <1>2. ASSUME NEW t \in DOMAIN tokens
        PROVE  s[t] = Symbol(kind, tokens[t], i, t) /\ s[t] \in Found /\ s[t].at[1] = i
    <2>1. s[t] = Symbol(kind, tokens[t], i, t) /\ t \in Nat
      BY <1>1
    <2>2. s[t].name = tokens[t]
      BY <2>1 DEF Symbol
    <2>3. s[t] \in ToSet(s)
      BY DEF ToSet
    <2>4. tokens[t] \in Names
      BY <2>2, <2>3
    <2> QED
      BY <2>1, <2>4 DEF Symbol, Found
  <1>3. s \in Seq(Found) /\ Len(s) = Len(tokens)
    BY <1>1, <1>2
  <1> QED
    BY <1>1, <1>2, <1>3 DEF OneOrNone

(* Definitions: the section walk gives at most one of a node, and only of  *)
(* a section; the other walk at most one of a node that is not a section.  *)
LEMMA DefinitionsOf ==
    ASSUME NEW n \in Nodes, NEW i \in 1..MaxNodes
    PROVE  /\ OneOrNone(extractSection(n, i), i)
           /\ OneOrNone(extractFlat(n, i), i)
           /\ extractSection(n, i) # <<>> => n.kind \in DOMAIN SectionKind
           /\ extractFlat(n, i) # <<>> => n.kind \notin DOMAIN SectionKind
  <1>1. /\ n.tokens \in Seq(STRING) /\ Len(n.tokens) \in Nat
        /\ n.kind \in DOMAIN SectionKind => Len(n.tokens) <= 1
        /\ i \in Nat
    BY SymbolAssumption
  <1>2. /\ \A found \in ToSet(extractSection(n, i)) : found.name \in Names
        /\ \A found \in ToSet(extractFlat(n, i)) : found.name \in Names
    BY NamesAssumption
  <1>3. \A k \in DOMAIN SectionKind : SectionKind[k] \in Kinds
    BY DEF Kinds
  <1>k. {"redundancy", "acl", "hostname"} \subseteq Kinds
    BY DEF Kinds, SectionKind
  <1>4. OneOrNone(extractSection(n, i), i)
    <2>1. CASE n.kind \notin DOMAIN SectionKind
      BY <2>1, None DEF extractSection
    <2>2. CASE n.kind = "redundancy_section"
      <3>1. extractSection(n, i) = <<Symbol("redundancy", "redundancy", i, 1)>>
        BY <2>2 DEF extractSection, SectionKind
      <3>2. "redundancy" \in Names
        BY <1>2, <3>1 DEF ToSet, Symbol
      <3> QED
        BY <1>1, <1>k, <3>1, <3>2, One
    <2>3. CASE n.kind \in DOMAIN SectionKind /\ n.kind # "redundancy_section"
      <3>1. extractSection(n, i) =
                [t \in DOMAIN n.tokens |-> Symbol(SectionKind[n.kind], n.tokens[t], i, t)]
        BY <2>3 DEF extractSection
      <3> QED
        BY <1>1, <1>2, <1>3, <2>3, <3>1, FromTokens
    <2> QED
      BY <2>1, <2>2, <2>3
  <1> DEFINE a == extractACL(n, i)
             b == extractHostname(n, i)
             c == extractNamedACLCommandLine(n, i)
  <1>5. /\ a # <<>> => n.kind = "access_list_statement" /\ a = <<Symbol("acl", n.tokens[2], i, 2)>>
        /\ b # <<>> => n.kind = "hostname_statement" /\ b = <<Symbol("hostname", n.tokens[2], i, 2)>>
        /\ c # <<>> => n.kind = "command_line" /\ c = <<Symbol("acl", n.tokens[4], i, 4)>>
    BY DEF extractACL, extractHostname, extractNamedACLCommandLine
  <1>6. extractFlat(n, i) = (a \o b) \o c
    BY DEF extractFlat
  <1> HIDE DEF a, b, c
  <1>7. \/ extractFlat(n, i) = <<>>
        \/ extractFlat(n, i) = a /\ a # <<>>
        \/ extractFlat(n, i) = b /\ b # <<>>
        \/ extractFlat(n, i) = c /\ c # <<>>
    <2>1. ASSUME NEW x, x = <<>> \/ \E v : x = <<v>> PROVE <<>> \o x = x /\ x \o <<>> = x
      <3>1. PICK S : x \in Seq(S)
        <4>1. \A v : <<v>> \in Seq({v})
          OBVIOUS
        <4>2. <<>> \in Seq({})
          OBVIOUS
        <4> QED
          BY <2>1, <4>1, <4>2
      <3> QED
        BY <3>1, ConcatEmptySeq
    <2>2. /\ <<>> \o a = a /\ a \o <<>> = a
          /\ <<>> \o b = b /\ b \o <<>> = b
          /\ <<>> \o c = c /\ c \o <<>> = c
      BY <1>5, <2>1
    <2>3. (a = <<>> /\ b = <<>>) \/ (a = <<>> /\ c = <<>>) \/ (b = <<>> /\ c = <<>>)
      BY <1>5
    <2> QED
      BY <1>6, <2>2, <2>3
  <1>8. ASSUME NEW kind \in {"acl", "hostname"}, NEW name, NEW token \in Nat,
               extractFlat(n, i) = <<Symbol(kind, name, i, token)>>
        PROVE  OneOrNone(extractFlat(n, i), i)
    <2>1. name \in Names
      BY <1>2, <1>8 DEF ToSet, Symbol
    <2> QED
      BY <1>1, <1>k, <1>8, <2>1, One
  <1>9. OneOrNone(extractFlat(n, i), i)
    BY <1>5, <1>7, <1>8, None
  <1>10. extractFlat(n, i) # <<>> => n.kind \notin DOMAIN SectionKind
    BY <1>5, <1>7 DEF SectionKind
  <1> QED
    BY <1>4, <1>9, <1>10 DEF extractSection

(* References: of a header or of a statement, never of both.               *)
LEMMA ReferencesOf ==
    ASSUME NEW n \in Nodes, NEW i \in 1..MaxNodes
    PROVE  OneOrNone(extractSectionReference(n, i) \o extractCommandReference(n, i), i)
  <1> DEFINE a == extractSectionReference(n, i)
             b == extractCommandReference(n, i)
  <1>1. /\ n.tokens \in Seq(STRING) /\ Len(n.tokens) \in Nat
        /\ n.kind \in DOMAIN SectionKind => Len(n.tokens) <= 1
        /\ i \in Nat
    BY SymbolAssumption
  <1>2. /\ \A found \in ToSet(a) : found.name \in Names
        /\ \A found \in ToSet(b) : found.name \in Names
    BY NamesAssumption
  <1>k. "class-map" \in Kinds /\ \A spec \in refSpecs : spec.kind \in Kinds
    BY DEF Kinds, SectionKind, refSpecs
  <1>3. OneOrNone(a, i)
    <2>1. CASE n.kind = "policy_map_class_section"
      <3>1. a = [t \in DOMAIN n.tokens |-> Symbol("class-map", n.tokens[t], i, t)]
        BY <2>1 DEF extractSectionReference
      <3>2. Len(n.tokens) <= 1
        BY <1>1, <2>1 DEF SectionKind
      <3> QED
        BY <1>1, <1>2, <1>k, <3>1, <3>2, FromTokens
    <2>2. CASE n.kind # "policy_map_class_section"
      BY <2>2, None DEF extractSectionReference
    <2> QED
      BY <2>1, <2>2
  <1>4. OneOrNone(b, i)
    <2>1. CASE n.kind \in StatementKinds /\ ~n.negated /\ \E spec \in refSpecs : Cites(spec, n)
      <3> DEFINE spec == CHOOSE s \in refSpecs : Cites(s, n)
      <3>1. b = <<Symbol(spec.kind, n.tokens[NamePlace(spec)], i, NamePlace(spec))>>
        BY <2>1 DEF extractCommandReference
      <3>2. spec \in refSpecs
        BY <2>1
      <3> HIDE DEF spec
      <3>3. NamePlace(spec) \in Nat
        BY <3>2 DEF refSpecs, NamePlace
      <3>4. n.tokens[NamePlace(spec)] \in Names
        BY <1>2, <3>1 DEF ToSet, Symbol
      <3> QED
        BY <1>1, <1>k, <3>1, <3>2, <3>3, <3>4, One
    <2>2. CASE ~(n.kind \in StatementKinds /\ ~n.negated /\ \E spec \in refSpecs : Cites(spec, n))
      BY <2>2, None DEF extractCommandReference
    <2> QED
      BY <2>1, <2>2
  <1>5. a = <<>> \/ b = <<>>
    BY DEF extractSectionReference, extractCommandReference, StatementKinds
  <1> QED
    BY <1>3, <1>4, <1>5, JoinOneOrNone

-----------------------------------------------------------------------------
IsTree(tree) == tree \in Seq(Nodes) /\ Len(tree) <= MaxNodes

OneEach(found) == \A j, k \in DOMAIN found : found[j].at[1] = found[k].at[1] => j = k

(* A walk that takes one element of a node, or none, finds no two at the   *)
(* same node.                                                              *)
LEMMA WalkOneEach ==
    ASSUME NEW seqs, NEW n \in Nat, seqs = [i \in 1..n |-> seqs[i]],
           \A i \in 1..n : OneOrNone(seqs[i], i)
    PROVE  LET whole == FlattenSeq(seqs)
           IN  /\ whole \in Seq(Found)
               /\ OneEach(whole)
               /\ \A k \in DOMAIN whole : whole[k].at[1] \in 1..n /\ seqs[whole[k].at[1]] # <<>>
  <1> DEFINE mark == [found \in Found |-> found.at[1]]
             whole == FlattenSeq(seqs)
  <1>1. mark \in [Found -> Nat]
    BY DEF Found
  <1>2. seqs \in Seq(Seq(Found)) /\ Len(seqs) = n
    <2>1. \A i \in 1..n : seqs[i] \in Seq(Found)
      BY DEF OneOrNone
    <2> QED
      BY <2>1
  <1>3. OneMarked(seqs, mark)
    <2>1. ASSUME NEW i \in 1..Len(seqs)
          PROVE  Len(seqs[i]) <= 1 /\ (Len(seqs[i]) = 1 => mark[seqs[i][1]] = i)
      <3>1. OneOrNone(seqs[i], i)
        BY <1>2
      <3>2. Len(seqs[i]) = 1 => seqs[i][1] \in Found
        BY <3>1 DEF OneOrNone
      <3> QED
        BY <3>1, <3>2 DEF OneOrNone
    <2> QED
      BY <2>1 DEF OneMarked
  <1> HIDE DEF mark
  <1>w. whole \in Seq(Found) /\ ToldApart(whole, mark, seqs)
    BY <1>1, <1>2, <1>3, FlattenOneEach
  <1> HIDE DEF whole
  <1>4. /\ \A k \in 1..Len(whole) : /\ mark[whole[k]] \in 1..Len(seqs)
                                    /\ Len(seqs[mark[whole[k]]]) = 1
        /\ \A j, k \in 1..Len(whole) : mark[whole[j]] = mark[whole[k]] => j = k
    BY <1>w DEF ToldApart
  <1>5. DOMAIN whole = 1..Len(whole) /\ \A k \in 1..Len(whole) : whole[k] \in Found
    BY <1>w
  <1>6. \A k \in 1..Len(whole) : mark[whole[k]] = whole[k].at[1]
    BY <1>5 DEF mark
  <1>7. OneEach(whole)
    BY <1>4, <1>5, <1>6 DEF OneEach
  <1>8. \A k \in DOMAIN whole : whole[k].at[1] \in 1..n /\ seqs[whole[k].at[1]] # <<>>
    <2> TAKE k \in DOMAIN whole
    <2> DEFINE i == whole[k].at[1]
    <2>1. i \in 1..n /\ Len(seqs[i]) = 1
      BY <1>2, <1>4, <1>5, <1>6
    <2> HIDE DEF i
    <2>2. seqs[i] \in Seq(Found)
      BY <2>1 DEF OneOrNone
    <2>3. seqs[i] # <<>>
      BY <2>1, <2>2, EmptySeq
    <2> QED
      BY <2>1, <2>3 DEF i
  <1> QED
    BY <1>w, <1>7, <1>8 DEF whole

(* The definitions of a tree: at most one at each node.                    *)
LEMMA ExtractOneEach ==
    ASSUME NEW tree, IsTree(tree)
    PROVE  Extract(tree) \in Seq(Found) /\ OneEach(Extract(tree))
  <1> DEFINE sections == [i \in DOMAIN tree |-> extractSection(tree[i], i)]
             flat == [i \in DOMAIN tree |-> extractFlat(tree[i], i)]
             a == FlattenSeq(sections)
             b == FlattenSeq(flat)
             n == Len(tree)
  <1>1. n \in Nat /\ DOMAIN tree = 1..n /\ \A i \in 1..n : tree[i] \in Nodes /\ i \in 1..MaxNodes
    BY SymbolAssumption DEF IsTree
  <1>2. /\ \A i \in 1..n : OneOrNone(sections[i], i) /\ OneOrNone(flat[i], i)
        /\ \A i \in 1..n : sections[i] = <<>> \/ flat[i] = <<>>
        /\ sections = [i \in 1..n |-> sections[i]]
        /\ flat = [i \in 1..n |-> flat[i]]
    BY <1>1, DefinitionsOf
  <1> HIDE DEF n, sections, flat
  <1>3. /\ a \in Seq(Found) /\ OneEach(a)
        /\ \A k \in DOMAIN a : a[k].at[1] \in 1..n /\ sections[a[k].at[1]] # <<>>
    BY <1>1, <1>2, WalkOneEach
  <1>4. /\ b \in Seq(Found) /\ OneEach(b)
        /\ \A k \in DOMAIN b : b[k].at[1] \in 1..n /\ flat[b[k].at[1]] # <<>>
    BY <1>1, <1>2, WalkOneEach
  <1>5. Extract(tree) = a \o b
    BY DEF Extract, sections, flat
  <1> HIDE DEF a, b
  <1> DEFINE la == Len(a)
             lb == Len(b)
             ab == a \o b
  <1>6. /\ la \in Nat /\ lb \in Nat /\ DOMAIN a = 1..la /\ DOMAIN b = 1..lb
        /\ ab \in Seq(Found) /\ DOMAIN ab = 1..la + lb
        /\ \A k \in 1..la + lb : ab[k] = IF k <= la THEN a[k] ELSE b[k - la]
    BY <1>3, <1>4, ConcatProperties
  <1> HIDE DEF la, lb, ab
  <1>7. \A k \in 1..la + lb : \/ k \in 1..la /\ ab[k] = a[k]
                              \/ k > la /\ k - la \in 1..lb /\ ab[k] = b[k - la]
    BY <1>6
  <1>8. \A j \in 1..la, k \in 1..lb : a[j].at[1] # b[k].at[1]
    BY <1>2, <1>3, <1>4, <1>6
  <1>9. ASSUME NEW j \in 1..la + lb, NEW k \in 1..la + lb, ab[j].at[1] = ab[k].at[1]
        PROVE  j = k
    <2>1. CASE j \in 1..la /\ k \in 1..la
      BY <1>3, <1>6, <1>7, <1>9, <2>1 DEF OneEach
    <2>2. CASE j > la /\ k > la
      <3>1. /\ j - la \in DOMAIN b /\ ab[j] = b[j - la]
            /\ k - la \in DOMAIN b /\ ab[k] = b[k - la]
        BY <1>6, <1>7, <2>2
      <3>2. j - la = k - la
        BY <1>4, <1>9, <3>1 DEF OneEach
      <3> QED
        BY <1>6, <3>2
    <2> QED
      BY <1>6, <1>7, <1>8, <1>9, <2>1, <2>2
  <1> QED
    BY <1>5, <1>6, <1>9 DEF OneEach, ab

(* The references of a tree: at most one at each node.                     *)
LEMMA ReferencesOneEach ==
    ASSUME NEW tree, IsTree(tree)
    PROVE  ExtractReferences(tree) \in Seq(Found) /\ OneEach(ExtractReferences(tree))
  <1> DEFINE seqs == [i \in DOMAIN tree |->
                        extractSectionReference(tree[i], i) \o extractCommandReference(tree[i], i)]
             n == Len(tree)
  <1>1. n \in Nat /\ DOMAIN tree = 1..n /\ \A i \in 1..n : tree[i] \in Nodes /\ i \in 1..MaxNodes
    BY SymbolAssumption DEF IsTree
  <1>2. /\ \A i \in 1..n : OneOrNone(seqs[i], i)
        /\ seqs = [i \in 1..n |-> seqs[i]]
    BY <1>1, ReferencesOf
  <1>3. ExtractReferences(tree) = FlattenSeq(seqs)
    BY DEF ExtractReferences
  <1> HIDE DEF n, seqs
  <1> QED
    BY <1>1, <1>2, <1>3, WalkOneEach

-----------------------------------------------------------------------------
(* The entry is that of the stored text, whole.                            *)
Current ==
    /\ IsTree(root)
    /\ indexed \in BOOLEAN
    /\ symbols = Extract(root)
    /\ references = ExtractReferences(root)
    /\ byKindName = PointersByKindName(symbols)
    /\ byName = PointersByName(symbols)
    /\ byKindNameRef = PointersByKindName(references)

(* Nothing is extracted of an empty document, and nothing indexed.         *)
LEMMA EmptyDocument ==
    /\ Extract(<<>>) = <<>> /\ ExtractReferences(<<>>) = <<>>
    /\ PointersByKindName(<<>>) = NoPointers
    /\ PointersByName(<<>>) = NoNames
  <1>1. FlattenSeq(<<>>) = <<>>
    BY DEF FlattenSeq
  <1>2. \A f : [i \in DOMAIN <<>> |-> f[i]] = <<>>
    OBVIOUS
  <1>3. Extract(<<>>) = <<>>
    <2>1. [i \in DOMAIN <<>> |-> extractSection(<<>>[i], i)] = <<>>
          /\ [i \in DOMAIN <<>> |-> extractFlat(<<>>[i], i)] = <<>>
      OBVIOUS
    <2> QED
      BY <1>1, <2>1, ConcatEmptySeq DEF Extract
  <1>4. ExtractReferences(<<>>) = <<>>
    <2>1. [i \in DOMAIN <<>> |->
              extractSectionReference(<<>>[i], i) \o extractCommandReference(<<>>[i], i)] = <<>>
      OBVIOUS
    <2> QED
      BY <1>1, <2>1 DEF ExtractReferences
  <1>5. <<>> \in Seq(Found) /\ Len(<<>>) = 0
    OBVIOUS
  <1>6. PointersByKindName(<<>>) = NoPointers
    BY <1>5, KindSteps
  <1>7. PointersByName(<<>>) = NoNames
    BY <1>5, NameSteps
  <1> QED
    BY <1>3, <1>4, <1>6, <1>7

(* Every edit, and closing the document, leave the entry current.          *)
LEMMA Currency == Spec => []Current
  <1>0. IsTree(<<>>)
    BY SymbolAssumption DEF IsTree
  <1>1. Init => Current
    BY <1>0, EmptyDocument DEF Init, Current, NoNames
  <1>2. ASSUME NEW tree, IsTree(tree), Index(tree) PROVE Current'
    BY <1>2 DEF Index, Current, IsTree
  <1>3. ASSUME Current, [Next]_vars PROVE Current'
    <2>1. CASE Open
      BY <1>0, <1>2, <2>1 DEF Open
    <2>2. CASE AddNode
      <3>1. PICK n \in Nodes : Len(root) < MaxNodes /\ Index(Append(root, n))
        BY <2>2 DEF AddNode
      <3>2. IsTree(Append(root, n))
        <4>1. root \in Seq(Nodes) /\ Len(root) \in Nat
          BY <1>3 DEF Current, IsTree
        <4>2. Append(root, n) \in Seq(Nodes) /\ Len(Append(root, n)) = Len(root) + 1
          BY <4>1
        <4> QED
          BY <3>1, <4>1, <4>2, SymbolAssumption DEF IsTree
      <3> QED
        BY <1>2, <3>1, <3>2
    <2>3. CASE RemoveNode
      <3>1. root # <<>> /\ Index(Front(root))
        BY <2>3 DEF RemoveNode
      <3>2. IsTree(Front(root))
        <4> DEFINE l == Len(root)
        <4>1. root \in Seq(Nodes) /\ l \in Nat /\ l <= MaxNodes /\ l # 0
          BY <1>3, <3>1, EmptySeq DEF Current, IsTree
        <4>2. Front(root) \in Seq(Nodes) /\ Len(Front(root)) = l - 1
          <5>1. Front(root) \in Seq(Nodes)
                /\ Len(Front(root)) = IF 1 <= l - 1 THEN (l - 1) - 1 + 1 ELSE 0
            BY <4>1, SubSeqProperties DEF Front
          <5> HIDE DEF l
          <5> QED
            BY <4>1, <5>1
        <4> HIDE DEF l
        <4> QED
          BY <4>1, <4>2, SymbolAssumption DEF IsTree
      <3> QED
        BY <1>2, <3>1, <3>2
    <2>4. CASE Clear
      BY <1>0, <2>4, EmptyDocument DEF Clear, Current, NoNames
    <2>5. CASE UNCHANGED vars
      BY <1>3, <2>5 DEF vars, Current, IsTree
    <2> QED
      BY <1>3, <2>1, <2>2, <2>3, <2>4, <2>5 DEF Next
  <1> QED
    BY <1>1, <1>3, PTL DEF Spec

(* What that makes of the entry: no two elements at a node, and pointers   *)
(* to all the places of a name.                                            *)
Sound ==
    /\ symbols \in Seq(Found) /\ OneEach(symbols)
    /\ references \in Seq(Found) /\ OneEach(references)
    /\ byKindName \in KindIndex /\ byName \in NameIndex /\ byKindNameRef \in KindIndex
    /\ \A kind \in Kinds, name \in Names :
        /\ Enumerates(byKindName[kind][name], PlacesOf(symbols, kind, name))
        /\ Enumerates(byKindNameRef[kind][name], PlacesOf(references, kind, name))
    /\ \A name \in Names : Enumerates(byName[name], PlacesOfName(symbols, name))

LEMMA Soundness == Spec => []Sound
  <1>1. ASSUME Current PROVE Sound
    <2>1. symbols \in Seq(Found) /\ OneEach(symbols)
      BY <1>1, ExtractOneEach DEF Current
    <2>2. references \in Seq(Found) /\ OneEach(references)
      BY <1>1, ReferencesOneEach DEF Current
    <2> QED
      BY <1>1, <2>1, <2>2, KindPointers, NamePointers DEF Current, Sound
  <1> QED
    BY <1>1, Currency, PTL

(* No pointer of an index leaves the slice it points into, whatever is     *)
(* opened, edited and closed (symbols.go:97-127).                          *)
THEOREM NoStrayPointer == Spec => []TypeOK
  <1>1. ASSUME Current, Sound PROVE TypeOK
    <2>1. root \in Seq(Nodes) /\ indexed \in BOOLEAN
      BY <1>1 DEF Current, IsTree
    <2>2. \A found \in ToSet(symbols) \cup ToSet(references) :
             found.kind \in Kinds /\ found.name \in Names
      <3>1. \A found \in ToSet(symbols) \cup ToSet(references) : found \in Found
        BY <1>1 DEF Sound, ToSet
      <3> QED
        BY <3>1 DEF Found
    <2>3. ASSUME NEW kind \in Kinds, NEW name \in Names
          PROVE  /\ ToSet(byKindName[kind][name]) \subseteq DOMAIN symbols
                 /\ ToSet(byName[name]) \subseteq DOMAIN symbols
                 /\ ToSet(byKindNameRef[kind][name]) \subseteq DOMAIN references
      BY <1>1 DEF Sound, Enumerates, PlacesOf, PlacesOfName
    <2> QED
      BY <2>1, <2>2, <2>3 DEF TypeOK
  <1> QED
    BY <1>1, Currency, Soundness, PTL

(* The indexed lookups return what a linear scan of the slices would, in   *)
(* its order, for documents of any length (symbols.go:60-62).              *)
THEOREM ScanEquivalence == Spec => []LookupIsScan
  <1>1. ASSUME Sound PROVE LookupIsScan
    <2>1. ASSUME NEW kind \in Kinds, NEW name \in Names
          PROVE  /\ Lookup(kind, name) = LinearScan(symbols, PlacesOf(symbols, kind, name))
                 /\ LookupAny(name) = LinearScan(symbols, PlacesOfName(symbols, name))
                 /\ ReferencesLookup(kind, name) =
                        LinearScan(references, PlacesOf(references, kind, name))
      <3>1. /\ byKindName[kind][name] \in Pointers
            /\ byKindNameRef[kind][name] \in Pointers
            /\ byName[name] \in Pointers
        BY <1>1 DEF Sound, KindIndex, NameIndex
      <3>2. /\ PlacesOf(symbols, kind, name) \subseteq DOMAIN symbols
            /\ PlacesOfName(symbols, name) \subseteq DOMAIN symbols
            /\ PlacesOf(references, kind, name) \subseteq DOMAIN references
        BY DEF PlacesOf, PlacesOfName
      <3> QED
        BY <1>1, <3>1, <3>2, ScanFollows DEF Sound, Lookup, LookupAny, ReferencesLookup
    <2> QED
      BY <2>1 DEF LookupIsScan
  <1> QED
    BY <1>1, Soundness, PTL

(* No token defines two symbols or is two references, although every node  *)
(* is walked twice, in documents of any length (symbols.go:226-259).       *)
THEOREM PlacesAreDistinct == Spec => []OnePerPlace
  <1>1. Sound => OnePerPlace
    BY DEF Sound, OneEach, OnePerPlace, IsInjective
  <1> QED
    BY <1>1, Soundness, PTL

-----------------------------------------------------------------------------
(* The first match at a position is the only one.                          *)
LEMMA FirstIsOnly ==
    ASSUME NEW slice \in Seq(Found), OneEach(slice), NEW pos
    PROVE  \/ \E i \in DOMAIN slice : slice[i].at = pos /\ FirstAt(slice, pos) = <<slice[i]>>
           \/ (\A i \in DOMAIN slice : slice[i].at # pos) /\ FirstAt(slice, pos) = <<>>
  <1> DEFINE here == {i \in DOMAIN slice : slice[i].at = pos}
  <1>1. CASE here = {}
    BY <1>1 DEF FirstAt
  <1>2. ASSUME NEW i \in here PROVE FirstAt(slice, pos) = <<slice[i]>>
    <2>1. here = {i}
      BY DEF OneEach
    <2>2. DOMAIN slice \subseteq Nat
      OBVIOUS
    <2>3. Min(here) = i
      <3>1. i <= i
        BY <2>2
      <3> HIDE DEF here
      <3> QED
        BY <2>1, <3>1 DEF Min
    <2> QED
      BY <2>3 DEF FirstAt
  <1> QED
    BY <1>1, <1>2

(* What following pointers to some places finds.                           *)
LEMMA Followed ==
    ASSUME NEW slice, NEW pointers \in Pointers, NEW places, Enumerates(pointers, places)
    PROVE  /\ ToSet(Dereference(slice, pointers)) = {slice[i] : i \in places}
           /\ Dereference(slice, pointers) = <<>> <=> places = {}
           /\ ToSet(Locations(Dereference(slice, pointers))) = {slice[i].at : i \in places}
  <1> DEFINE got == Dereference(slice, pointers)
  <1>1. places = {pointers[j] : j \in DOMAIN pointers}
    BY DEF Enumerates, ToSet
  <1>2. DOMAIN got = DOMAIN pointers /\ \A j \in DOMAIN pointers : got[j] = slice[pointers[j]]
    BY DEF Dereference
  <1>3. DOMAIN Locations(got) = DOMAIN pointers
        /\ \A j \in DOMAIN pointers : Locations(got)[j] = slice[pointers[j]].at
    BY <1>2 DEF Locations
  <1>4. got = <<>> <=> DOMAIN pointers = {}
    <2>1. DOMAIN <<>> = {}
      OBVIOUS
    <2>2. got = [j \in DOMAIN pointers |-> slice[pointers[j]]]
      BY DEF Dereference
    <2>3. DOMAIN pointers = {} => got = <<>>
      <3> SUFFICES ASSUME DOMAIN pointers = {} PROVE [j \in {} |-> slice[pointers[j]]] = <<>>
        BY <2>2
      <3> QED
        OBVIOUS
    <2> QED
      BY <1>2, <2>1, <2>3
  <1> HIDE DEF got
  <1>5. ToSet(got) = {slice[i] : i \in places}
    BY <1>1, <1>2 DEF ToSet
  <1>6. ToSet(Locations(got)) = {slice[i].at : i \in places}
    BY <1>1, <1>3 DEF ToSet
  <1>7. got = <<>> <=> places = {}
    BY <1>1, <1>4
  <1> QED
    BY <1>5, <1>6, <1>7 DEF got

(* The lookups, in these terms.                                            *)
LEMMA Looked ==
    ASSUME Sound, NEW kind \in Kinds, NEW name \in Names
    PROVE  /\ ToSet(Lookup(kind, name)) = {symbols[i] : i \in PlacesOf(symbols, kind, name)}
           /\ ToSet(Locations(Lookup(kind, name))) =
                {symbols[i].at : i \in PlacesOf(symbols, kind, name)}
           /\ Lookup(kind, name) = <<>> <=> PlacesOf(symbols, kind, name) = {}
           /\ ToSet(Locations(LookupAny(name))) =
                {symbols[i].at : i \in PlacesOfName(symbols, name)}
           /\ ToSet(Locations(ReferencesLookup(kind, name))) =
                {references[i].at : i \in PlacesOf(references, kind, name)}
  <1>1. /\ byKindName[kind][name] \in Pointers
        /\ byKindNameRef[kind][name] \in Pointers
        /\ byName[name] \in Pointers
    BY DEF Sound, KindIndex, NameIndex
  <1> QED
    BY <1>1, Followed DEF Sound, Lookup, LookupAny, ReferencesLookup

(* The sites, as places of the slices.                                     *)
LEMMA Sites ==
    /\ DefinitionSites = {symbols[i].at : i \in DOMAIN symbols}
    /\ Uses = {references[i].at : i \in DOMAIN references}
  <1>1. DOMAIN DocumentSymbol = DOMAIN symbols
        /\ \A i \in DOMAIN symbols : DocumentSymbol[i].selection = symbols[i].at
    BY DEF DocumentSymbol, All
  <1>2. DefinitionSites = {symbols[i].at : i \in DOMAIN symbols}
    BY <1>1 DEF DefinitionSites, ToSet
  <1>3. Uses = {references[i].at : i \in DOMAIN references}
    BY DEF Uses, ToSet
  <1> QED
    BY <1>2, <1>3

(* Where Go-To-Definition goes from a use that is not a definition too.    *)
LEMMA JumpOfUse ==
    ASSUME Sound, NEW i \in DOMAIN references, references[i].at \notin DefinitionSites
    PROVE  LET r == references[i]
               defs == Lookup(r.kind, r.name)
           IN  Definition(r.at) = Locations(IF defs # <<>> THEN defs ELSE LookupAny(r.name))
  <1> DEFINE r == references[i]
  <1>1. SymbolAt(r.at) = <<>>
    BY Sites, FirstIsOnly DEF Sound, SymbolAt
  <1>2. ReferenceAt(r.at) = <<r>>
    <2>1. PICK j \in DOMAIN references :
              references[j].at = r.at /\ ReferenceAt(r.at) = <<references[j]>>
      BY FirstIsOnly DEF Sound, ReferenceAt
    <2>2. j = i
      BY <2>1 DEF Sound, OneEach
    <2> QED
      BY <2>1, <2>2
  <1>3. <<r>> # <<>> /\ <<r>>[1] = r
    OBVIOUS
  <1> QED
    BY <1>1, <1>2, <1>3 DEF Definition

(* A lookup starts with the first place of the slice.                      *)
LEMMA FirstLooked ==
    ASSUME Sound, NEW kind \in Kinds, NEW name \in Names,
           NEW m \in PlacesOf(symbols, kind, name),
           \A k \in PlacesOf(symbols, kind, name) : m <= k
    PROVE  Lookup(kind, name) # <<>> /\ Locations(Lookup(kind, name))[1] = symbols[m].at
  <1> DEFINE P == PlacesOf(symbols, kind, name)
             pointers == byKindName[kind][name]
             n == Len(pointers)
  <1>1. pointers \in Pointers /\ n \in Nat /\ DOMAIN pointers = 1..n
    BY DEF Sound, KindIndex, Pointers
  <1>2. /\ P = {pointers[j] : j \in DOMAIN pointers}
        /\ \A j, k \in DOMAIN pointers : j < k => pointers[j] < pointers[k]
    BY DEF Sound, Enumerates, ToSet
  <1>3. \A j \in DOMAIN pointers : pointers[j] \in Nat
    BY <1>1 DEF Pointers
  <1>4. DOMAIN Lookup(kind, name) = DOMAIN pointers
        /\ \A j \in DOMAIN pointers : Lookup(kind, name)[j] = symbols[pointers[j]]
    BY DEF Lookup, Dereference
  <1> HIDE DEF P, pointers, n
  <1>5. PICK j \in 1..n : pointers[j] = m
    BY <1>1, <1>2 DEF P
  <1>6. 1 \in DOMAIN pointers /\ pointers[1] \in P
    BY <1>1, <1>2, <1>5
  <1>7. pointers[1] = m
    <2>1. m <= pointers[1]
      BY <1>6 DEF P
    <2>2. j = 1 \/ 1 < j
      BY <1>1, <1>5
    <2>3. 1 < j => pointers[1] < m
      BY <1>1, <1>2, <1>5, <1>6
    <2> QED
      BY <1>1, <1>3, <1>5, <1>6, <2>1, <2>2, <2>3
  <1> QED
    BY <1>4, <1>6, <1>7 DEF Locations

(* The warning and the jump agree: a use of a name that is not exempt is   *)
(* flagged as undefined exactly when Go-To-Definition from it reaches      *)
(* nothing of its kind, in every document (diagnostics_refs.go:32-54,      *)
(* definition.go:26-49).                                                   *)
THEOREM WarningAndJump == Spec => []FlaggedIffUnreachable
  <1>1. ASSUME Sound, NEW i \in DOMAIN references,
               references[i].at \notin DefinitionSites,
               references[i].name \notin BuiltInNames
        PROVE  i \in UndefinedReferences <=>
                 \A s \in {s \in ToSet(symbols) : s.at \in ToSet(Definition(references[i].at))} :
                    s.kind # references[i].kind
    <2> DEFINE r == references[i]
               defs == Lookup(r.kind, r.name)
               any == LookupAny(r.name)
    <2>0. r \in Found
      BY <1>1 DEF Sound
    <2>1. r \in Found /\ r.kind \in Kinds /\ r.name \in Names
      BY <2>0 DEF Found
    <2>2. ~isBuiltInName(r.kind, r.name)
      BY <1>1 DEF BuiltInNames, isBuiltInName
    <2>3. Definition(r.at) = Locations(IF defs # <<>> THEN defs ELSE any)
      BY <1>1, JumpOfUse
    <2>4. i \in UndefinedReferences <=> defs = <<>>
      BY <2>2 DEF UndefinedReferences
    <2> HIDE DEF defs, any
    <2>5. ASSUME defs # <<>>
          PROVE  \E s \in ToSet(symbols) : s.at \in ToSet(Definition(r.at)) /\ s.kind = r.kind
      <3>1. PlacesOf(symbols, r.kind, r.name) # {}
        BY <1>1, <2>1, <2>5, Looked DEF defs
      <3>2. PICK k \in PlacesOf(symbols, r.kind, r.name) : TRUE
        BY <3>1
      <3>3. symbols[k] \in ToSet(symbols) /\ symbols[k].kind = r.kind
        BY <3>2 DEF PlacesOf, PlacesOfName, ToSet
      <3>4. symbols[k].at \in ToSet(Locations(defs))
        BY <1>1, <2>1, <3>2, Looked DEF defs
      <3> QED
        BY <2>3, <2>5, <3>3, <3>4
    <2>6. ASSUME defs = <<>>, NEW s \in ToSet(symbols), s.at \in ToSet(Definition(r.at)),
                 s.kind = r.kind
          PROVE  FALSE
      <3>1. s.at \in ToSet(Locations(any))
        BY <2>3, <2>6
      <3>2. PICK k \in PlacesOfName(symbols, r.name) : s.at = symbols[k].at
        BY <1>1, <2>1, <3>1, Looked DEF any
      <3>3. PICK m \in DOMAIN symbols : s = symbols[m]
        BY DEF ToSet
      <3>4. m = k
        BY <1>1, <3>2, <3>3 DEF Sound, OneEach, PlacesOfName
      <3>5. k \in PlacesOf(symbols, r.kind, r.name)
        BY <2>6, <3>2, <3>3, <3>4 DEF PlacesOf
      <3> QED
        BY <1>1, <2>1, <2>6, <3>5, Looked DEF defs
    <2> QED
      BY <2>4, <2>5, <2>6
  <1>2. Sound => FlaggedIffUnreachable
    BY <1>1 DEF FlaggedIffUnreachable
  <1> QED
    BY <1>2, Soundness, PTL

(* What References finds from a place: all the places, uses and            *)
(* definitions, of the kind and the name of what is there.                 *)
AllPlaces(kind, name) ==
    {references[i].at : i \in PlacesOf(references, kind, name)} \cup
    {symbols[i].at : i \in PlacesOf(symbols, kind, name)}

LEMMA ReferencesFrom ==
    ASSUME Sound, NEW target \in Found, NEW pos, resolveSymbolOrReference(pos) = <<target>>
    PROVE  ToSet(References(pos, TRUE)) = AllPlaces(target.kind, target.name)
  <1> DEFINE a == Locations(ReferencesLookup(target.kind, target.name))
             b == Locations(Lookup(target.kind, target.name))
  <1>1. target.kind \in Kinds /\ target.name \in Names
    BY DEF Found
  <1>2. <<target>> # <<>> /\ <<target>>[1] = target
    OBVIOUS
  <1>3. References(pos, TRUE) = a \o b
    BY <1>2 DEF References
  <1>4. ToSet(a) = {references[i].at : i \in PlacesOf(references, target.kind, target.name)}
        /\ ToSet(b) = {symbols[i].at : i \in PlacesOf(symbols, target.kind, target.name)}
    BY <1>1, Looked
  <1>5. a \in Seq(ToSet(a)) /\ b \in Seq(ToSet(b))
    <2>1. ASSUME NEW found, NEW pointers \in Pointers
          PROVE  Locations(Dereference(found, pointers))
                   \in Seq(ToSet(Locations(Dereference(found, pointers))))
      <3> DEFINE s == Locations(Dereference(found, pointers))
      <3>1. s = [j \in 1..Len(pointers) |-> s[j]] /\ Len(pointers) \in Nat
        BY DEF Locations, Dereference, Pointers
      <3>2. \A j \in 1..Len(pointers) : s[j] \in ToSet(s)
        BY <3>1 DEF ToSet
      <3> HIDE DEF s
      <3> QED
        BY <3>1, <3>2 DEF s
    <2>2. /\ byKindName[target.kind][target.name] \in Pointers
          /\ byKindNameRef[target.kind][target.name] \in Pointers
      BY <1>1 DEF Sound, KindIndex
    <2> QED
      BY <2>1, <2>2 DEF Lookup, ReferencesLookup
  <1> HIDE DEF a, b
  <1>6. ToSet(a \o b) = ToSet(a) \cup ToSet(b)
    <2> DEFINE S == ToSet(a) \cup ToSet(b)
    <2>1. a \in Seq(S) /\ b \in Seq(S)
      BY <1>5, SeqMonotonic
    <2> DEFINE la == Len(a)
               lb == Len(b)
               ab == a \o b
    <2>2. /\ la \in Nat /\ lb \in Nat /\ DOMAIN a = 1..la /\ DOMAIN b = 1..lb
          /\ DOMAIN ab = 1..la + lb
          /\ \A k \in 1..la + lb : ab[k] = IF k <= la THEN a[k] ELSE b[k - la]
      BY <2>1, ConcatProperties
    <2> HIDE DEF S, la, lb, ab
    <2>3. \A k \in 1..la + lb : ab[k] \in {a[i] : i \in 1..la} \cup {b[i] : i \in 1..lb}
      <3> TAKE k \in 1..la + lb
      <3>1. k <= la => k \in 1..la
        BY <2>2
      <3>2. ~(k <= la) => k - la \in 1..lb
        BY <2>2
      <3> QED
        BY <2>2, <3>1, <3>2
    <2>4. \A i \in 1..la : i \in 1..la + lb /\ ab[i] = a[i]
      BY <2>2
    <2>5. \A i \in 1..lb : i + la \in 1..la + lb /\ ab[i + la] = b[i]
      <3> TAKE i \in 1..lb
      <3>1. i + la \in 1..la + lb /\ ~(i + la <= la) /\ (i + la) - la = i
        BY <2>2
      <3> QED
        BY <2>2, <3>1
    <2>6. ToSet(ab) = {ab[k] : k \in 1..la + lb} /\ ToSet(a) = {a[i] : i \in 1..la}
          /\ ToSet(b) = {b[i] : i \in 1..lb}
      BY <2>2 DEF ToSet
    <2>7. ToSet(ab) \subseteq ToSet(a) \cup ToSet(b)
      BY <2>3, <2>6
    <2>8. ToSet(a) \cup ToSet(b) \subseteq ToSet(ab)
      BY <2>4, <2>5, <2>6
    <2> QED
      BY <2>7, <2>8 DEF ab
  <1> QED
    BY <1>3, <1>4, <1>6 DEF AllPlaces

(* "The exact inverse of find this symbol's usages": what is found from    *)
(* one name leads back to it and to the same places, in every document     *)
(* (references.go:21-25).                                                  *)
THEOREM ReferencesMutual == Spec => []ReferencesAreMutual
  <1>1. ASSUME Sound, NEW p \in Uses \cup DefinitionSites
        PROVE  \E target \in Found : resolveSymbolOrReference(p) = <<target>>
    <2>1. CASE SymbolAt(p) # <<>>
      <3>1. PICK i \in DOMAIN symbols : SymbolAt(p) = <<symbols[i]>>
        BY <1>1, <2>1, FirstIsOnly DEF Sound, SymbolAt
      <3> QED
        BY <1>1, <2>1, <3>1 DEF Sound, resolveSymbolOrReference
    <2>2. CASE SymbolAt(p) = <<>>
      <3>1. \A i \in DOMAIN symbols : symbols[i].at # p
        <4>1. \A i \in DOMAIN symbols : <<symbols[i]>> # <<>>
          OBVIOUS
        <4> QED
          BY <1>1, <2>2, <4>1, FirstIsOnly DEF Sound, SymbolAt
      <3>2. \E i \in DOMAIN references : references[i].at = p
        BY <1>1, <3>1, Sites
      <3>3. PICK i \in DOMAIN references : ReferenceAt(p) = <<references[i]>>
        BY <1>1, <3>2, FirstIsOnly DEF Sound, ReferenceAt
      <3> QED
        BY <1>1, <2>2, <3>3 DEF Sound, resolveSymbolOrReference
    <2> QED
      BY <2>1, <2>2
  <1>2. ASSUME Sound, NEW kind \in Kinds, NEW name \in Names,
               NEW q \in AllPlaces(kind, name), q \notin Uses \cap DefinitionSites
        PROVE  /\ q \in Uses \cup DefinitionSites
               /\ \A target \in Found : resolveSymbolOrReference(q) = <<target>> =>
                    target.kind = kind /\ target.name = name
    <2>1. CASE q \in {symbols[i].at : i \in PlacesOf(symbols, kind, name)}
      <3>1. PICK i \in DOMAIN symbols :
                symbols[i].at = q /\ symbols[i].kind = kind /\ symbols[i].name = name
        BY <2>1 DEF PlacesOf, PlacesOfName
      <3>2. SymbolAt(q) = <<symbols[i]>>
        <4>1. PICK j \in DOMAIN symbols : symbols[j].at = q /\ SymbolAt(q) = <<symbols[j]>>
          BY <1>2, <3>1, FirstIsOnly DEF Sound, SymbolAt
        <4>2. i = j
          BY <1>2, <3>1, <4>1 DEF Sound, OneEach
        <4> QED
          BY <4>1, <4>2
      <3>3. <<symbols[i]>> # <<>> /\ \A t : <<symbols[i]>> = <<t>> => t = symbols[i]
        OBVIOUS
      <3>4. q \in DefinitionSites
        BY <3>1, Sites
      <3> QED
        BY <3>1, <3>2, <3>3, <3>4 DEF resolveSymbolOrReference
    <2>2. CASE q \in {references[i].at : i \in PlacesOf(references, kind, name)}
      <3>1. PICK i \in DOMAIN references :
                references[i].at = q /\ references[i].kind = kind /\ references[i].name = name
        BY <2>2 DEF PlacesOf, PlacesOfName
      <3>2. q \in Uses /\ q \notin DefinitionSites
        BY <1>2, <3>1, Sites
      <3>3. SymbolAt(q) = <<>>
        BY <1>2, <3>2, Sites, FirstIsOnly DEF Sound, SymbolAt
      <3>4. ReferenceAt(q) = <<references[i]>>
        <4>1. PICK j \in DOMAIN references : references[j].at = q /\ ReferenceAt(q) = <<references[j]>>
          BY <1>2, <3>1, FirstIsOnly DEF Sound, ReferenceAt
        <4>2. i = j
          BY <1>2, <3>1, <4>1 DEF Sound, OneEach
        <4> QED
          BY <4>1, <4>2
      <3>5. \A t : <<references[i]>> = <<t>> => t = references[i]
        OBVIOUS
      <3> QED
        BY <3>1, <3>2, <3>3, <3>4, <3>5 DEF resolveSymbolOrReference
    <2> QED
      BY <1>2, <2>1, <2>2 DEF AllPlaces
  <1>3. ASSUME Sound, NEW p \in Uses \cup DefinitionSites,
               NEW q \in ToSet(References(p, TRUE)) \ (Uses \cap DefinitionSites)
        PROVE  ToSet(References(q, TRUE)) = ToSet(References(p, TRUE))
    <2>1. PICK target \in Found : resolveSymbolOrReference(p) = <<target>>
      BY <1>1, <1>3
    <2>2. ToSet(References(p, TRUE)) = AllPlaces(target.kind, target.name)
      BY <1>3, <2>1, ReferencesFrom
    <2>3. target.kind \in Kinds /\ target.name \in Names
      BY <2>1 DEF Found
    <2>4. /\ q \in Uses \cup DefinitionSites
          /\ \A t \in Found : resolveSymbolOrReference(q) = <<t>> =>
                t.kind = target.kind /\ t.name = target.name
      <3>1. q \in AllPlaces(target.kind, target.name) /\ q \notin Uses \cap DefinitionSites
        BY <2>2
      <3> DEFINE kind == target.kind
                 name == target.name
      <3>2. kind \in Kinds /\ name \in Names /\ q \in AllPlaces(kind, name)
        BY <2>3, <3>1
      <3> HIDE DEF kind, name
      <3>3. /\ q \in Uses \cup DefinitionSites
            /\ \A t \in Found : resolveSymbolOrReference(q) = <<t>> =>
                  t.kind = kind /\ t.name = name
        BY <1>2, <1>3, <3>1, <3>2
      <3> QED
        BY <3>3 DEF kind, name
    <2>5. PICK t \in Found : resolveSymbolOrReference(q) = <<t>>
      BY <1>1, <1>3, <2>4
    <2>6. ToSet(References(q, TRUE)) = AllPlaces(t.kind, t.name)
      BY <1>3, <2>5, ReferencesFrom
    <2> QED
      BY <2>2, <2>4, <2>5, <2>6
  <1>4. Sound => ReferencesAreMutual
    BY <1>3 DEF ReferencesAreMutual
  <1> QED
    BY <1>4, Soundness, PTL

(* Of the definitions of a kind and name the first is canonical: the only  *)
(* one without a warning, the one the warnings on all the others point to, *)
(* and the first that Go-To-Definition lists from a use, in every document *)
(* (diagnostics_refs.go:68-101, definition.go:37-48).                      *)
THEOREM CanonicalDefinition == Spec => []OneCanonicalDefinition
  <1>1. ASSUME Sound, NEW s \in ToSet(symbols), ~isSingletonKind(s.kind)
        PROVE  LET same == {t.at : t \in ToSet(Lookup(s.kind, s.name))}
                   flagged == {d.at : d \in DuplicateDefinitions}
                   uses == {r.at : r \in {r \in ToSet(references) :
                                            r.kind = s.kind /\ r.name = s.name}}
               IN  \E first \in same :
                      /\ same \ flagged = {first}
                      /\ \A d \in DuplicateDefinitions : d.at \in same => d.first = first
                      /\ \A use \in uses \ DefinitionSites : Definition(use)[1] = first
    <2> DEFINE P == PlacesOf(symbols, s.kind, s.name)
               same == {t.at : t \in ToSet(Lookup(s.kind, s.name))}
               flagged == {d.at : d \in DuplicateDefinitions}
               uses == {r.at : r \in {r \in ToSet(references) :
                                        r.kind = s.kind /\ r.name = s.name}}
               Seen(i) == {j \in 1..i - 1 : /\ ~isSingletonKind(symbols[j].kind)
                                            /\ SameDefinition(symbols[j], symbols[i])}
               FirstSeen(i) == CHOOSE j \in Seen(i) : \A k \in Seen(i) : j <= k
    <2>1. PICK a \in DOMAIN symbols : symbols[a] = s
      BY DEF ToSet
    <2>2. symbols \in Seq(Found) /\ DOMAIN symbols = 1..Len(symbols) /\ Len(symbols) \in Nat
      BY <1>1 DEF Sound
    <2>3. s \in Found /\ s.kind \in Kinds /\ s.name \in Names
      <3>1. s \in Found
        BY <2>1, <2>2
      <3> QED
        BY <3>1 DEF Found
    <2>4. a \in P /\ P \subseteq DOMAIN symbols
          /\ \A i \in DOMAIN symbols : i \in P <=> symbols[i].kind = s.kind /\ symbols[i].name = s.name
      BY <2>1 DEF PlacesOf, PlacesOfName
    <2>5. same = {symbols[i].at : i \in P}
      BY <1>1, <2>3, Looked
    <2> HIDE DEF P, same
    <2>6. PICK m \in P : \A k \in P : m <= k
      BY <2>2, <2>4, LeastMember
    <2>7. ASSUME NEW i \in P PROVE Seen(i) = {j \in P : j < i}
      <3>1. i \in Nat /\ 1..i - 1 \subseteq DOMAIN symbols
            /\ \A j \in DOMAIN symbols : j \in 1..i - 1 <=> j < i
        BY <2>2, <2>4
      <3> QED
        BY <1>1, <2>4, <3>1 DEF SameDefinition
    <2>8. ASSUME NEW d \in DuplicateDefinitions
          PROVE  \E i \in DOMAIN symbols : /\ Seen(i) # {} /\ d.at = symbols[i].at
                                           /\ d.first = symbols[FirstSeen(i)].at
      BY DEF DuplicateDefinitions, All
    <2>9. ASSUME NEW i \in DOMAIN symbols, ~isSingletonKind(symbols[i].kind), Seen(i) # {}
          PROVE  symbols[i].at \in flagged
      <3> DEFINE d == [at |-> symbols[i].at, first |-> symbols[FirstSeen(i)].at]
      <3>1. d \in DuplicateDefinitions
        BY <2>9 DEF DuplicateDefinitions, All
      <3>2. d.at = symbols[i].at
        OBVIOUS
      <3> HIDE DEF d
      <3> QED
        BY <3>1, <3>2
    <2> HIDE DEF Seen, FirstSeen
    <2>10. ASSUME NEW d \in DuplicateDefinitions, d.at \in same
           PROVE  d.at # symbols[m].at /\ d.first = symbols[m].at
      <3>1. PICK i \in DOMAIN symbols : /\ Seen(i) # {} /\ d.at = symbols[i].at
                                        /\ d.first = symbols[FirstSeen(i)].at
        BY <2>8
      <3>2. i \in P
        <4>1. PICK k \in P : symbols[k].at = d.at
          BY <2>5, <2>10
        <4>2. k = i
          BY <1>1, <2>4, <3>1, <4>1 DEF Sound, OneEach
        <4> QED
          BY <4>1, <4>2
      <3>3. Seen(i) = {j \in P : j < i}
        BY <2>7, <3>2
      <3>4. m \in Seen(i) /\ \A k \in Seen(i) : m <= k
        <4>1. PICK k \in P : k < i
          BY <3>1, <3>3
        <4>2. m \in Nat /\ k \in Nat /\ i \in Nat /\ m <= k
          BY <2>2, <2>4, <2>6, <3>2
        <4>3. m < i
          BY <4>1, <4>2
        <4> QED
          BY <2>6, <3>3, <4>3
      <3>5. FirstSeen(i) = m
        <4>1. FirstSeen(i) \in Seen(i) /\ \A k \in Seen(i) : FirstSeen(i) <= k
          BY <3>4 DEF FirstSeen
        <4>2. FirstSeen(i) \in Nat /\ m \in Nat
          BY <2>2, <2>4, <3>3, <4>1
        <4> QED
          BY <3>4, <4>1, <4>2
      <3>6. m # i
        BY <2>2, <2>4, <3>2, <3>3, <3>4
      <3> QED
        BY <1>1, <2>4, <3>1, <3>5, <3>6 DEF Sound, OneEach
    <2>11. ASSUME NEW i \in P, i # m PROVE symbols[i].at \in flagged
      <3>1. m \in Seen(i)
        <4>1. m \in Nat /\ i \in Nat /\ m <= i
          BY <2>2, <2>4, <2>6
        <4> QED
          BY <2>7, <2>11, <4>1
      <3>2. ~isSingletonKind(symbols[i].kind)
        BY <1>1, <2>4
      <3> QED
        BY <2>4, <2>9, <3>1, <3>2
    <2>12. same \ flagged = {symbols[m].at}
      <3>1. symbols[m].at \in same /\ symbols[m].at \notin flagged
        BY <2>5, <2>10
      <3> QED
        BY <2>5, <2>11, <3>1
    <2>13. ASSUME NEW use \in uses, use \notin DefinitionSites
           PROVE  Definition(use)[1] = symbols[m].at
      <3>1. PICK i \in DOMAIN references :
                /\ use = references[i].at
                /\ references[i].kind = s.kind /\ references[i].name = s.name
        BY DEF ToSet
      <3>2. m \in PlacesOf(symbols, s.kind, s.name)
            /\ \A k \in PlacesOf(symbols, s.kind, s.name) : m <= k
        BY <2>6 DEF P
      <3>3. Lookup(s.kind, s.name) # <<>>
            /\ Locations(Lookup(s.kind, s.name))[1] = symbols[m].at
        BY <1>1, <2>3, <3>2, FirstLooked
      <3>4. Definition(use) = Locations(Lookup(s.kind, s.name))
        BY <1>1, <2>13, <3>1, <3>3, JumpOfUse
      <3> QED
        BY <3>3, <3>4
    <2> HIDE DEF uses
    <2>14. /\ symbols[m].at \in same
           /\ same \ flagged = {symbols[m].at}
           /\ \A d \in DuplicateDefinitions : d.at \in same => d.first = symbols[m].at
           /\ \A use \in uses \ DefinitionSites : Definition(use)[1] = symbols[m].at
      BY <2>5, <2>10, <2>12, <2>13
    <2> QED
      BY <2>14 DEF same, uses
  <1>2. Sound => OneCanonicalDefinition
    BY <1>1 DEF OneCanonicalDefinition
  <1> QED
    BY <1>2, Soundness, PTL
=============================================================================
