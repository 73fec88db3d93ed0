----------------------------- MODULE Recursion ------------------------------
(***************************************************************************)
(* Induction over the natural numbers and what recursive functions         *)
(* compute, as facts about sets and functions, so that they can be cited   *)
(* like any other.  FlattenSeq and FoldLeft of SequencesExt are such       *)
(* functions: their value is the last of a chain of steps.                 *)
(***************************************************************************)
EXTENDS Integers, Sequences, SequencesExt, SequenceTheorems, WellFoundedInduction,
        TLAPS

(* What holds of 0, and of n + 1 if of n, holds of every number.           *)
LEMMA Induction ==
    ASSUME NEW T, 0 \in T, \A n \in Nat : n \in T => n + 1 \in T
    PROVE  \A n \in Nat : n \in T
  <1> SUFFICES ASSUME Nat \ T # {} PROVE FALSE
    OBVIOUS
  <1>1. PICK m \in Nat \ T : \A k \in Nat \ T : ~(<<k, m>> \in OpToRel(<, Nat))
    BY WFMin, NatLessThanWellFounded
  <1>2. m # 0 /\ m - 1 \in Nat /\ m - 1 + 1 = m /\ m - 1 < m
    OBVIOUS
  <1>3. m - 1 \in T
    BY <1>1, <1>2 DEF OpToRel
  <1> QED
    BY <1>2, <1>3

(* The same up to a bound.                                                 *)
LEMMA BoundedInduction ==
    ASSUME NEW b \in Nat, NEW T, 0 \in T, \A n \in 0..b - 1 : n \in T => n + 1 \in T
    PROVE  \A n \in 0..b : n \in T
  <1> DEFINE U == {n \in Nat : n <= b => n \in T}
  <1>1. 0 \in U
    OBVIOUS
  <1>2. \A n \in Nat : n \in U => n + 1 \in U
    OBVIOUS
  <1>3. \A n \in Nat : n \in U
    <2> HIDE DEF U
    <2> QED
      BY <1>1, <1>2, Induction
  <1> QED
    BY <1>3

(* A set of numbers has a least member.                                    *)
LEMMA LeastMember ==
    ASSUME NEW S \in SUBSET Nat, S # {}
    PROVE  \E m \in S : \A k \in S : m <= k
  <1>1. PICK m \in S : \A k \in S : ~(<<k, m>> \in OpToRel(<, Nat))
    BY WFMin, NatLessThanWellFounded
  <1>2. \A k \in S : ~(k < m)
    BY <1>1 DEF OpToRel
  <1> QED
    BY <1>2

-----------------------------------------------------------------------------
(* The first n steps of a recursion.                                       *)
Run(S, base, step, n) ==
    {g \in [0..n -> S] : g[0] = base /\ \A i \in 0..n - 1 : g[i + 1] = step[i][g[i]]}

(* Two runs agree as far as both go.                                       *)
LEMMA RunsAgree ==
    ASSUME NEW S, NEW base, NEW step, NEW m \in Nat, NEW n \in Nat, m <= n,
           NEW g \in Run(S, base, step, m), NEW h \in Run(S, base, step, n)
    PROVE  \A i \in 0..m : g[i] = h[i]
  <1> DEFINE T == {i \in 0..m : g[i] = h[i]}
  <1>1. 0 \in T
    BY DEF Run
  <1>2. \A i \in 0..m - 1 : i \in T => i + 1 \in T
    BY DEF Run
  <1>3. \A i \in 0..m : i \in T
    <2> HIDE DEF T
    <2> QED
      BY <1>1, <1>2, BoundedInduction
  <1> QED
    BY <1>3

(* Every recursion by steps has a solution.                                *)
Solutions(S, base, step) ==
    {f \in [Nat -> S] : f[0] = base /\ \A n \in Nat : f[n + 1] = step[n][f[n]]}

LEMMA Recursive ==
    ASSUME NEW S, NEW base, base \in S, NEW step, step \in [Nat -> [S -> S]]
    PROVE  \E f : f \in Solutions(S, base, step)
  <1> DEFINE T == {n \in Nat : Run(S, base, step, n) # {}}
  <1>1. 0 \in T
    <2>1. [i \in 0..0 |-> base] \in Run(S, base, step, 0)
      BY DEF Run
    <2> QED
      BY <2>1
  <1>2. ASSUME NEW n \in Nat, n \in T PROVE n + 1 \in T
    <2>1. PICK g \in Run(S, base, step, n) : TRUE
      BY <1>2
    <2> DEFINE h == [i \in 0..n + 1 |-> IF i = n + 1 THEN step[n][g[n]] ELSE g[i]]
    <2>2. g \in [0..n -> S] /\ g[0] = base /\ \A i \in 0..n - 1 : g[i + 1] = step[i][g[i]]
      BY <2>1 DEF Run
    <2>3. h \in [0..n + 1 -> S]
      BY <2>2
    <2>4. h[0] = base
      BY <2>2
    <2>5. \A i \in 0..n : h[i + 1] = step[i][h[i]]
      BY <2>2
    <2> HIDE DEF h
    <2>6. h \in Run(S, base, step, n + 1)
      BY <2>3, <2>4, <2>5 DEF Run
    <2> QED
      BY <2>6
  <1>3. \A n \in Nat : Run(S, base, step, n) # {}
    <2>1. \A n \in Nat : n \in T
      <3> HIDE DEF T
      <3> QED
        BY <1>1, <1>2, Induction
    <2> QED
      BY <2>1
  <1> DEFINE G == [n \in Nat |-> CHOOSE g \in Run(S, base, step, n) : TRUE]
             f == [n \in Nat |-> G[n][n]]
  <1>4. \A n \in Nat : G[n] \in Run(S, base, step, n)
    BY <1>3
  <1> HIDE DEF G
  <1>5. \A n \in Nat : G[n] \in [0..n -> S] /\ f[n] = G[n][n]
    BY <1>4 DEF Run
  <1>6. f \in [Nat -> S]
    BY <1>5
  <1>7. f[0] = base
    BY <1>4, <1>5 DEF Run
  <1>8. ASSUME NEW n \in Nat PROVE f[n + 1] = step[n][f[n]]
    <2>1. G[n + 1][n + 1] = step[n][G[n + 1][n]]
      <3>1. n + 1 \in Nat /\ n \in 0..(n + 1) - 1
        OBVIOUS
      <3> QED
        BY <1>4, <3>1 DEF Run
    <2>2. G[n + 1][n] = G[n][n]
      BY <1>4, RunsAgree
    <2> QED
      BY <1>5, <2>1, <2>2
  <1> HIDE DEF f
  <1> QED
    BY <1>6, <1>7, <1>8 DEF Solutions

(* The same as far as n.                                                   *)
Recurrences(S, base, step, n) ==
    {f \in [0..n -> S] : f = [i \in 0..n |-> IF i = 0 THEN base ELSE step[i][f[i - 1]]]}

LEMMA BoundedRecursive ==
    ASSUME NEW S, NEW base, base \in S, NEW n \in Nat,
           NEW step, step \in [1..n -> [S -> S]]
    PROVE  \E f : f \in Recurrences(S, base, step, n)
  <1> DEFINE steps == [i \in Nat |-> [x \in S |-> IF i < n THEN step[i + 1][x] ELSE x]]
  <1>1. steps \in [Nat -> [S -> S]]
    OBVIOUS
  <1>2. PICK g : g \in Solutions(S, base, steps)
    <2> HIDE DEF steps
    <2> QED
      BY <1>1, Recursive
  <1>3. g \in [Nat -> S] /\ g[0] = base /\ \A i \in Nat : g[i + 1] = steps[i][g[i]]
    <2> HIDE DEF steps
    <2> QED
      BY <1>2 DEF Solutions
  <1>4. \A i \in 1..n : g[i] = step[i][g[i - 1]]
    <2> TAKE i \in 1..n
    <2>1. i - 1 \in Nat /\ i - 1 + 1 = i /\ i - 1 < n
      OBVIOUS
    <2> QED
      BY <1>3, <2>1
  <1> DEFINE f == [i \in 0..n |-> g[i]]
  <1>5. f \in [0..n -> S] /\ f[0] = base
    BY <1>3
  <1>6. \A i \in 1..n : i \in 0..n /\ i - 1 \in 0..n /\ i # 0
    OBVIOUS
  <1>7. \A i \in 1..n : f[i] = step[i][f[i - 1]]
    BY <1>4, <1>6
  <1> HIDE DEF f
  <1>8. \A i \in 0..n : i = 0 \/ i \in 1..n
    OBVIOUS
  <1>9. f = [i \in 0..n |-> IF i = 0 THEN base ELSE step[i][f[i - 1]]]
    BY <1>5, <1>6, <1>7, <1>8
  <1> QED
    BY <1>5, <1>9 DEF Recurrences

-----------------------------------------------------------------------------
(* The largest of some of the numbers up to n.                             *)
LEMMA GreatestMember ==
    ASSUME NEW n \in Nat, NEW S \in SUBSET (1..n), S # {}
    PROVE  Max(S) \in S /\ \A i \in S : i <= Max(S)
  <1> DEFINE room == {n - i : i \in S}
  <1>1. room \in SUBSET Nat /\ room # {}
    <2>1. \A i \in S : n - i \in Nat
      OBVIOUS
    <2> QED
      BY <2>1
  <1>2. PICK r \in room : \A q \in room : r <= q
    <2> HIDE DEF room
    <2> QED
      BY <1>1, LeastMember
  <1>3. PICK m \in S : r = n - m
    BY <1>2
  <1>4. \A i \in S : m >= i
    <2> TAKE i \in S
    <2>1. n - i \in room /\ i \in 1..n /\ m \in 1..n
      OBVIOUS
    <2> QED
      BY <1>2, <1>3, <2>1
  <1> QED
    BY <1>4 DEF Max

(* What MapThenFoldSet iterates to fold a sequence of length n from the    *)
(* left: on a set of places, the largest is taken last.                    *)
Foldings(S, base, step, n) ==
    {iter \in [SUBSET (1..n) -> S] :
        \A s \in SUBSET (1..n) :
            iter[s] = IF s = {} THEN base ELSE step[Max(s)][iter[s \ {Max(s)}]]}

LEMMA FoldExists ==
    ASSUME NEW S, NEW base, base \in S, NEW step, step \in [Nat -> [S -> S]], NEW n \in Nat
    PROVE  \E iter : iter \in Foldings(S, base, step, n)
  <1> DEFINE T == {m \in Nat : Foldings(S, base, step, m) # {}}
  <1>1. 0 \in T
    <2> DEFINE iter == [s \in SUBSET (1..0) |-> base]
    <2>1. iter \in Foldings(S, base, step, 0)
      BY DEF Foldings
    <2> QED
      BY <2>1
  <1>2. ASSUME NEW m \in Nat, m \in T PROVE m + 1 \in T
    <2>1. PICK iter : iter \in Foldings(S, base, step, m)
      BY <1>2
    <2>2. /\ iter \in [SUBSET (1..m) -> S]
          /\ \A s \in SUBSET (1..m) :
                iter[s] = IF s = {} THEN base ELSE step[Max(s)][iter[s \ {Max(s)}]]
      BY <2>1 DEF Foldings
    <2> DEFINE more == [s \in SUBSET (1..m + 1) |->
                           IF m + 1 \in s THEN step[m + 1][iter[s \ {m + 1}]] ELSE iter[s]]
    <2>3. ASSUME NEW s \in SUBSET (1..m + 1)
          PROVE  /\ m + 1 \in s => Max(s) = m + 1 /\ s \ {m + 1} \in SUBSET (1..m)
                 /\ m + 1 \notin s => s \in SUBSET (1..m)
      <3>1. ASSUME m + 1 \in s PROVE Max(s) = m + 1
        <4>1. m + 1 \in Nat
          OBVIOUS
        <4>2. Max(s) \in s /\ m + 1 <= Max(s)
          BY <3>1, <4>1, GreatestMember
        <4>3. Max(s) \in 1..m + 1
          BY <4>2
        <4> QED
          BY <4>2, <4>3
      <3>2. \A i \in s : i # m + 1 => i \in 1..m
        OBVIOUS
      <3> QED
        BY <3>1, <3>2
    <2>4. more \in [SUBSET (1..m + 1) -> S]
      <3>1. ASSUME NEW s \in SUBSET (1..m + 1)
            PROVE  (IF m + 1 \in s THEN step[m + 1][iter[s \ {m + 1}]] ELSE iter[s]) \in S
        <4>1. m + 1 \in Nat
          OBVIOUS
        <4> QED
          BY <2>2, <2>3, <4>1
      <3> QED
        BY <3>1
    <2>5. ASSUME NEW s \in SUBSET (1..m + 1)
          PROVE  more[s] = IF s = {} THEN base ELSE step[Max(s)][more[s \ {Max(s)}]]
      <3>1. CASE m + 1 \in s
        <4>1. s \ {m + 1} \in SUBSET (1..m + 1) /\ m + 1 \notin s \ {m + 1}
          OBVIOUS
        <4>2. more[s \ {m + 1}] = iter[s \ {m + 1}]
          BY <4>1
        <4>3. more[s] = step[m + 1][iter[s \ {m + 1}]]
          BY <3>1
        <4> HIDE DEF more
        <4> QED
          BY <2>3, <3>1, <4>2, <4>3
      <3>2. CASE m + 1 \notin s
        <4>1. s \in SUBSET (1..m) /\ s \ {Max(s)} \in SUBSET (1..m + 1)
          BY <2>3, <3>2
        <4>2. more[s] = iter[s] /\ more[s \ {Max(s)}] = iter[s \ {Max(s)}]
          BY <3>2, <4>1
        <4> HIDE DEF more
        <4> QED
          BY <2>2, <4>1, <4>2
      <3> QED
        BY <3>1, <3>2
    <2> HIDE DEF more
    <2>6. more \in Foldings(S, base, step, m + 1)
      BY <2>4, <2>5 DEF Foldings
    <2> QED
      BY <2>6
  <1>3. \A m \in Nat : m \in T
    <2> HIDE DEF T
    <2> QED
      BY <1>1, <1>2, Induction
  <1> QED
    BY <1>3

(* A fold over the first numbers takes them in order.                      *)
LEMMA MaxOfFirst ==
    ASSUME NEW n \in Nat, n > 0
    PROVE  1..n # {} /\ Max(1..n) = n /\ (1..n) \ {Max(1..n)} = 1..n - 1
  <1>1. n \in 1..n
    OBVIOUS
  <1>2. Max(1..n) \in 1..n /\ n <= Max(1..n)
    BY <1>1, GreatestMember
  <1>3. Max(1..n) = n
    BY <1>2
  <1> QED
    BY <1>1, <1>3

-----------------------------------------------------------------------------
(* A walk to larger and larger numbers that stops outside S.               *)
WalksOut(n, S, next) ==
    {f \in [1..n -> 1..n] : f = [i \in 1..n |-> IF i \in S THEN f[next[i]] ELSE i]}

LEMMA WalkExists ==
    ASSUME NEW n \in Nat, NEW S \in SUBSET (1..n), NEW next \in [S -> 1..n],
           \A i \in S : i < next[i]
    PROVE  WalksOut(n, S, next) # {}
  <1> DEFINE IsWalk(f, m) ==
               /\ f \in [m..n -> 1..n]
               /\ \A i \in m..n : f[i] = IF i \in S THEN f[next[i]] ELSE i
             T == {m \in 0..n : \E f : IsWalk(f, n - m + 1)}
  <1>1. 0 \in T
    <2> DEFINE f == [i \in n + 1..n |-> i]
    <2>1. f \in [n + 1..n -> 1..n] /\ \A i \in n + 1..n : FALSE
      OBVIOUS
    <2>2. IsWalk(f, n + 1)
      BY <2>1
    <2>3. n - 0 + 1 = n + 1
      OBVIOUS
    <2> HIDE DEF IsWalk
    <2> QED
      BY <2>2, <2>3
  <1>2. ASSUME NEW m \in 0..n - 1, m \in T PROVE m + 1 \in T
    <2> DEFINE j == n - m
    <2>1. PICK f : IsWalk(f, n - m + 1)
      BY <1>2
    <2>2. j \in 1..n /\ n - m + 1 = j + 1 /\ n - (m + 1) + 1 = j
          /\ (\A i \in j..n : i = j \/ i \in j + 1..n) /\ j \notin j + 1..n
          /\ m + 1 \in 0..n
      OBVIOUS
    <2> HIDE DEF j
    <2>3. f \in [j + 1..n -> 1..n] /\ \A i \in j + 1..n : f[i] = IF i \in S THEN f[next[i]] ELSE i
      BY <2>1, <2>2
    <2>4. \A i \in S : i >= j => next[i] \in j + 1..n
      BY <2>2
    <2> DEFINE g == [i \in j..n |-> IF i = j THEN IF j \in S THEN f[next[j]] ELSE j ELSE f[i]]
    <2>5. g \in [j..n -> 1..n]
      BY <2>2, <2>3, <2>4
    <2>6. (\A i \in j + 1..n : g[i] = f[i]) /\ g[j] = IF j \in S THEN f[next[j]] ELSE j
      BY <2>2
    <2> HIDE DEF g
    <2>7. \A i \in j..n : g[i] = IF i \in S THEN g[next[i]] ELSE i
      BY <2>2, <2>3, <2>4, <2>6
    <2>8. IsWalk(g, j)
      BY <2>5, <2>7
    <2> HIDE DEF IsWalk
    <2> QED
      BY <2>2, <2>8
  <1>3. \A m \in 0..n : m \in T
    <2> HIDE DEF T
    <2> QED
      BY <1>1, <1>2, BoundedInduction
  <1>4. PICK f : IsWalk(f, 1)
    <2>1. n \in T /\ n - n + 1 = 1
      BY <1>3
    <2> HIDE DEF IsWalk
    <2> QED
      BY <2>1
  <1>5. f \in WalksOut(n, S, next)
    BY <1>4 DEF WalksOut
  <1> QED
    BY <1>5

(* It does not leave a set that its steps do not leave.                    *)
LEMMA WalkEnds ==
    ASSUME NEW n \in Nat, NEW S \in SUBSET (1..n), NEW next \in [S -> 1..n],
           \A i \in S : i < next[i],
           NEW f, \A i \in 1..n : f[i] = IF i \in S THEN f[next[i]] ELSE i,
           NEW R \in SUBSET (1..n), \A i \in R \cap S : next[i] \in R
    PROVE  \A i \in R : f[i] \in R \ S
  <1> DEFINE T == {m \in 0..n : \A i \in n - m + 1..n : i \in R => f[i] \in R \ S}
  <1>1. 0 \in T
    OBVIOUS
  <1>2. ASSUME NEW m \in 0..n - 1, m \in T PROVE m + 1 \in T
    <2> DEFINE j == n - m
    <2>1. j \in 1..n /\ n - m + 1 = j + 1 /\ n - (m + 1) + 1 = j /\ m + 1 \in 0..n
          /\ \A i \in j..n : i = j \/ i \in j + 1..n
      OBVIOUS
    <2> HIDE DEF j
    <2>2. \A i \in j + 1..n : i \in R => f[i] \in R \ S
      BY <1>2, <2>1
    <2>3. j \in R => f[j] \in R \ S
      <3>1. CASE j \in S /\ j \in R
        <4>1. next[j] \in R /\ next[j] \in j + 1..n
          BY <2>1, <3>1
        <4> QED
          BY <2>1, <2>2, <3>1, <4>1
      <3>2. CASE j \notin S
        BY <2>1, <3>2
      <3> QED
        BY <3>1, <3>2
    <2> QED
      BY <2>1, <2>2, <2>3
  <1>3. \A m \in 0..n : m \in T
    <2> HIDE DEF T
    <2> QED
      BY <1>1, <1>2, BoundedInduction
  <1>4. n \in T /\ n - n + 1 = 1
    BY <1>3
  <1> QED
    BY <1>4

-----------------------------------------------------------------------------
(* What joining a sequence of one element, or of none, amounts to.          *)
LEMMA JoinOne ==
    ASSUME NEW S, NEW s \in Seq(S), NEW t \in Seq(S), Len(t) <= 1
    PROVE  \/ Len(t) = 0 /\ s \o t = s
           \/ /\ Len(t) = 1 /\ Len(s \o t) = Len(s) + 1
              /\ (s \o t)[Len(s) + 1] = t[1]
              /\ \A k \in 1..Len(s) : (s \o t)[k] = s[k]
  <1>1. Len(t) \in Nat /\ Len(s) \in Nat
    OBVIOUS
  <1> DEFINE st == s \o t
  <1>2. /\ Len(st) = Len(s) + Len(t)
        /\ \A i \in 1..Len(s) + Len(t) : st[i] = IF i <= Len(s) THEN s[i] ELSE t[i - Len(s)]
    BY ConcatProperties
  <1>3. ASSUME Len(t) = 0 PROVE st = s
    BY <1>3, EmptySeq, ConcatEmptySeq
  <1> HIDE DEF st
  <1>4. ASSUME Len(t) = 1
        PROVE  Len(st) = Len(s) + 1 /\ st[Len(s) + 1] = t[1] /\ \A k \in 1..Len(s) : st[k] = s[k]
    BY <1>1, <1>2, <1>4
  <1>5. Len(t) = 0 \/ Len(t) = 1
    <2> DEFINE l == Len(t)
    <2>1. l \in Nat /\ l <= 1
      BY <1>1
    <2> HIDE DEF l
    <2>2. l = 0 \/ l = 1
      BY <2>1
    <2> QED
      BY <2>2 DEF l
  <1>6. CASE Len(t) = 0
    BY <1>3, <1>6 DEF st
  <1>7. CASE Len(t) = 1
    BY <1>4, <1>7 DEF st
  <1> QED
    BY <1>5, <1>6, <1>7

(* FlattenSeq joins the first sequence, the second, and so on.             *)
LEMMA FlattenSteps ==
    ASSUME NEW S, NEW seqs \in Seq(Seq(S))
    PROVE  \E f \in [0..Len(seqs) -> Seq(S)] :
              /\ f[0] = <<>>
              /\ \A i \in 1..Len(seqs) : f[i] = f[i - 1] \o seqs[i]
              /\ FlattenSeq(seqs) = f[Len(seqs)]
  <1> DEFINE n == Len(seqs)
             R == Seq(S)
             empty == <<>>
             step == [i \in Nat |-> [s \in R |-> IF i < n THEN s \o seqs[i + 1] ELSE s]]
             Joins(h) == h = [i \in 1..n |-> IF i = 1 THEN seqs[i] ELSE h[i - 1] \o seqs[i]]
  <1>1. n \in Nat /\ \A i \in 1..n : seqs[i] \in R
    OBVIOUS
  <1>2. step \in [Nat -> [R -> R]] /\ empty \in R
    BY <1>1
  <1>r. PICK g : g \in Solutions(R, empty, step)
    <2> HIDE DEF step, R, empty
    <2> QED
      BY <1>2, Recursive
  <1>3. g \in [Nat -> R] /\ g[0] = empty /\ \A i \in Nat : g[i + 1] = step[i][g[i]]
    <2> HIDE DEF step, R, empty
    <2> QED
      BY <1>r DEF Solutions
  <1>4. \A i \in 1..n : g[i] = g[i - 1] \o seqs[i]
    <2> TAKE i \in 1..n
    <2>1. i - 1 \in Nat /\ i - 1 + 1 = i /\ i - 1 < n
      BY <1>1
    <2>2. g[i - 1] \in R /\ g[i - 1 + 1] = step[i - 1][g[i - 1]]
      BY <1>3, <2>1
    <2> HIDE DEF R, n
    <2> QED
      BY <2>1, <2>2
  <1> HIDE DEF step
  <1>5. \A i \in 0..n : g[i] \in R
    BY <1>1, <1>3
  <1>6. n # 0 => g[1] = seqs[1]
    <2> SUFFICES ASSUME n # 0 PROVE g[1] = seqs[1]
      OBVIOUS
    <2>1. 1 \in 1..n /\ 1 - 1 = 0
      BY <1>1
    <2>2. g[1] = <<>> \o seqs[1] /\ seqs[1] \in R
      BY <1>1, <1>3, <1>4, <2>1
    <2> HIDE DEF R
    <2> QED
      BY <2>2, ConcatEmptySeq DEF R
  <1> HIDE DEF R
  <1>7. FlattenSeq(seqs) = g[n]
    <2>1. CASE n = 0
      BY <1>3, <2>1 DEF FlattenSeq
    <2>2. CASE n # 0
      <3> DEFINE h == [i \in 1..n |-> g[i]]
                 F == CHOOSE x : Joins(x)
                 T == {i \in 0..n : i = 0 \/ F[i] = g[i]}
      <3>1. Joins(h)
        <4>1. h = [i \in 1..n |-> g[i]]
          OBVIOUS
        <4> HIDE DEF h
        <4>2. \A i \in 1..n : g[i] = IF i = 1 THEN seqs[i] ELSE h[i - 1] \o seqs[i]
          <5> TAKE i \in 1..n
          <5>1. CASE i = 1
            BY <1>6, <2>2, <5>1
          <5>2. CASE i # 1
            <6>1. i - 1 \in 1..n
              BY <1>1, <5>2
            <6>2. h[i - 1] = g[i - 1]
              BY <4>1, <6>1
            <6> QED
              BY <1>4, <5>2, <6>2
          <5> QED
            BY <5>1, <5>2
        <4> QED
          BY <4>1, <4>2
      <3>2. Joins(F)
        <4> HIDE DEF h
        <4> QED
          BY <3>1
      <3>3. FlattenSeq(seqs) = F[n]
        BY <2>2 DEF FlattenSeq
      <3>4. \A i \in 1..n : F[i] = IF i = 1 THEN seqs[i] ELSE F[i - 1] \o seqs[i]
        BY <3>2
      <3> HIDE DEF F
      <3>5. 0 \in T
        BY <1>1
      <3>6. ASSUME NEW i \in 0..n - 1, i \in T PROVE i + 1 \in T
        <4> DEFINE k == i + 1
        <4>1. k \in 1..n /\ k - 1 = i /\ (k = 1 <=> i = 0)
          BY <1>1
        <4> HIDE DEF k
        <4>2. F[k] = IF i = 0 THEN seqs[k] ELSE F[i] \o seqs[k]
          BY <3>4, <4>1
        <4>3. g[k] = g[i] \o seqs[k]
          BY <1>4, <4>1
        <4>4. F[k] = g[k]
          <5>1. CASE i = 0
            <6>1. k = 1
              BY <4>1, <5>1
            <6> QED
              BY <1>6, <2>2, <4>2, <5>1, <6>1
          <5>2. CASE i # 0
            BY <3>6, <4>1, <4>2, <4>3, <5>2
          <5> QED
            BY <5>1, <5>2
        <4> QED
          BY <4>1, <4>4 DEF k
      <3>7. \A i \in 0..n : i \in T
        <4> HIDE DEF T
        <4> QED
          BY <1>1, <3>5, <3>6, BoundedInduction
      <3> QED
        BY <1>1, <2>2, <3>3, <3>7
    <2> QED
      BY <2>1, <2>2
  <1> DEFINE f == [i \in 0..n |-> g[i]]
  <1>8. f \in [0..n -> R] /\ f[0] = <<>> /\ f[n] = g[n]
    BY <1>1, <1>3, <1>5
  <1>9. \A i \in 1..n : f[i] = f[i - 1] \o seqs[i]
    <2> TAKE i \in 1..n
    <2>1. i \in 0..n /\ i - 1 \in 0..n
      BY <1>1
    <2> QED
      BY <1>4, <2>1
  <1> HIDE DEF f
  <1> QED
    BY <1>7, <1>8, <1>9 DEF R

(* Sequences of one element at most, marked with the number of the         *)
(* sequence; and a sequence whose elements these marks tell apart.         *)
OneMarked(seqs, mark) ==
    \A i \in 1..Len(seqs) : /\ Len(seqs[i]) <= 1
                            /\ Len(seqs[i]) = 1 => mark[seqs[i][1]] = i
ToldApart(whole, mark, seqs) ==
    /\ \A k \in 1..Len(whole) : mark[whole[k]] \in 1..Len(seqs) /\ Len(seqs[mark[whole[k]]]) = 1
    /\ \A j, k \in 1..Len(whole) : mark[whole[j]] = mark[whole[k]] => j = k

(* Joined they are such a sequence.                                        *)
LEMMA FlattenOneEach ==
    ASSUME NEW S, NEW seqs \in Seq(Seq(S)), NEW mark \in [S -> Nat], OneMarked(seqs, mark)
    PROVE  FlattenSeq(seqs) \in Seq(S) /\ ToldApart(FlattenSeq(seqs), mark, seqs)
  <1> DEFINE n == Len(seqs)
             Told(s, m) == /\ \A k \in 1..Len(s) : mark[s[k]] \in 1..m /\ Len(seqs[mark[s[k]]]) = 1
                           /\ \A j, k \in 1..Len(s) : mark[s[j]] = mark[s[k]] => j = k
  <1>1. PICK f \in [0..n -> Seq(S)] :
              /\ f[0] = <<>>
              /\ \A i \in 1..n : f[i] = f[i - 1] \o seqs[i]
              /\ FlattenSeq(seqs) = f[n]
    BY FlattenSteps
  <1> DEFINE T == {i \in 0..n : Told(f[i], i)}
  <1>2. n \in Nat /\ \A i \in 1..n : seqs[i] \in Seq(S)
    OBVIOUS
  <1>m. \A i \in 1..n : Len(seqs[i]) <= 1 /\ (Len(seqs[i]) = 1 => mark[seqs[i][1]] = i)
    BY DEF OneMarked
  <1> HIDE DEF n
  <1>3. 0 \in T
    BY <1>1, <1>2
  <1>4. ASSUME NEW i \in 0..n - 1, i \in T PROVE i + 1 \in T
    <2> DEFINE m == i + 1
    <2>1. m \in 1..n /\ m - 1 = i /\ i \in 0..n /\ m \in 0..n /\ i \in Nat /\ m = i + 1
      BY <1>2
    <2> HIDE DEF m
    <2>2. f[m] = f[i] \o seqs[m] /\ f[i] \in Seq(S) /\ seqs[m] \in Seq(S) /\ f[m] \in Seq(S)
      BY <1>1, <1>2, <2>1
    <2>3. Told(f[i], i)
      BY <1>4
    <2>4. Len(seqs[m]) <= 1 /\ (Len(seqs[m]) = 1 => mark[seqs[m][1]] = m)
      BY <1>m, <2>1
    <2>j. \/ Len(seqs[m]) = 0 /\ f[m] = f[i]
          \/ /\ Len(seqs[m]) = 1 /\ Len(f[m]) = Len(f[i]) + 1
             /\ f[m][Len(f[i]) + 1] = seqs[m][1]
             /\ \A k \in 1..Len(f[i]) : f[m][k] = f[i][k]
      <3> DEFINE a == f[i]
                 b == seqs[m]
      <3>1. a \in Seq(S) /\ b \in Seq(S) /\ Len(b) <= 1 /\ f[m] = a \o b
        BY <2>2, <2>4
      <3> HIDE DEF a, b
      <3>2. \/ Len(b) = 0 /\ a \o b = a
            \/ /\ Len(b) = 1 /\ Len(a \o b) = Len(a) + 1
               /\ (a \o b)[Len(a) + 1] = b[1]
               /\ \A k \in 1..Len(a) : (a \o b)[k] = a[k]
        BY <3>1, JoinOne
      <3> QED
        BY <3>1, <3>2 DEF a, b
    <2>5. CASE Len(seqs[m]) = 0
      <3>1. f[m] = f[i] /\ 1..i \subseteq 1..m
        BY <2>1, <2>5, <2>j
      <3>2. Told(f[m], m)
        BY <2>3, <3>1
      <3> QED
        BY <2>1, <3>2 DEF m
    <2>6. CASE Len(seqs[m]) = 1
      <3> DEFINE l == Len(f[i])
      <3>1. l \in Nat /\ Len(f[m]) = l + 1 /\ f[m][l + 1] = seqs[m][1]
            /\ \A k \in 1..l : f[m][k] = f[i][k]
        <4>1. Len(f[i]) \in Nat
          BY <2>2
        <4> QED
          BY <2>6, <2>j, <4>1
      <3> HIDE DEF l
      <3>2. mark[f[m][l + 1]] = m
        BY <2>4, <2>6, <3>1
      <3>3. \A k \in 1..l : mark[f[m][k]] \in 1..i /\ Len(seqs[mark[f[m][k]]]) = 1
        BY <2>3, <3>1 DEF l
      <3>4. \A j, k \in 1..l : mark[f[m][j]] = mark[f[m][k]] => j = k
        BY <2>3, <3>1 DEF l
      <3>5. \A k \in 1..l + 1 : k \in 1..l \/ k = l + 1
        BY <3>1
      <3>6. \A k \in 1..l + 1 : mark[f[m][k]] \in 1..m /\ Len(seqs[mark[f[m][k]]]) = 1
        BY <2>1, <2>6, <3>2, <3>3, <3>5
      <3>7. \A k \in 1..l : mark[f[m][k]] # m
        BY <2>1, <3>3
      <3>8. \A j, k \in 1..l + 1 : mark[f[m][j]] = mark[f[m][k]] => j = k
        BY <3>2, <3>4, <3>5, <3>7
      <3>9. Told(f[m], m)
        BY <3>1, <3>6, <3>8
      <3> QED
        BY <2>1, <3>9 DEF m
    <2> QED
      BY <2>j, <2>5, <2>6
  <1>5. \A i \in 0..n : i \in T
    <2> HIDE DEF T
    <2> QED
      BY <1>2, <1>3, <1>4, BoundedInduction
  <1>6. Told(f[n], n) /\ f[n] \in Seq(S)
    <2>1. n \in 0..n
      BY <1>2
    <2> QED
      BY <1>1, <1>5, <2>1
  <1> QED
    BY <1>1, <1>6 DEF n, ToldApart
=============================================================================
