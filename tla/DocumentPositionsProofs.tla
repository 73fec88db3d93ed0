----------------------- MODULE DocumentPositionsProofs -----------------------
(***************************************************************************)
(* Positions are right in every document: first the conversions of         *)
(* PositionEncoding, for every line and every column, then the lines that  *)
(* TextLines cuts out of the text, for every text.                         *)
(*                                                                         *)
(* The inductive invariant of the conversions says what the loop has found *)
(* so far: the boundary it stands at is not past the argument, and a call  *)
(* that has returned stopped at the boundary its argument rounds down to.  *)
(* The lines are found by their offsets (LineStarts): what ContentLine     *)
(* returns and what the scan of lineUpToCharacter finds are both parts of  *)
(* the text between two of them.                                           *)
(***************************************************************************)
EXTENDS DocumentPositions, Recursion, TLAPS

-----------------------------------------------------------------------------
(* Where the call with this argument stopped, and what it returned.        *)
Converted(s, col, result) ==
    \E j \in Boundaries(line) :
        RoundsDownTo(s, col, j) /\ result = At(Other(s), j)

IInv ==
    /\ TypeOK
    /\ leg \in {1, 2} => At(From, k) <= Argument
    /\ leg >= 2 => Converted(scale, column, mid)
    /\ leg = 3 => Converted(Other(scale), mid, back)

-----------------------------------------------------------------------------
(* The columns of a line: natural numbers, in the same order on both scales *)
(* (utf16Width gives every rune a positive width on either).               *)
LEMMA LineColumns ==
    ASSUME TypeOK
    PROVE  /\ line.runes \in Nat
           /\ \A s \in Scales, j \in Boundaries(line) : At(s, j) \in Nat
           /\ \A s \in Scales : At(s, 0) = 0
           /\ \A s \in Scales, i, j \in Boundaries(line) :
                  i < j => At(s, i) < At(s, j)
  <1>1. IsLine(line)
    BY LinesAssumption DEF TypeOK
  <1> QED
    BY <1>1 DEF IsLine, At, Boundaries

(* Each conversion is from one scale to the other.                         *)
LEMMA ScaleSwap ==
    ASSUME NEW s \in Scales
    PROVE  Other(s) \in Scales /\ Other(Other(s)) = s
  BY DEF Scales, Other

(* A boundary is at most a column exactly when it is not after the boundary *)
(* the column rounds down to.                                              *)
LEMMA RoundedOrder ==
    ASSUME TypeOK, NEW s \in Scales, NEW col \in Nat,
           NEW j \in Boundaries(line), NEW p \in Boundaries(line),
           RoundsDownTo(s, col, j)
    PROVE  At(s, p) <= col <=> p <= j
  <1>1. /\ line.runes \in Nat /\ p \in Int /\ j \in Int
        /\ At(s, j) \in Nat /\ At(s, p) \in Nat
    BY LineColumns DEF Boundaries
  <1>2. CASE p <= j
    <2>1. At(s, p) <= At(s, j)
      BY <1>1, <1>2, LineColumns
    <2> QED
      BY <1>1, <1>2, <2>1 DEF RoundsDownTo
  <1>3. CASE p > j
    <2>1. j + 1 \in Boundaries(line) /\ col < At(s, j + 1)
      BY <1>1, <1>3 DEF RoundsDownTo, Boundaries
    <2>2. At(s, j + 1) \in Nat /\ At(s, j + 1) <= At(s, p)
      BY <1>1, <1>3, <2>1, LineColumns
    <2> QED
      BY <1>1, <1>3, <2>1, <2>2
  <1> QED
    BY <1>1, <1>2, <1>3

(* Columns compare alike on either scale.                                  *)
LEMMA SameOrder ==
    ASSUME TypeOK, NEW s \in Scales, NEW t \in Scales,
           NEW p \in Boundaries(line), NEW j \in Boundaries(line)
    PROVE  At(s, p) <= At(s, j) <=> At(t, p) <= At(t, j)
  <1>1. /\ At(s, p) \in Nat /\ At(s, j) \in Nat /\ At(t, p) \in Nat /\ At(t, j) \in Nat
        /\ p \in Int /\ j \in Int
    BY LineColumns DEF Boundaries
  <1> QED
    BY <1>1, LineColumns

(* Both loops break, or run out of runes, at the boundary their argument   *)
(* rounds down to (encoding.go:29-43, 50-64).                              *)
LEMMA BreakRoundsDown ==
    ASSUME IInv, leg \in {1, 2}, k < line.runes => Breaks
    PROVE  Converted(From, Argument, At(Other(From), k))
  <1>1. From \in Scales /\ Argument \in Nat /\ k \in Boundaries(line)
    BY ScaleSwap DEF IInv, TypeOK, From, Argument
  <1>2. line.runes \in Nat /\ k \in 0..line.runes /\ At(From, k) \in Nat
    BY <1>1, LineColumns DEF IInv, Boundaries
  <1>3. At(From, k) <= Argument
    BY DEF IInv
  <1>4. k = line.runes \/ Argument < At(From, k + 1)
    <2>1. CASE k < line.runes
      <3>1. At(From, k + 1) \in Nat
        BY <1>1, <1>2, <2>1, LineColumns DEF IInv, Boundaries
      <3>2. CASE From = "UTF-16"
        BY <1>1, <1>2, <2>1, <3>1, <3>2 DEF Breaks, UTF16Breaks
      <3>3. CASE From = "bytes"
        BY <1>1, <1>2, <2>1, <3>1, <3>3 DEF Breaks, ByteBreaks
      <3> QED
        BY <1>1, <3>2, <3>3 DEF Scales
    <2>2. CASE k = line.runes
      BY <2>2
    <2> QED
      BY <1>2, <2>1, <2>2
  <1> QED
    BY <1>1, <1>3, <1>4 DEF Converted, RoundsDownTo

(* IInv holds of the initial states.                                       *)
LEMMA InitIInv == Init => IInv
  <1> SUFFICES ASSUME Init PROVE IInv
    OBVIOUS
  <1>1. TypeOK
    <2>1. line.runes \in Nat
      BY LinesAssumption DEF Init, IsLine
    <2> QED
      BY <2>1, ColumnAssumption DEF Init, TypeOK, Boundaries
  <1>2. At(From, k) <= Argument
    BY <1>1, LineColumns DEF Init, From, Argument, TypeOK
  <1> QED
    BY <1>1, <1>2 DEF IInv, Init

(* Every step of a conversion preserves IInv.                              *)
LEMMA NextIInv == IInv /\ [Next]_vars => IInv'
  <1> SUFFICES ASSUME IInv, [Next]_vars PROVE IInv'
    OBVIOUS
  <1> USE DEF IInv
  <1>1. CASE DecodeRune
    <2>1. /\ From \in Scales /\ Argument \in Nat /\ line.runes \in Nat
          /\ k \in 0..line.runes /\ k < line.runes
      BY <1>1, LineColumns, ScaleSwap DEF DecodeRune, TypeOK, From, Argument, Boundaries
    <2>2. k + 1 \in Boundaries(line) /\ At(From, k) \in Nat /\ At(From, k + 1) \in Nat
      BY <2>1, LineColumns DEF Boundaries
    <2>3. TypeOK'
      BY <1>1, <2>2 DEF DecodeRune, TypeOK, Boundaries
    <2>4. At(From, k + 1) <= Argument
      <3>1. CASE From = "UTF-16"
        BY <1>1, <2>1, <2>2, <3>1 DEF DecodeRune, Breaks, UTF16Breaks
      <3>2. CASE From = "bytes"
        BY <1>1, <2>1, <2>2, <3>2 DEF DecodeRune, Breaks, ByteBreaks
      <3> QED
        BY <2>1, <3>1, <3>2 DEF Scales
    <2>5. (At(From, k) <= Argument)'
      BY <1>1, <2>4 DEF DecodeRune, At, From, Argument
    <2>6. (leg >= 2 => Converted(scale, column, mid))' /\ leg' # 3
      BY <1>1 DEF DecodeRune, Converted, RoundsDownTo, Boundaries, At
    <2> QED
      BY <2>3, <2>5, <2>6
  <1>2. CASE ReturnFirst
    <2>1. Converted(scale, column, At(Other(From), k)) /\ From = scale
      BY <1>2, BreakRoundsDown DEF ReturnFirst, From, Argument
    <2>2. At(Other(From), k) \in Nat /\ scale \in Scales /\ line.runes \in Nat
      BY <2>1, ScaleSwap, LineColumns DEF TypeOK
    <2>3. TypeOK'
      BY <1>2, <2>2 DEF ReturnFirst, TypeOK, Boundaries
    <2>4. Converted(scale, column, mid)'
      BY <1>2, <2>1 DEF ReturnFirst, Converted, RoundsDownTo, Boundaries, At
    <2>5. (At(From, k) <= Argument)'
      <3>1. At(Other(scale), 0) = 0
        BY <2>2, ScaleSwap, LineColumns
      <3> QED
        BY <1>2, <2>1, <2>2, <3>1 DEF ReturnFirst, At, From, Argument
    <2> QED
      BY <1>2, <2>3, <2>4, <2>5 DEF ReturnFirst
  <1>3. CASE ReturnSecond
    <2>1. /\ Converted(Other(scale), mid, At(Other(From), k))
          /\ From = Other(scale) /\ scale \in Scales
      BY <1>3, BreakRoundsDown DEF ReturnSecond, From, Argument, TypeOK
    <2>2. At(Other(From), k) \in Nat
      BY <2>1, ScaleSwap, LineColumns DEF TypeOK
    <2>3. TypeOK'
      BY <1>3, <2>2 DEF ReturnSecond, TypeOK, Boundaries
    <2>4. Converted(scale, column, mid)' /\ Converted(Other(scale), mid, back)'
      BY <1>3, <2>1 DEF ReturnSecond, Converted, RoundsDownTo, Boundaries, At
    <2> QED
      BY <1>3, <2>3, <2>4 DEF ReturnSecond
  <1>4. CASE UNCHANGED vars
    BY <1>4 DEF vars, TypeOK, Boundaries, Converted, RoundsDownTo, At, From, Argument
  <1> QED
    BY <1>1, <1>2, <1>3, <1>4 DEF Next

(* IInv holds throughout.                                                  *)
LEMMA Invariance == Spec => []IInv
  BY InitIInv, NextIInv, PTL DEF Spec

-----------------------------------------------------------------------------
(* Columns, runes and results stay in their types.                         *)
THEOREM TypeCorrect == Spec => []TypeOK
  <1>1. IInv => TypeOK
    BY DEF IInv
  <1> QED
    BY <1>1, Invariance, PTL

(* The unsigned subtraction of UTF16ToByte never wraps, on any line and for *)
(* any column (encoding.go:36).                                            *)
THEOREM Subtraction == Spec => []NoUnderflow
  <1>1. IInv => NoUnderflow
    BY DEF IInv, NoUnderflow
  <1> QED
    BY <1>1, Invariance, PTL

(* A conversion clamps past the end and rounds down inside a rune, on any   *)
(* line (encoding.go:24-64).                                               *)
THEOREM Rounding == Spec => []RoundsDown
  <1>1. IInv => RoundsDown
    BY DEF IInv, RoundsDown, Converted
  <1> QED
    BY <1>1, Invariance, PTL

(* There and back is the column rounded down, on any line                  *)
(* (encoding.go:45-49).                                                    *)
THEOREM Trip == Spec => []RoundTrip
  <1>1. ASSUME IInv, leg = 3 PROVE RoundTrip
    <2>1. TypeOK /\ scale \in Scales /\ column \in Nat /\ mid \in Nat
      BY <1>1 DEF IInv, TypeOK
    <2>2. PICK j \in Boundaries(line) :
              RoundsDownTo(scale, column, j) /\ mid = At(Other(scale), j)
      BY <1>1 DEF IInv, Converted
    <2>3. PICK i \in Boundaries(line) :
              RoundsDownTo(Other(scale), mid, i) /\ back = At(scale, i)
      BY <1>1, <2>1, ScaleSwap DEF IInv, Converted
    <2>4. j <= i
      <3>1. At(Other(scale), j) <= mid
        BY <2>1, <2>2, ScaleSwap, LineColumns
      <3> QED
        BY <2>1, <2>3, <3>1, ScaleSwap, RoundedOrder
    <2>5. i <= j
      <3>1. /\ At(Other(scale), i) <= At(Other(scale), j)
            /\ At(scale, i) \in Nat /\ At(scale, j) \in Nat
        BY <2>1, <2>2, <2>3, ScaleSwap, LineColumns DEF RoundsDownTo
      <3>2. At(scale, i) <= At(scale, j)
        BY <2>1, <3>1, ScaleSwap, SameOrder
      <3>3. At(scale, i) <= column
        BY <2>1, <2>2, <3>1, <3>2 DEF RoundsDownTo
      <3> QED
        BY <2>1, <2>2, <3>3, RoundedOrder
    <2>6. i = j
      BY <2>4, <2>5 DEF Boundaries
    <2> QED
      BY <2>2, <2>3, <2>6 DEF RoundTrip
  <1>2. IInv => RoundTrip
    BY <1>1 DEF RoundTrip
  <1> QED
    BY <1>2, Invariance, PTL

(* A cursor is inside a token on one scale exactly when its conversion is   *)
(* on the other, for any line and any token of it                          *)
(* (symbols.go:264-275 on server/encoding.go:64-72).                       *)
THEOREM Hits == Spec => []HitsSameToken
  <1>1. ASSUME IInv, leg >= 2 PROVE HitsSameToken
    <2>1. /\ TypeOK /\ scale \in Scales /\ Other(scale) \in Scales
          /\ column \in Nat /\ mid \in Nat
      BY <1>1, ScaleSwap DEF IInv, TypeOK
    <2>2. PICK j \in Boundaries(line) :
              RoundsDownTo(scale, column, j) /\ mid = At(Other(scale), j)
      BY <1>1 DEF IInv, Converted
    <2>3. ASSUME NEW p \in Boundaries(line)
          PROVE  /\ At(scale, p) <= column <=> At(Other(scale), p) <= mid
                 /\ At(scale, p) \in Nat /\ At(Other(scale), p) \in Nat
      <3>1. At(scale, p) <= column <=> p <= j
        BY <2>1, <2>2, RoundedOrder
      <3>2. /\ At(Other(scale), p) \in Nat /\ At(Other(scale), j) \in Nat
            /\ At(scale, p) \in Nat /\ p \in Int /\ j \in Int
        BY <2>1, LineColumns DEF Boundaries
      <3>3. At(Other(scale), p) <= At(Other(scale), j) <=> p <= j
        BY <2>1, <3>2, LineColumns
      <3> QED
        BY <2>2, <3>1, <3>2, <3>3
    <2>4. ASSUME NEW p \in Boundaries(line), NEW q \in Boundaries(line)
          PROVE  At(scale, p) <= column /\ column < At(scale, q)
                    <=> At(Other(scale), p) <= mid /\ mid < At(Other(scale), q)
      BY <2>1, <2>3
    <2> QED
      BY <2>4 DEF HitsSameToken
  <1>2. IInv => HitsSameToken
    BY <1>1 DEF HitsSameToken
  <1> QED
    BY <1>2, Invariance, PTL

-----------------------------------------------------------------------------
(* The lines of a text.                                                    *)
Bytes == {"x", "CR", "LF", "lead2", "lead3", "lead4", "cont"}
TextOK == content \in Seq(Bytes)

(* Every text is a sequence of bytes.                                      *)
LEMMA TextBytes == content \in Texts => TextOK
  <1> SUFFICES ASSUME content \in Texts PROVE TextOK
    OBVIOUS
  <1>0. PICK runes \in UNION {[1..n -> Runes] : n \in 0..MaxRunes} : content = FlattenSeq(runes)
    BY DEF Texts
  <1>1. PICK n \in 0..MaxRunes : runes \in [1..n -> Runes]
    BY <1>0
  <1>2. \A r \in Runes : r \in Seq(Bytes)
    <2>1. \A a, b, c, d \in Bytes :
              /\ <<a>> \in Seq(Bytes) /\ <<a, b>> \in Seq(Bytes)
              /\ <<a, b, c>> \in Seq(Bytes) /\ <<a, b, c, d>> \in Seq(Bytes)
      OBVIOUS
    <2>2. /\ "x" \in Bytes /\ "CR" \in Bytes /\ "LF" \in Bytes /\ "lead2" \in Bytes
          /\ "lead3" \in Bytes /\ "lead4" \in Bytes /\ "cont" \in Bytes
      BY DEF Bytes
    <2>3. /\ <<"x">> \in Seq(Bytes) /\ <<"CR">> \in Seq(Bytes) /\ <<"LF">> \in Seq(Bytes)
          /\ <<"lead2", "cont">> \in Seq(Bytes)
          /\ <<"lead3", "cont", "cont">> \in Seq(Bytes)
          /\ <<"lead4", "cont", "cont", "cont">> \in Seq(Bytes)
      BY <2>1, <2>2
    <2> QED
      BY <2>3, Zenon DEF Runes
  <1>3. n \in Nat /\ runes \in Seq(Seq(Bytes))
    <2>1. n \in Nat
      BY TextAssumption
    <2> QED
      BY <1>1, <1>2, <2>1
  <1>4. FlattenSeq(runes) \in Seq(Bytes)
    <2>1. PICK f \in [0..Len(runes) -> Seq(Bytes)] : FlattenSeq(runes) = f[Len(runes)]
      BY <1>3, FlattenSteps
    <2>2. Len(runes) \in 0..Len(runes)
      BY <1>3
    <2> QED
      BY <2>1, <2>2
  <1> QED
    BY <1>0, <1>4 DEF TextOK

IsLF(byte) == byte = "LF"
IsCR(byte) == byte = "CR"

(* The first LF of a text, if it has one.                                  *)
LEMMA FirstLF ==
    ASSUME NEW text \in Seq(Bytes)
    PROVE  \/ Segment(text) = 0 /\ \A i \in 1..Len(text) : ~IsLF(text[i])
           \/ /\ Segment(text) \in 1..Len(text) /\ IsLF(text[Segment(text)])
              /\ \A i \in 1..Segment(text) - 1 : ~IsLF(text[i])
  <1> DEFINE I == {i \in 1..Len(text) : IsLF(text[i])}
  <1>1. Segment(text) = IF I # {} THEN Min(I) ELSE 0
    BY DEF Segment, SelectInSeq, IsLF
  <1>2. Len(text) \in Nat
    OBVIOUS
  <1>3. CASE I = {}
    BY <1>1, <1>3
  <1>4. CASE I # {}
    <2>1. I \in SUBSET Nat
      BY <1>2
    <2>2. Min(I) \in I /\ \A i \in I : Min(I) <= i
      <3> HIDE DEF I
      <3>1. \E m \in I : \A i \in I : m <= i
        BY <1>4, <2>1, LeastMember
      <3> QED
        BY <3>1 DEF Min
    <2>3. \A i \in 1..Min(I) - 1 : i \in 1..Len(text) /\ ~(Min(I) <= i)
      BY <1>2, <2>2
    <2>4. \A i \in 1..Min(I) - 1 : ~IsLF(text[i])
      BY <2>2, <2>3
    <2> QED
      BY <1>1, <1>4, <2>2, <2>4
  <1> QED
    BY <1>3, <1>4

(* e is where the line that starts after p bytes ends: at its LF, or after  *)
(* the text.                                                               *)
IsEnd(p, e) ==
    /\ e \in p + 1..Len(content) + 1
    /\ \A i \in p + 1..e - 1 : ~IsLF(content[i])
    /\ e <= Len(content) => IsLF(content[e])
End(p) == CHOOSE e : IsEnd(p, e)

(* A line ends at one place.                                               *)
LEMMA OneEnd ==
    ASSUME TextOK, NEW p \in 0..Len(content), NEW e, IsEnd(p, e)
    PROVE  e = End(p)
  <1>1. IsEnd(p, End(p))
    BY DEF End
  <1> DEFINE d == End(p)
  <1> HIDE DEF d
  <1>2. IsEnd(p, d)
    BY <1>1 DEF d
  <1>3. Len(content) \in Nat /\ p \in Nat
    BY DEF TextOK
  <1>4. e = d
    BY <1>2, <1>3 DEF IsEnd
  <1> QED
    BY <1>4 DEF d

(* The number of bytes before the next line, and the last byte of this one. *)
After(p) == IF End(p) <= Len(content) THEN End(p) ELSE Len(content)
LastOf(p) == IF End(p) - 1 > p /\ IsCR(content[End(p) - 1]) THEN End(p) - 2 ELSE End(p) - 1

(* text is what follows p bytes.                                           *)
IsRest(text, p) ==
    /\ text \in Seq(Bytes)
    /\ Len(text) = Len(content) - p
    /\ \A i \in 1..Len(text) : text[i] = content[p + i]

(* text is the l bytes after p.                                            *)
IsPart(text, p, l) ==
    /\ text \in Seq(Bytes)
    /\ Len(text) = l
    /\ \A i \in 1..l : text[i] = content[p + i]

(* UpToLF returns the line and AfterLF what follows it.                    *)
LEMMA CutLine ==
    ASSUME TextOK, NEW p \in 0..Len(content), NEW text, IsRest(text, p)
    PROVE  /\ IsEnd(p, End(p))
           /\ IsPart(UpToLF(text), p, End(p) - 1 - p)
           /\ IsRest(AfterLF(text), After(p))
  <1> DEFINE n == Len(content)
             l == Len(text)
             g == Segment(text)
             e == IF g = 0 THEN n + 1 ELSE p + g
  <1>1. /\ n \in Nat /\ p \in 0..n /\ l = n - p /\ l \in Nat /\ text \in Seq(Bytes)
        /\ \A i \in 1..l : text[i] = content[p + i] /\ text[i] \in Bytes
    BY DEF TextOK, IsRest
  <1>2. \/ g = 0 /\ \A i \in 1..l : ~IsLF(text[i])
        \/ g \in 1..l /\ IsLF(text[g]) /\ \A i \in 1..g - 1 : ~IsLF(text[i])
    BY <1>1, FirstLF
  <1> HIDE DEF n, l, g
  <1>3. \A i \in p + 1..n : i - p \in 1..l /\ p + (i - p) = i /\ text[i - p] = content[i]
    BY <1>1
  <1>4. IsEnd(p, e)
    <2>1. e \in p + 1..n + 1
      BY <1>1, <1>2
    <2>2. \A i \in p + 1..e - 1 : ~IsLF(content[i])
      <3> TAKE i \in p + 1..e - 1
      <3>1. i \in p + 1..n /\ (g # 0 => i - p \in 1..g - 1)
        BY <1>1, <1>2
      <3> QED
        <4>1. content[i] = text[i - p]
          BY <1>3, <3>1
        <4>2. ~IsLF(text[i - p])
          <5> HIDE DEF e
          <5>1. i - p \in 1..l
            BY <1>3, <3>1
          <5> QED
            BY <1>2, <3>1, <5>1
        <4> QED
          BY <4>1, <4>2
    <2>3. e <= n => IsLF(content[e])
      BY <1>1, <1>2
    <2> QED
      BY <2>1, <2>2, <2>3 DEF IsEnd, n
  <1>5. End(p) = e
    BY <1>4, OneEnd
  <1>6. IsPart(UpToLF(text), p, e - 1 - p)
    <2>1. CASE g = 0
      BY <1>1, <2>1 DEF UpToLF, IsPart, g, l
    <2>2. CASE g # 0
      <3> DEFINE u == SubSeq(text, 1, g - 1)
      <3>1. g \in 1..l /\ e - 1 - p = g - 1 /\ g - 1 \in Nat /\ g - 1 \in Int
        BY <1>1, <1>2, <2>2
      <3>2. \A i \in 1..g - 1 : i \in 1..l /\ 1 + i - 1 = i
        BY <1>1, <3>1
      <3>3. u \in Seq(Bytes) /\ Len(u) = g - 1 /\ \A i \in 1..g - 1 : u[i] = text[i]
        <4>1. u \in Seq(Bytes) /\ Len(u) = (IF 1 <= g - 1 THEN g - 1 - 1 + 1 ELSE 0)
              /\ \A i \in 1..g - 1 - 1 + 1 : u[i] = text[1 + i - 1]
          BY <1>1, <3>1, <3>2, SubSeqProperties
        <4> HIDE DEF u
        <4> QED
          BY <3>1, <3>2, <4>1
      <3>4. UpToLF(text) = u
        BY <2>2 DEF UpToLF, g
      <3> HIDE DEF u, e
      <3> QED
        BY <1>1, <3>1, <3>2, <3>3, <3>4 DEF IsPart
    <2> QED
      BY <2>1, <2>2
  <1>7. IsRest(AfterLF(text), After(p))
    <2>1. CASE g = 0
      <3>1. AfterLF(text) = <<>> /\ After(p) = n
        BY <1>1, <1>5, <2>1 DEF AfterLF, After, g, n
      <3>2. <<>> \in Seq(Bytes) /\ Len(<<>>) = 0
        BY EmptySeq
      <3> QED
        BY <1>1, <3>1, <3>2 DEF IsRest, n
    <2>2. CASE g # 0
      <3> DEFINE r == SubSeq(text, g + 1, l)
                 q == p + g
      <3>1. g \in 1..l /\ q \in 1..n /\ l - g = n - q /\ l - g \in Nat
        BY <1>1, <1>2, <2>2
      <3>2. AfterLF(text) = r /\ After(p) = q
        <4>1. AfterLF(text) = r
          BY <2>2 DEF AfterLF, g, l
        <4>2. End(p) = q
          BY <1>5, <2>2
        <4> HIDE DEF r, q
        <4>3. End(p) <= Len(content)
          BY <3>1, <4>2 DEF n
        <4> QED
          BY <4>1, <4>2, <4>3 DEF After
      <3>3. \A i \in 1..l - g : g + i \in 1..l /\ g + 1 + i - 1 = g + i /\ p + (g + i) = q + i
        BY <1>1, <3>1
      <3>4. r \in Seq(Bytes) /\ Len(r) = l - g /\ \A i \in 1..l - g : r[i] = text[g + i]
        <4>0. g + 1 \in Int /\ l \in Int /\ \A i \in g + 1..l : text[i] \in Bytes
          BY <1>1, <3>1
        <4>1. r \in Seq(Bytes) /\ Len(r) = (IF g + 1 <= l THEN l - (g + 1) + 1 ELSE 0)
              /\ \A i \in 1..l - (g + 1) + 1 : r[i] = text[g + 1 + i - 1]
          BY <4>0, SubSeqProperties
        <4> HIDE DEF r
        <4> QED
          BY <1>1, <3>1, <3>3, <4>1
      <3> HIDE DEF r, q
      <3> QED
        BY <1>1, <3>1, <3>2, <3>3, <3>4 DEF IsRest, n
    <2> QED
      BY <2>1, <2>2
  <1> QED
    BY <1>4, <1>5, <1>6, <1>7

(* The CR that ends a line is not part of it.                              *)
LEMMA TrimLine ==
    ASSUME TextOK, NEW p \in 0..Len(content), IsEnd(p, End(p)),
           NEW text, IsPart(text, p, End(p) - 1 - p)
    PROVE  IsPart(TrimCR(text), p, LastOf(p) - p)
  <1> DEFINE e == End(p)
             l == e - 1 - p
             t == SubSeq(text, 1, l - 1)
  <1>1. /\ p \in Nat /\ e \in Nat /\ l \in Nat /\ text \in Seq(Bytes) /\ Len(text) = l
        /\ \A i \in 1..l : text[i] = content[p + i]
    BY DEF IsPart, IsEnd, TextOK
  <1>2. LastOf(p) = IF e - 1 > p /\ IsCR(content[e - 1]) THEN e - 2 ELSE e - 1
    BY DEF LastOf
  <1> HIDE DEF e
  <1>3. CASE e - 1 > p /\ IsCR(content[e - 1])
    <2>1. l > 0 /\ l \in 1..l /\ p + l = e - 1 /\ l - 1 = e - 2 - p /\ l - 1 \in Nat
      BY <1>1, <1>3
    <2>2. text # <<>> /\ Last(text) = content[e - 1] /\ Front(text) = t
      BY <1>1, <2>1, EmptySeq DEF Last, Front
    <2>3. TrimCR(text) = t
      BY <1>3, <2>2 DEF TrimCR, IsCR
    <2> HIDE DEF l
    <2>4. \A i \in 1..l - 1 : i \in 1..l /\ 1 + i - 1 = i /\ text[i] \in Bytes
      BY <1>1
    <2>5. t \in Seq(Bytes) /\ Len(t) = l - 1 /\ \A i \in 1..l - 1 : t[i] = text[i]
      <3>1. t \in Seq(Bytes) /\ Len(t) = (IF 1 <= l - 1 THEN l - 1 - 1 + 1 ELSE 0)
            /\ \A i \in 1..l - 1 - 1 + 1 : t[i] = text[1 + i - 1]
        BY <2>1, <2>4, SubSeqProperties
      <3> HIDE DEF t
      <3> QED
        BY <2>1, <2>4, <3>1
    <2> HIDE DEF t
    <2>6. LastOf(p) - p = l - 1
      BY <1>2, <1>3, <2>1
    <2> QED
      BY <1>1, <2>3, <2>4, <2>5, <2>6 DEF IsPart
  <1>4. CASE ~(e - 1 > p /\ IsCR(content[e - 1]))
    <2>1. LastOf(p) - p = l
      BY <1>1, <1>2, <1>4
    <2>2. TrimCR(text) = text
      <3>1. CASE l = 0
        BY <1>1, <3>1, EmptySeq DEF TrimCR
      <3>2. CASE l > 0
        <4>1. l \in 1..l /\ p + l = e - 1 /\ e - 1 > p
          BY <1>1, <3>2
        <4>2. ~IsCR(Last(text))
          BY <1>1, <1>4, <4>1 DEF Last
        <4> QED
          BY <4>2 DEF TrimCR, IsCR
      <3> QED
        BY <1>1, <3>1, <3>2
    <2> QED
      BY <1>1, <2>1, <2>2 DEF IsPart
  <1> QED
    BY <1>3, <1>4

(* at[n] is the number of bytes before line n.                             *)
LineStarts ==
    {at \in [Nat -> 0..Len(content)] : at[0] = 0 /\ \A n \in Nat : at[n + 1] = After(at[n])}

LEMMA LineStartsExist == TextOK => LineStarts # {}
  <1> SUFFICES ASSUME TextOK PROVE LineStarts # {}
    OBVIOUS
  <1> DEFINE S == 0..Len(content)
             zero == 0
             step == [n \in Nat |-> [p \in S |-> After(p)]]
  <1>1. zero \in S
    BY DEF TextOK
  <1>2. ASSUME NEW p \in S PROVE After(p) \in S
    <2>1. IsRest(SubSeq(content, p + 1, Len(content)), p)
      <3> DEFINE n == Len(content)
                 r == SubSeq(content, p + 1, n)
      <3>1. n \in Nat /\ p \in 0..n /\ p + 1 \in Int /\ n \in Int
            /\ \A i \in p + 1..n : content[i] \in Bytes
        BY DEF TextOK
      <3>2. r \in Seq(Bytes) /\ Len(r) = (IF p + 1 <= n THEN n - (p + 1) + 1 ELSE 0)
            /\ \A i \in 1..n - (p + 1) + 1 : r[i] = content[p + 1 + i - 1]
        <4> HIDE DEF n
        <4> QED
          BY <3>1, SubSeqProperties
      <3> HIDE DEF r, n
      <3>3. \A i \in 1..n - p : i \in 1..n - (p + 1) + 1 /\ p + 1 + i - 1 = p + i
        BY <3>1
      <3>4. Len(r) = n - p
        BY <3>1, <3>2
      <3> QED
        BY <3>2, <3>3, <3>4 DEF IsRest, r, n
    <2>2. IsEnd(p, End(p))
      BY <2>1, CutLine
    <2> QED
      BY <2>2 DEF After, IsEnd, TextOK
  <1>3. step \in [Nat -> [S -> S]]
    BY <1>2
  <1>4. PICK at : at \in Solutions(S, zero, step)
    <2> HIDE DEF S, zero, step
    <2> QED
      BY <1>1, <1>3, Recursive
  <1>5. at \in [Nat -> S] /\ at[0] = 0 /\ \A n \in Nat : at[n + 1] = step[n][at[n]]
    BY <1>4 DEF Solutions
  <1>6. \A n \in Nat : at[n + 1] = After(at[n])
    BY <1>5
  <1> QED
    BY <1>5, <1>6 DEF LineStarts

(* ContentLine(n) is the line that starts after at[n] bytes.               *)
LEMMA LineAt ==
    ASSUME TextOK, NEW at \in LineStarts, NEW n \in Nat
    PROVE  /\ IsEnd(at[n], End(at[n]))
           /\ IsPart(ContentLine(n), at[n], LastOf(at[n]) - at[n])
  <1> DEFINE S == Seq(Bytes)
             step == [j \in 1..n |-> [text \in S |-> AfterLF(text)]]
             Rests(h) == h = [j \in 0..n |-> IF j = 0 THEN content ELSE AfterLF(h[j - 1])]
             rest == CHOOSE h : Rests(h)
  <1>1. ContentLine(n) = TrimCR(UpToLF(rest[n]))
    BY DEF ContentLine
  <1>2. ASSUME NEW text \in S PROVE AfterLF(text) \in S
    <2>1. Len(text) \in Nat /\ \A i \in 1..Len(text) : text[i] \in Bytes
      OBVIOUS
    <2>2. CASE Segment(text) = 0
      BY <2>2, EmptySeq DEF AfterLF
    <2>3. CASE Segment(text) # 0
      <3>1. Segment(text) + 1 \in 1..Len(text) + 1
        BY <2>1, <2>3, FirstLF
      <3>2. \A i \in Segment(text) + 1..Len(text) : text[i] \in Bytes
        BY <2>1, <3>1
      <3>3. SubSeq(text, Segment(text) + 1, Len(text)) \in S
        BY <2>1, <3>1, <3>2, SubSeqProperties
      <3> QED
        BY <2>3, <3>3 DEF AfterLF
    <2> QED
      BY <2>2, <2>3
  <1>3. step \in [1..n -> [S -> S]] /\ content \in S
    BY <1>2 DEF TextOK
  <1>4. PICK f : f \in Recurrences(S, content, step, n)
    <2> HIDE DEF S, step
    <2> QED
      BY <1>3, BoundedRecursive
  <1>5. /\ f \in [0..n -> S]
        /\ f = [j \in 0..n |-> IF j = 0 THEN content ELSE step[j][f[j - 1]]]
    BY <1>4 DEF Recurrences
  <1> HIDE DEF S
  <1>6. \A j \in 0..n : j # 0 => step[j][f[j - 1]] = AfterLF(f[j - 1])
    <2> TAKE j \in 0..n
    <2> HAVE j # 0
    <2>1. j \in 1..n /\ j - 1 \in 0..n
      OBVIOUS
    <2> QED
      BY <1>5, <2>1
  <1> HIDE DEF step
  <1>7. Rests(f)
    BY <1>5, <1>6
  <1>8. Rests(rest)
    BY <1>7
  <1> HIDE DEF rest
  <1>9. rest[0] = content /\ \A j \in 1..n : rest[j] = AfterLF(rest[j - 1])
    <2>1. \A j \in 0..n : rest[j] = IF j = 0 THEN content ELSE AfterLF(rest[j - 1])
      BY <1>8
    <2>2. 0 \in 0..n /\ \A j \in 1..n : j \in 0..n /\ j # 0
      OBVIOUS
    <2> QED
      BY <2>1, <2>2
  <1>10. at \in [Nat -> 0..Len(content)] /\ at[0] = 0 /\ \A j \in Nat : at[j + 1] = After(at[j])
    BY DEF LineStarts
  <1> DEFINE T == {j \in 0..n : IsRest(rest[j], at[j])}
  <1>11. 0 \in T
    <2>1. content \in Seq(Bytes) /\ Len(content) \in Nat
      BY DEF TextOK
    <2>2. Len(content) = Len(content) - 0 /\ \A i \in 1..Len(content) : 0 + i = i
      BY <2>1
    <2>3. IsRest(content, 0)
      BY <2>1, <2>2 DEF IsRest
    <2>4. rest[0] = content /\ at[0] = 0 /\ 0 \in 0..n
      BY <1>9, <1>10
    <2>5. IsRest(rest[0], at[0])
      BY <2>3, <2>4, Zenon
    <2> QED
      BY <2>4, <2>5, Zenon
  <1>12. ASSUME NEW j \in 0..n - 1, j \in T PROVE j + 1 \in T
    <2> DEFINE m == j + 1
    <2>0. m \in 1..n /\ m \in 0..n /\ m - 1 = j /\ j \in Nat
      OBVIOUS
    <2>1. at[m] = After(at[j]) /\ at[j] \in 0..Len(content)
      BY <1>10, <2>0
    <2> HIDE DEF m
    <2>2. rest[m] = AfterLF(rest[j])
      BY <1>9, <2>0
    <2>3. IsRest(AfterLF(rest[j]), After(at[j]))
      BY <1>12, <2>1, CutLine
    <2> QED
      BY <2>0, <2>1, <2>2, <2>3 DEF m
  <1>13. \A j \in 0..n : j \in T
    <2> HIDE DEF T
    <2> QED
      BY <1>11, <1>12, BoundedInduction
  <1>14. IsRest(rest[n], at[n]) /\ at[n] \in 0..Len(content)
    <2>1. n \in T
      <3>1. n \in 0..n
        OBVIOUS
      <3> HIDE DEF T
      <3> QED
        BY <1>13, <3>1
    <2> QED
      BY <1>10, <2>1
  <1>15. IsEnd(at[n], End(at[n])) /\ IsPart(UpToLF(rest[n]), at[n], End(at[n]) - 1 - at[n])
    BY <1>14, CutLine
  <1> QED
    BY <1>1, <1>14, <1>15, TrimLine

-----------------------------------------------------------------------------
(* The scan of lineUpToCharacter, byte by byte.                            *)
ScanSet == [curLine : Nat, start : Nat, lineEnd : Nat]
NoScan == [curLine |-> 0, start |-> 0, lineEnd |-> 0]
ScanRuns(n) ==
    {f \in [0..Len(content) -> ScanSet] :
        f[0] = NoScan /\ \A i \in 1..Len(content) : f[i] = Scan(n, f[i - 1], i)}

LEMMA ScanSteps ==
    ASSUME TextOK, NEW n \in Nat
    PROVE  \E f \in ScanRuns(n) : ScanText(n) = f[Len(content)]
  <1> DEFINE l == Len(content)
             step == [i \in Nat |-> [scan \in ScanSet |-> Scan(n, scan, i)]]
             ids == [i \in DOMAIN content |-> i]
             Folds(h) == h = [s \in SUBSET (DOMAIN ids) |->
                                IF s = {} THEN NoScan
                                ELSE LET x == Max(s) IN Scan(n, h[s \ {x}], ids[x])]
             F == CHOOSE h : Folds(h)
  <1>1. l \in Nat /\ DOMAIN content = 1..l /\ DOMAIN ids = 1..l
    BY DEF TextOK
  <1>2. NoScan \in ScanSet
    BY DEF NoScan, ScanSet
  <1>3. ASSUME NEW i \in Nat, NEW scan \in ScanSet PROVE Scan(n, scan, i) \in ScanSet
    <2>1. /\ [scan EXCEPT !.lineEnd = i] \in ScanSet
          /\ [scan EXCEPT !.curLine = scan.curLine + 1, !.start = i] \in ScanSet
      <3>1. scan.curLine + 1 \in Nat
        BY DEF ScanSet
      <3>2. \A c \in Nat : [scan EXCEPT !.curLine = c, !.start = i] \in ScanSet
        BY DEF ScanSet
      <3>3. [scan EXCEPT !.lineEnd = i] \in ScanSet
        BY DEF ScanSet
      <3> QED
        BY <3>1, <3>2, <3>3
    <2>2. Scan(n, scan, i) \in
              {scan, [scan EXCEPT !.lineEnd = i],
               [scan EXCEPT !.curLine = scan.curLine + 1, !.start = i]}
      BY DEF Scan
    <2> QED
      BY <2>1, <2>2
  <1>4. step \in [Nat -> [ScanSet -> ScanSet]]
    BY <1>3
  <1> HIDE DEF l, ids
  <1>5. PICK iter : iter \in Foldings(ScanSet, NoScan, step, l)
    <2> HIDE DEF step
    <2> QED
      BY <1>1, <1>2, <1>4, FoldExists
  <1>6. /\ iter \in [SUBSET (1..l) -> ScanSet]
        /\ \A s \in SUBSET (1..l) :
              iter[s] = IF s = {} THEN NoScan ELSE step[Max(s)][iter[s \ {Max(s)}]]
    <2> HIDE DEF step
    <2> QED
      BY <1>5 DEF Foldings
  <1>7. Folds(iter)
    <2>1. ASSUME NEW s \in SUBSET (1..l), s # {}
          PROVE  iter[s] = Scan(n, iter[s \ {Max(s)}], ids[Max(s)])
      <3>1. Max(s) \in 1..l /\ Max(s) \in Nat
        <4>1. Max(s) \in s
          BY <1>1, <2>1, GreatestMember
        <4>2. Max(s) \in 1..l
          BY <4>1
        <4> QED
          BY <1>1, <4>2
      <3>2. ids[Max(s)] = Max(s)
        BY <1>1, <3>1 DEF ids
      <3>3. s \ {Max(s)} \in SUBSET (1..l)
        OBVIOUS
      <3>4. iter[s \ {Max(s)}] \in ScanSet
        BY <1>6, <3>3
      <3>5. iter[s] = Scan(n, iter[s \ {Max(s)}], Max(s))
        BY <1>6, <2>1, <3>1, <3>4
      <3> QED
        BY <3>2, <3>5
    <2> HIDE DEF step
    <2> QED
      BY <1>1, <1>6, <2>1
  <1> HIDE DEF step
  <1>8. Folds(F)
    BY <1>7
  <1>9. ScanText(n) = F[1..l]
    BY <1>1 DEF ScanText, FoldLeftDomain, FoldLeft, MapThenFoldSet, ids, NoScan
  <1> HIDE DEF F
  <1>10. F[{}] = NoScan
    BY <1>1, <1>8
  <1>11. ASSUME NEW i \in 1..l PROVE F[1..i] = Scan(n, F[1..i - 1], i)
    <2>1. 1..i \in SUBSET (1..l) /\ i \in Nat /\ i > 0
      BY <1>1
    <2>2. 1..i # {} /\ Max(1..i) = i /\ (1..i) \ {Max(1..i)} = 1..i - 1
      BY <2>1, MaxOfFirst
    <2>3. ids[i] = i
      BY <1>1 DEF ids
    <2> DEFINE s == 1..i
               x == Max(s)
    <2>4. F[s] = Scan(n, F[s \ {x}], ids[x])
      <3>1. s \in SUBSET (DOMAIN ids) /\ s # {}
        BY <1>1, <2>1, <2>2
      <3> HIDE DEF s
      <3> QED
        BY <1>8, <3>1
    <2> QED
      BY <2>2, <2>3, <2>4
  <1> DEFINE f == [i \in 0..l |-> F[1..i]]
             T == {i \in 0..l : f[i] \in ScanSet}
  <1>12. f[0] = NoScan /\ \A i \in 1..l : f[i] = Scan(n, f[i - 1], i)
    <2>1. 1..0 = {} /\ 0 \in 0..l
      BY <1>1
    <2>2. \A i \in 1..l : i \in 0..l /\ i - 1 \in 0..l
      BY <1>1
    <2> QED
      BY <1>10, <1>11, <2>1, <2>2
  <1> HIDE DEF f
  <1>13. 0 \in T
    BY <1>1, <1>2, <1>12
  <1>14. ASSUME NEW i \in 0..l - 1, i \in T PROVE i + 1 \in T
    <2> DEFINE k1 == i + 1
    <2>1. k1 \in 1..l /\ k1 - 1 = i /\ k1 \in Nat
      BY <1>1
    <2> HIDE DEF k1
    <2>2. f[k1] \in ScanSet
      BY <1>3, <1>12, <1>14, <2>1
    <2> QED
      BY <1>1, <2>1, <2>2 DEF k1
  <1>15. \A i \in 0..l : i \in T
    <2> HIDE DEF T
    <2> QED
      BY <1>1, <1>13, <1>14, BoundedInduction
  <1>16. f \in [0..l -> ScanSet] /\ f[l] = F[1..l]
    BY <1>1, <1>15 DEF f
  <1>17. f \in ScanRuns(n)
    BY <1>12, <1>16 DEF ScanRuns, l
  <1> QED
    BY <1>9, <1>16, <1>17 DEF l

(* What the scan for line n has found after i bytes: the start of the line  *)
(* it is on and, when that is the wanted one and has an LF, its end.       *)
Found(at, n, scan, i) ==
    /\ scan \in ScanSet
    /\ scan.curLine <= n /\ scan.start = at[scan.curLine]
    /\ scan.lineEnd = 0 =>
          scan.start <= i /\ \A j \in scan.start + 1..i : ~IsLF(content[j])
    /\ scan.lineEnd # 0 =>
          /\ scan.curLine = n /\ scan.lineEnd <= Len(content)
          /\ IsEnd(scan.start, scan.lineEnd)

LEMMA ScanFinds ==
    ASSUME TextOK, NEW at \in LineStarts, NEW n \in Nat
    PROVE  Found(at, n, ScanText(n), Len(content))
  <1> DEFINE l == Len(content)
  <1>1. PICK f \in ScanRuns(n) : ScanText(n) = f[l]
    BY ScanSteps
  <1>2. /\ f \in [0..l -> ScanSet] /\ f[0] = NoScan
        /\ \A i \in 1..l : f[i] = Scan(n, f[i - 1], i)
    BY DEF ScanRuns
  <1>3. at \in [Nat -> 0..l] /\ at[0] = 0 /\ \A j \in Nat : at[j + 1] = After(at[j])
    BY DEF LineStarts
  <1>4. l \in Nat
    BY DEF TextOK
  <1> DEFINE T == {i \in 0..l : Found(at, n, f[i], i)}
  <1>5. 0 \in T
    <2>1. Found(at, n, NoScan, 0)
      BY <1>3, <1>4 DEF Found, NoScan, ScanSet
    <2>2. f[0] = NoScan /\ 0 \in 0..l
      BY <1>2, <1>4
    <2>3. Found(at, n, f[0], 0)
      BY <2>1, <2>2, Zenon
    <2> QED
      BY <2>2, <2>3, Zenon
  <1>6. ASSUME NEW i \in 0..l - 1, i \in T PROVE i + 1 \in T
    <2> DEFINE m == i + 1
               scan == f[i]
    <2>1. m \in 1..l /\ m \in 0..l /\ m - 1 = i /\ i \in Nat /\ m = i + 1
      BY <1>4
    <2> HIDE DEF m
    <2>2. Found(at, n, scan, i) /\ f[m] = Scan(n, scan, m)
      BY <1>2, <1>6, <2>1
    <2> HIDE DEF scan, l
    <2>3. Found(at, n, Scan(n, scan, m), m)
      <3>1. CASE scan.lineEnd # 0
        BY <2>2, <3>1 DEF Found, Scan
      <3>2. CASE scan.lineEnd = 0 /\ ~IsLF(content[m])
        <4>1. Scan(n, scan, m) = scan
          BY <3>2 DEF Scan, IsLF
        <4>2. scan.start \in Nat /\ \A j \in scan.start + 1..m : j \in scan.start + 1..i \/ j = m
          BY <2>1, <2>2 DEF Found, ScanSet
        <4> QED
          BY <2>1, <2>2, <3>2, <4>1, <4>2 DEF Found
      <3>3. CASE scan.lineEnd = 0 /\ IsLF(content[m])
        <4> DEFINE p == scan.start
                   c == scan.curLine
        <4>1. /\ p \in Nat /\ p <= i /\ c \in Nat /\ c <= n /\ p = at[c] /\ p \in 0..l
              /\ \A j \in p + 1..i : ~IsLF(content[j])
          BY <1>3, <2>2, <3>3 DEF Found, ScanSet
        <4> HIDE DEF p, c
        <4>2. IsEnd(p, m)
          <5>1. m \in p + 1..Len(content) + 1 /\ m <= Len(content) /\ m - 1 = i
            BY <2>1, <4>1, <1>4 DEF l
          <5> QED
            BY <3>3, <4>1, <5>1 DEF IsEnd
        <4>3. m = End(p) /\ After(p) = m
          <5>1. m = End(p)
            BY <4>1, <4>2, OneEnd DEF l
          <5>2. m <= Len(content)
            BY <1>4, <2>1 DEF l
          <5> QED
            BY <5>1, <5>2 DEF After
        <4>4. CASE c = n
          <5>1. Scan(n, scan, m) = [scan EXCEPT !.lineEnd = m]
            BY <3>3, <4>4 DEF Scan, IsLF, c
          <5>2. m # 0 /\ m \in Nat /\ m <= Len(content)
            BY <1>4, <2>1 DEF l
          <5> QED
            BY <2>2, <4>1, <4>2, <4>4, <5>1, <5>2 DEF Found, ScanSet, p, c
        <4>5. CASE c # n
          <5>1. Scan(n, scan, m) = [scan EXCEPT !.curLine = c + 1, !.start = m]
            BY <3>3, <4>5 DEF Scan, IsLF, c
          <5>2. c + 1 \in Nat /\ c + 1 <= n /\ at[c + 1] = m /\ m \in Nat /\ m + 1..m = {}
            BY <1>3, <2>1, <4>1, <4>3, <4>5
          <5> DEFINE new == [scan EXCEPT !.curLine = c + 1, !.start = m]
          <5>3. /\ new \in ScanSet /\ new.curLine = c + 1 /\ new.start = m
                /\ new.lineEnd = 0
            BY <2>2, <3>3, <5>2 DEF Found, ScanSet
          <5> HIDE DEF new
          <5>4. new.start <= m /\ new.start + 1..m = {}
            BY <5>2, <5>3
          <5>5. Found(at, n, new, m)
            BY <5>2, <5>3, <5>4 DEF Found
          <5> QED
            BY <5>1, <5>5 DEF new
        <4> QED
          BY <4>4, <4>5
      <3> QED
        BY <3>1, <3>2, <3>3
    <2>4. Found(at, n, f[m], m)
      BY <2>2, <2>3, Zenon
    <2> QED
      BY <2>1, <2>4 DEF m
  <1>7. \A i \in 0..l : i \in T
    <2> HIDE DEF T
    <2> QED
      BY <1>4, <1>5, <1>6, BoundedInduction
  <1>8. l \in T
    <2> HIDE DEF T
    <2> QED
      BY <1>4, <1>7
  <1> QED
    BY <1>1, <1>8, Zenon

(* After the last byte there is nothing but one empty line.                *)
LEMMA EmptyEnd == TextOK => End(Len(content)) = Len(content) + 1
  <1> SUFFICES ASSUME TextOK PROVE End(Len(content)) = Len(content) + 1
    OBVIOUS
  <1> DEFINE n == Len(content)
  <1>1. n \in Nat /\ n \in 0..n /\ n + 1 \in n + 1..n + 1 /\ n + 1..(n + 1) - 1 = {}
    BY DEF TextOK
  <1>2. IsEnd(n, n + 1)
    <2> HIDE DEF n
    <2>1. n + 1 \in n + 1..n + 1 /\ \A i \in n + 1..(n + 1) - 1 : ~IsLF(content[i])
      BY <1>1
    <2>2. ~(n + 1 <= n)
      BY <1>1
    <2> QED
      BY <2>1, <2>2 DEF IsEnd, n
  <1> QED
    BY <1>1, <1>2, OneEnd

(* Every line after the last starts at the end of the text.                *)
LEMMA PastTheEnd ==
    ASSUME TextOK, NEW at \in LineStarts, NEW c \in Nat, End(at[c]) = Len(content) + 1,
           NEW n \in Nat, n > c
    PROVE  at[n] = Len(content)
  <1> DEFINE l == Len(content)
             T == {d \in Nat : at[c + 1 + d] = l}
  <1>1. at \in [Nat -> 0..l] /\ \A j \in Nat : at[j + 1] = After(at[j])
    BY DEF LineStarts
  <1>2. l \in Nat
    BY DEF TextOK
  <1>3. After(at[c]) = l /\ After(l) = l
    <2>1. End(l) = l + 1
      BY EmptyEnd
    <2>2. ~(l + 1 <= l)
      BY <1>2
    <2> QED
      BY <2>1, <2>2 DEF After
  <1> HIDE DEF l
  <1>4. 0 \in T
    <2>1. c + 1 + 0 = c + 1
      OBVIOUS
    <2> QED
      BY <1>1, <1>3, <2>1
  <1>5. ASSUME NEW d \in Nat, d \in T PROVE d + 1 \in T
    <2>1. c + 1 + (d + 1) = (c + 1 + d) + 1 /\ c + 1 + d \in Nat
      OBVIOUS
    <2> QED
      BY <1>1, <1>3, <1>5, <2>1
  <1>6. \A d \in Nat : d \in T
    <2> HIDE DEF T
    <2> QED
      BY <1>4, <1>5, Induction
  <1>7. n - c - 1 \in Nat /\ c + 1 + (n - c - 1) = n
    OBVIOUS
  <1> QED
    BY <1>6, <1>7 DEF l

(* A part of a sequence.                                                   *)
LEMMA PartOf ==
    ASSUME NEW s, NEW p \in Nat, NEW c \in Nat, \A i \in p + 1..p + c : s[i] \in Bytes
    PROVE  /\ SubSeq(s, p + 1, p + c) \in Seq(Bytes)
           /\ Len(SubSeq(s, p + 1, p + c)) = c
           /\ \A i \in 1..c : SubSeq(s, p + 1, p + c)[i] = s[p + i]
  <1> DEFINE a == p + 1
             b == p + c
             u == SubSeq(s, a, b)
  <1>1. /\ a \in Int /\ b \in Int /\ b - a + 1 = c
        /\ (IF a <= b THEN b - a + 1 ELSE 0) = c
        /\ \A i \in 1..c : a + i - 1 = p + i
    OBVIOUS
  <1> HIDE DEF a, b
  <1>2. \A i \in a..b : s[i] \in Bytes
    BY DEF a, b
  <1>3. /\ u \in Seq(Bytes) /\ Len(u) = (IF a <= b THEN b - a + 1 ELSE 0)
        /\ \A i \in 1..b - a + 1 : u[i] = s[a + i - 1]
    BY <1>1, <1>2, SubSeqProperties
  <1> HIDE DEF u
  <1>4. Len(u) = c /\ \A i \in 1..c : u[i] = s[p + i]
    <2>1. Len(u) = c
      BY <1>1, <1>3
    <2>2. \A i \in 1..c : u[i] = s[p + i]
      BY <1>1, <1>3
    <2> QED
      BY <2>1, <2>2
  <1> QED
    BY <1>3, <1>4 DEF u, a, b

(* lineUpToCharacter returns the first c bytes of the line ContentLine      *)
(* returns, for every c that is on it, and of an empty line past the end.   *)
LEMMA UpToCharacter ==
    ASSUME TextOK, NEW n \in Nat, NEW c \in Nat, c <= Len(ContentLine(n))
    PROVE  lineUpToCharacter(n, c) = SubSeq(ContentLine(n), 1, c)
  <1>1. PICK at : at \in LineStarts
    BY LineStartsExist
  <1> DEFINE l == Len(content)
             text == ContentLine(n)
             p == at[n]
             e == End(p)
             end == ScanText(n)
             lineEnd == IF end.lineEnd # 0 THEN end.lineEnd - 1 ELSE l
             t == SubSeq(text, 1, c)
  <1>2. /\ l \in Nat /\ p \in 0..l /\ \A i \in 1..l : content[i] \in Bytes
        /\ \A j \in Nat : at[j] \in 0..l
    <2>1. \A j \in Nat : at[j] \in 0..l
      BY <1>1 DEF LineStarts
    <2>2. l \in Nat /\ \A i \in 1..l : content[i] \in Bytes
      BY DEF TextOK
    <2> QED
      BY <2>1, <2>2
  <1>3. IsEnd(p, e) /\ IsPart(text, p, LastOf(p) - p)
    BY <1>1, LineAt
  <1>4. /\ text \in Seq(Bytes) /\ e \in p + 1..l + 1 /\ Len(text) \in Nat
        /\ Len(text) <= e - 1 - p
        /\ \A i \in 1..Len(text) : text[i] = content[p + i] /\ text[i] \in Bytes
    <2>1. e \in p + 1..l + 1 /\ text \in Seq(Bytes) /\ Len(text) = LastOf(p) - p
          /\ \A i \in 1..Len(text) : text[i] = content[p + i]
      BY <1>3 DEF IsEnd, IsPart
    <2>2. LastOf(p) <= e - 1 /\ LastOf(p) \in Int
      BY <1>2, <2>1 DEF LastOf
    <2>3. Len(text) \in Nat /\ \A i \in 1..Len(text) : text[i] \in Bytes
      BY <2>1
    <2> HIDE DEF text, e, p
    <2> QED
      BY <1>2, <2>1, <2>2, <2>3
  <1>5. Found(at, n, end, l)
    BY <1>1, ScanFinds
  <1>6. lineUpToCharacter(n, c) =
            IF end.lineEnd = 0 /\ end.curLine # n THEN <<>>
            ELSE IF c < lineEnd - end.start
            THEN SubSeq(content, end.start + 1, end.start + c)
            ELSE SubSeq(content, end.start + 1, lineEnd)
    BY DEF lineUpToCharacter
  <1> HIDE DEF text, end, l
  <1>7. t \in Seq(Bytes) /\ Len(t) = c /\ \A i \in 1..c : t[i] = content[p + i]
    <2>1. \A i \in 1..c : i \in 1..Len(text)
      BY <1>4 DEF text
    <2>2. 0 + 1 = 1 /\ 0 + c = c /\ \A i \in 1..c : 0 + i = i
      OBVIOUS
    <2>3. \A i \in 0 + 1..0 + c : text[i] \in Bytes
      BY <1>4, <2>1, <2>2
    <2>4. t \in Seq(Bytes) /\ Len(t) = c /\ \A i \in 1..c : t[i] = text[i]
      <3>1. /\ SubSeq(text, 0 + 1, 0 + c) \in Seq(Bytes)
            /\ Len(SubSeq(text, 0 + 1, 0 + c)) = c
            /\ \A i \in 1..c : SubSeq(text, 0 + 1, 0 + c)[i] = text[0 + i]
        BY <2>3, PartOf
      <3> QED
        BY <2>2, <3>1
    <2> HIDE DEF t
    <2> QED
      BY <1>4, <2>1, <2>4
  <1>8. end \in ScanSet /\ end.start = at[end.curLine] /\ end.curLine <= n
    BY <1>5 DEF Found
  <1>9. IF end.lineEnd = 0 THEN End(end.start) = l + 1 ELSE End(end.start) = end.lineEnd
    <2>1. end.start \in 0..l
      BY <1>2, <1>8 DEF ScanSet
    <2>2. CASE end.lineEnd = 0
      <3>1. \A j \in end.start + 1..l : ~IsLF(content[j])
        BY <1>5, <2>2 DEF Found
      <3>2. l + 1 \in end.start + 1..l + 1 /\ (l + 1) - 1 = l /\ ~(l + 1 <= l)
        BY <1>2, <2>1
      <3>3. IsEnd(end.start, l + 1)
        BY <3>1, <3>2 DEF IsEnd, l
      <3> QED
        BY <2>1, <2>2, <3>3, OneEnd DEF l
    <2>3. CASE end.lineEnd # 0
      BY <1>5, <2>1, <2>3, OneEnd DEF Found, l
    <2> QED
      BY <2>2, <2>3
  <1>10. CASE end.lineEnd = 0 /\ end.curLine # n
    <2>1. end.curLine \in Nat /\ n > end.curLine
      BY <1>8, <1>10 DEF ScanSet
    <2>2. p = l
      BY <1>1, <1>8, <1>9, <1>10, <2>1, PastTheEnd DEF l
    <2>3. c = 0
      <3>1. Len(text) = 0
        BY <1>2, <1>4, <2>2
      <3> QED
        BY <3>1 DEF text
    <2>4. t = <<>>
      BY <1>7, <2>3, EmptySeq
    <2> QED
      BY <1>6, <1>10, <2>4 DEF text
  <1>11. CASE ~(end.lineEnd = 0 /\ end.curLine # n)
    <2>1. end.curLine = n /\ end.start = p /\ lineEnd = e - 1
      <3>1. end.curLine = n
        BY <1>5, <1>11 DEF Found
      <3>2. end.start = p
        BY <1>8, <3>1
      <3>3. end.lineEnd = 0 => e = l + 1
        BY <1>9, <3>2
      <3>4. end.lineEnd # 0 => e = end.lineEnd
        BY <1>9, <3>2
      <3> QED
        BY <1>2, <3>1, <3>2, <3>3, <3>4
    <2> DEFINE u == SubSeq(content, p + 1, p + c)
    <2>2. c <= e - 1 - p /\ p + c <= l /\ e \in Nat /\ p \in Nat
      BY <1>2, <1>4 DEF text
    <2>3. lineUpToCharacter(n, c) = u
      <3>1. CASE c < e - 1 - p
        BY <1>6, <1>11, <2>1, <3>1
      <3>2. CASE ~(c < e - 1 - p)
        <4> HIDE DEF p, e
        <4>1. e - 1 = p + c
          BY <2>2, <3>2
        <4>2. lineUpToCharacter(n, c) = SubSeq(content, p + 1, e - 1)
          BY <1>6, <1>11, <2>1, <3>2
        <4> QED
          BY <4>1, <4>2
      <3> QED
        BY <3>1, <3>2
    <2>4. u \in Seq(Bytes) /\ Len(u) = c /\ \A i \in 1..c : u[i] = content[p + i]
      <3> HIDE DEF p
      <3>1. \A i \in p + 1..p + c : content[i] \in Bytes
        BY <1>2, <2>2
      <3> QED
        BY <2>2, <3>1, PartOf
    <2> HIDE DEF u, t
    <2>5. t = u
      BY <1>7, <2>4, SeqEqual
    <2> QED
      BY <2>3, <2>5 DEF t, text
  <1> QED
    BY <1>10, <1>11

-----------------------------------------------------------------------------
(* The runes of a text and of its lines.                                   *)
Width(byte) == RuneOf(byte).bytes

LEMMA RuneKinds ==
    ASSUME NEW b \in Bytes
    PROVE  RuneOf(b) \in RuneWidths /\ Width(b) \in 1..4 /\ RuneOf(b).units \in 1..2
  <1>1. CASE b = "lead4"
    BY <1>1 DEF RuneOf, RuneWidths, Width
  <1>2. CASE b = "lead3"
    BY <1>2 DEF RuneOf, RuneWidths, Width
  <1>3. CASE b = "lead2"
    BY <1>3 DEF RuneOf, RuneWidths, Width
  <1>4. CASE b \notin {"lead2", "lead3", "lead4"}
    BY <1>4 DEF RuneOf, RuneWidths, Width
  <1> QED
    BY <1>1, <1>2, <1>3, <1>4

(* The rune that starts at p is whole, and another one follows it.         *)
IsRune(s, p) ==
    /\ p + Width(s[p]) - 1 <= Len(s)
    /\ \A i \in p + 1..p + Width(s[p]) - 1 : s[i] = "cont"
    /\ p + Width(s[p]) <= Len(s) => s[p + Width(s[p])] # "cont"

(* A sequence of bytes that is one of runes.                               *)
Proper(s) ==
    /\ s \in Seq(Bytes)
    /\ Len(s) > 0 => s[1] # "cont"
    /\ \A p \in 1..Len(s) : s[p] # "cont" => IsRune(s, p)

LEMMA OneRune ==
    ASSUME NEW r \in Runes
    PROVE  /\ r \in Seq(Bytes) /\ Len(r) \in 1..4 /\ r[1] # "cont" /\ Width(r[1]) = Len(r)
           /\ \A i \in 2..Len(r) : r[i] = "cont"
  <1> USE DEF Bytes, Width, RuneOf
  <1>1. CASE r \in {<<"x">>, <<"CR">>, <<"LF">>}
    <2>1. CASE r = <<"x">>
      BY <2>1
    <2>2. CASE r = <<"CR">>
      BY <2>2
    <2>3. CASE r = <<"LF">>
      BY <2>3
    <2> QED
      BY <1>1, <2>1, <2>2, <2>3
  <1>2. CASE r = <<"lead2", "cont">>
    BY <1>2
  <1>3. CASE r = <<"lead3", "cont", "cont">>
    BY <1>3
  <1>4. CASE r = <<"lead4", "cont", "cont", "cont">>
    BY <1>4
  <1> QED
    BY <1>1, <1>2, <1>3, <1>4 DEF Runes

LEMMA AppendRune ==
    ASSUME NEW s, Proper(s), NEW r \in Runes
    PROVE  Proper(s \o r)
  <1> DEFINE n == Len(s)
             m == Len(r)
             t == s \o r
  <1>1. /\ r \in Seq(Bytes) /\ m \in 1..4 /\ r[1] # "cont" /\ Width(r[1]) = m
        /\ \A i \in 2..m : r[i] = "cont"
    BY OneRune
  <1>2. /\ s \in Seq(Bytes) /\ n \in Nat /\ (n > 0 => s[1] # "cont")
        /\ \A p \in 1..n : s[p] \in Bytes /\ (s[p] # "cont" => IsRune(s, p))
    BY DEF Proper
  <1>3. /\ t \in Seq(Bytes) /\ Len(t) = n + m
        /\ \A i \in 1..n + m : t[i] = IF i <= n THEN s[i] ELSE r[i - n]
    BY <1>1, <1>2, ConcatProperties
  <1> HIDE DEF n, m, t
  <1>4. t[n + 1] # "cont" /\ \A i \in 1..n : t[i] = s[i]
    BY <1>1, <1>2, <1>3
  <1>5. t[1] # "cont"
    BY <1>1, <1>2, <1>3, <1>4
  <1>6. ASSUME NEW p \in 1..n + m, t[p] # "cont" PROVE IsRune(t, p)
    <2>1. CASE p <= n
      <3> DEFINE w == Width(s[p])
      <3>1. p \in 1..n /\ t[p] = s[p] /\ IsRune(s, p) /\ w \in 1..4
        BY <1>2, <1>3, <1>6, <2>1, RuneKinds
      <3> HIDE DEF w
      <3>2. /\ p + w - 1 <= n
            /\ \A i \in p + 1..p + w - 1 : s[i] = "cont"
            /\ p + w <= n => s[p + w] # "cont"
        BY <3>1 DEF IsRune, w, n
      <3>3. p + w - 1 <= n + m
        BY <1>1, <1>2, <3>1, <3>2
      <3>4. \A i \in p + 1..p + w - 1 : t[i] = "cont"
        BY <1>2, <1>4, <3>1, <3>2
      <3>5. p + w <= n + m => t[p + w] # "cont"
        <4>1. CASE p + w <= n
          BY <1>4, <3>1, <3>2, <4>1
        <4>2. CASE p + w = n + 1
          BY <1>4, <4>2
        <4> QED
          BY <1>2, <3>1, <3>2, <4>1, <4>2
      <3> QED
        BY <1>3, <3>1, <3>3, <3>4, <3>5 DEF IsRune, w
    <2>2. CASE p > n
      <3>1. p - n \in 1..m /\ t[p] = r[p - n]
        <4>1. p \in 1..n + m /\ p - n \in 1..m /\ ~(p <= n)
          BY <1>1, <1>2, <2>2
        <4> QED
          BY <1>3, <4>1
      <3>2. p = n + 1 /\ t[p] = r[1]
        BY <1>1, <1>2, <1>6, <3>1
      <3>3. \A i \in n + 2..n + m : t[i] = "cont"
        <4> TAKE i \in n + 2..n + m
        <4>1. i \in 1..n + m /\ ~(i <= n) /\ i - n \in 2..m
          BY <1>1, <1>2
        <4> QED
          BY <1>1, <1>3, <4>1
      <3>4. /\ p + m - 1 = n + m /\ p + 1 = n + 2 /\ ~(p + m <= n + m)
        BY <1>1, <1>2, <3>2
      <3> QED
        BY <1>1, <1>3, <3>2, <3>3, <3>4 DEF IsRune
    <2> QED
      BY <1>2, <2>1, <2>2
  <1> QED
    BY <1>3, <1>5, <1>6 DEF Proper, t

LEMMA TextProper == content \in Texts => Proper(content)
  <1> SUFFICES ASSUME content \in Texts PROVE Proper(content)
    OBVIOUS
  <1>1. PICK runes \in UNION {[1..n -> Runes] : n \in 0..MaxRunes} : content = FlattenSeq(runes)
    BY DEF Texts
  <1>2. PICK n \in 0..MaxRunes : runes \in [1..n -> Runes]
    BY <1>1
  <1>3. n \in Nat /\ Len(runes) = n /\ runes \in Seq(Seq(Bytes))
    <2>1. n \in Nat
      BY TextAssumption
    <2>2. \A r \in Runes : r \in Seq(Bytes)
      BY OneRune
    <2> QED
      BY <1>2, <2>1, <2>2
  <1>4. PICK f \in [0..Len(runes) -> Seq(Bytes)] :
            /\ f[0] = <<>>
            /\ \A i \in 1..Len(runes) : f[i] = f[i - 1] \o runes[i]
            /\ FlattenSeq(runes) = f[Len(runes)]
    BY <1>3, FlattenSteps
  <1> DEFINE T == {i \in 0..n : Proper(f[i])}
  <1>5. 0 \in T
    <2>1. <<>> \in Seq(Bytes) /\ Len(<<>>) = 0
      BY EmptySeq
    <2>2. Proper(<<>>)
      BY <2>1 DEF Proper
    <2>3. f[0] = <<>> /\ 0 \in 0..n
      BY <1>3, <1>4
    <2>4. Proper(f[0])
      BY <2>2, <2>3, Zenon
    <2> QED
      BY <2>3, <2>4, Zenon
  <1>6. ASSUME NEW i \in 0..n - 1, i \in T PROVE i + 1 \in T
    <2> DEFINE j == i + 1
    <2>1. j \in 1..n /\ j \in 0..n /\ j - 1 = i
      BY <1>3
    <2> HIDE DEF j
    <2>2. f[j] = f[i] \o runes[j] /\ runes[j] \in Runes
      BY <1>2, <1>3, <1>4, <2>1
    <2>3. Proper(f[i])
      BY <1>6
    <2>4. Proper(f[j])
      BY <2>2, <2>3, AppendRune
    <2> QED
      BY <2>1, <2>4 DEF j
  <1>7. \A i \in 0..n : i \in T
    <2> HIDE DEF T
    <2> QED
      BY <1>3, <1>5, <1>6, BoundedInduction
  <1>8. Proper(f[n])
    <2>1. n \in 0..n
      BY <1>3
    <2> QED
      BY <1>7, <2>1
  <1> QED
    BY <1>1, <1>3, <1>4, <1>8

(* A line starts after an LF and ends before a terminator, so no rune of   *)
(* the text is cut in two.                                                 *)
LEMMA LineProper ==
    ASSUME Proper(content), NEW n \in Nat
    PROVE  Proper(ContentLine(n))
  <1>1. TextOK
    BY DEF Proper, TextOK
  <1>2. PICK at : at \in LineStarts
    BY <1>1, LineStartsExist
  <1> DEFINE l == Len(content)
             text == ContentLine(n)
             p == at[n]
             e == End(p)
             last == LastOf(p)
             m == last - p
  <1>3. l \in Nat /\ \A i \in 1..l : content[i] \in Bytes
    BY <1>1 DEF TextOK
  <1>4. p \in 0..l /\ (p > 0 /\ p < l => content[p] = "LF")
    <2>1. at \in [Nat -> 0..l] /\ at[0] = 0 /\ \A j \in Nat : at[j + 1] = After(at[j])
      BY <1>2 DEF LineStarts
    <2>2. CASE n = 0
      BY <2>1, <2>2
    <2>3. CASE n > 0
      <3> DEFINE q == at[n - 1]
      <3>1. n - 1 \in Nat /\ n - 1 + 1 = n
        BY <2>3
      <3>2. IsEnd(q, End(q)) /\ p = After(q) /\ q \in 0..l
        BY <1>1, <1>2, <2>1, <3>1, LineAt
      <3> HIDE DEF q
      <3>3. End(q) <= l => content[End(q)] = "LF"
        BY <3>2 DEF IsEnd, IsLF
      <3>4. p = IF End(q) <= l THEN End(q) ELSE l
        BY <3>2 DEF After
      <3>5. p \in 0..l
        BY <2>1
      <3> HIDE DEF p, l
      <3>6. p < l => p = End(q) /\ End(q) <= l
        BY <1>3, <3>4, <3>5
      <3> QED
        BY <3>3, <3>5, <3>6
    <2> QED
      BY <2>2, <2>3
  <1>5. IsEnd(p, e) /\ IsPart(text, p, m)
    BY <1>1, <1>2, LineAt
  <1>6. /\ text \in Seq(Bytes) /\ m \in Nat /\ Len(text) = m /\ last = p + m /\ p \in Nat
        /\ last <= l /\ (last < l => content[last + 1] # "cont")
    <2>1. text \in Seq(Bytes) /\ Len(text) = m
      BY <1>5 DEF IsPart
    <2>2. e \in p + 1..l + 1 /\ (e <= l => content[e] = "LF")
      BY <1>5 DEF IsEnd, IsLF
    <2>3. last = IF e - 1 > p /\ content[e - 1] = "CR" THEN e - 2 ELSE e - 1
      BY DEF LastOf, IsCR
    <2> HIDE DEF text, e, p, l, last
    <2>4. last \in Nat /\ last >= p /\ last <= l
      BY <1>3, <1>4, <2>2, <2>3
    <2>5. last < l => content[last + 1] # "cont"
      <3>1. CASE e - 1 > p /\ content[e - 1] = "CR"
        <4>1. last + 1 = e - 1
          BY <1>3, <1>4, <2>2, <2>3, <3>1
        <4> QED
          BY <3>1, <4>1
      <3>2. CASE ~(e - 1 > p /\ content[e - 1] = "CR")
        <4>1. last + 1 = e
          BY <1>3, <1>4, <2>2, <2>3, <3>2
        <4> QED
          BY <1>3, <1>4, <2>2, <2>4, <4>1
      <3> QED
        BY <3>1, <3>2
    <2> QED
      BY <1>4, <2>1, <2>4, <2>5
  <1>7. \A i \in 1..m : text[i] = content[p + i]
    BY <1>5 DEF IsPart
  <1>8. /\ l > 0 => content[1] # "cont"
        /\ \A i \in 1..l : content[i] # "cont" => IsRune(content, i)
    BY DEF Proper
  <1> HIDE DEF text, e, p, l, last, m
  <1>9. m > 0 => text[1] # "cont"
    <2> SUFFICES ASSUME m > 0 PROVE content[p + 1] # "cont"
      BY <1>6, <1>7
    <2>1. p + 1 <= l
      BY <1>3, <1>6
    <2>2. CASE p = 0
      <3>1. p + 1 = 1 /\ l > 0
        BY <1>3, <2>1, <2>2
      <3> QED
        BY <1>8, <3>1
    <2>3. CASE p > 0
      <3>1. p \in 1..l /\ content[p] = "LF"
        BY <1>3, <1>4, <1>6, <2>1, <2>3
      <3>2. IsRune(content, p) /\ Width("LF") = 1
        BY <1>8, <3>1 DEF Width, RuneOf
      <3> QED
        BY <2>1, <3>1, <3>2 DEF IsRune, l
    <2> QED
      BY <1>6, <2>2, <2>3
  <1>10. ASSUME NEW i \in 1..m, text[i] # "cont" PROVE IsRune(text, i)
    <2> DEFINE w == Width(content[p + i])
    <2>1. p + i \in 1..l /\ text[i] = content[p + i]
      BY <1>3, <1>6, <1>7
    <2>2. w \in 1..4 /\ IsRune(content, p + i)
      BY <1>3, <1>8, <1>10, <2>1, RuneKinds
    <2>3. /\ p + i + w - 1 <= l
          /\ \A j \in p + i + 1..p + i + w - 1 : content[j] = "cont"
          /\ p + i + w <= l => content[p + i + w] # "cont"
      BY <2>2 DEF IsRune, l
    <2> HIDE DEF w
    <2>4. i + w - 1 <= m
      <3> SUFFICES ASSUME i + w - 1 > m PROVE FALSE
        BY <1>6, <2>2
      <3>1. last + 1 \in p + i + 1..p + i + w - 1 /\ last < l
        BY <1>3, <1>6, <2>2, <2>3
      <3> QED
        BY <1>6, <2>3, <3>1
    <2>5. \A j \in i + 1..i + w - 1 : text[j] = "cont"
      <3> TAKE j \in i + 1..i + w - 1
      <3>1. j \in 1..m /\ p + j \in p + i + 1..p + i + w - 1
        BY <1>6, <2>2, <2>4
      <3> QED
        BY <1>7, <2>3, <3>1
    <2>6. i + w <= m => text[i + w] # "cont"
      <3> SUFFICES ASSUME i + w <= m PROVE text[i + w] # "cont"
        OBVIOUS
      <3>1. i + w \in 1..m /\ p + (i + w) = p + i + w /\ p + i + w <= l
        BY <1>3, <1>6, <2>2
      <3> QED
        BY <1>7, <2>3, <3>1
    <2> QED
      BY <1>6, <2>1, <2>4, <2>5, <2>6 DEF IsRune, w
  <1> QED
    BY <1>6, <1>9, <1>10 DEF Proper, text

(* A function that grows at every step is increasing.                      *)
LEMMA Increasing ==
    ASSUME NEW n \in Nat, NEW f \in [0..n -> Nat], \A j \in 0..n - 1 : f[j] < f[j + 1]
    PROVE  \A j, i \in 0..n : j < i => f[j] < f[i]
  <1> DEFINE T == {i \in 0..n : \A j \in 0..n : j < i => f[j] < f[i]}
  <1>1. 0 \in T
    OBVIOUS
  <1>2. ASSUME NEW i \in 0..n - 1, i \in T PROVE i + 1 \in T
    <2>1. i + 1 \in 0..n /\ i \in 0..n /\ f[i] < f[i + 1]
      OBVIOUS
    <2>2. ASSUME NEW j \in 0..n, j < i + 1 PROVE f[j] < f[i + 1]
      <3>1. CASE j = i
        BY <2>1, <3>1
      <3>2. CASE j < i
        <4>1. f[j] < f[i]
          BY <1>2, <3>2
        <4> QED
          BY <2>1, <4>1
      <3> QED
        BY <2>2, <3>1, <3>2
    <2> QED
      BY <2>1, <2>2
  <1>3. \A i \in 0..n : i \in T
    <2> HIDE DEF T
    <2> QED
      BY <1>1, <1>2, BoundedInduction
  <1> QED
    BY <1>3

(* The rounds of the loop over a text: the boundaries they stop at go up   *)
(* on both scales, a rune at a time, to the end of the text.               *)
LEMMA RunesFound ==
    ASSUME NEW text, Proper(text)
    PROVE  /\ IsLine(LineOf(text))
           /\ LineOf(text).at["bytes"][LineOf(text).runes] = Len(text)
  <1> DEFINE n == Len(text)
             Loop(h) == h = [j \in 0..n |->
                IF j = 0 THEN 0 ELSE LET i == h[j - 1] IN
                    IF i < n THEN i + RuneOf(text[i + 1]).bytes ELSE i]
             bytes == CHOOSE h : Loop(h)
             ends == {j \in 0..n : bytes[j] = n}
             runes == Min(ends)
             Count(h) == h = [j \in 0..runes |->
                IF j = 0 THEN 0 ELSE h[j - 1] + RuneOf(text[bytes[j - 1] + 1]).units]
             units == CHOOSE h : Count(h)
             at == [s \in Scales |-> IF s = "bytes" THEN [j \in 0..runes |-> bytes[j]] ELSE units]
  <1>1. LineOf(text) = [runes |-> runes, at |-> at]
    BY DEF LineOf
  <1>2. /\ n \in Nat /\ (n > 0 => text[1] # "cont")
        /\ \A i \in 1..n : text[i] \in Bytes /\ (text[i] # "cont" => IsRune(text, i))
    BY DEF Proper
  <1>3. \A i \in 1..n : Width(text[i]) \in 1..4 /\ RuneOf(text[i]) \in RuneWidths
                        /\ RuneOf(text[i]).units \in 1..2
    BY <1>2, RuneKinds
  <1>4. Loop(bytes)
    <2> DEFINE step == [j \in 1..n |-> [i \in Nat |->
                           IF i < n THEN i + Width(text[i + 1]) ELSE i]]
    <2>1. \A i \in Nat : (IF i < n THEN i + Width(text[i + 1]) ELSE i) \in Nat
      <3> TAKE i \in Nat
      <3>1. i < n => i + 1 \in 1..n
        BY <1>2
      <3> QED
        BY <1>3, <3>1
    <2>2. step \in [1..n -> [Nat -> Nat]]
      BY <2>1
    <2>3. PICK f : f \in Recurrences(Nat, 0, step, n)
      <3> HIDE DEF step
      <3> QED
        BY <1>2, <2>2, BoundedRecursive
    <2>4. /\ f \in [0..n -> Nat]
          /\ f = [j \in 0..n |-> IF j = 0 THEN 0 ELSE step[j][f[j - 1]]]
      BY <2>3 DEF Recurrences
    <2>5. \A j \in 0..n : j # 0 =>
              step[j][f[j - 1]] = IF f[j - 1] < n THEN f[j - 1] + RuneOf(text[f[j - 1] + 1]).bytes
                                  ELSE f[j - 1]
      <3> TAKE j \in 0..n
      <3> HAVE j # 0
      <3>1. j \in 1..n /\ j - 1 \in 0..n
        BY <1>2
      <3>2. f[j - 1] \in Nat
        BY <2>4, <3>1
      <3> QED
        BY <3>1, <3>2 DEF Width
    <2> HIDE DEF step
    <2>6. Loop(f)
      BY <2>4, <2>5
    <2> QED
      BY <2>6
  <1> HIDE DEF bytes
  <1>5. /\ bytes[0] = 0
        /\ \A j \in 1..n : bytes[j] = IF bytes[j - 1] < n
                                      THEN bytes[j - 1] + Width(text[bytes[j - 1] + 1])
                                      ELSE bytes[j - 1]
    BY <1>2, <1>4 DEF Width
  <1> HIDE DEF n
  <1> DEFINE Stops(j, b) == /\ b \in 0..n /\ (b < n => text[b + 1] # "cont")
                            /\ b >= j \/ b = n
             T == {j \in 0..n : Stops(j, bytes[j])}
  <1>6. 0 \in T
    BY <1>2, <1>5
  <1>7. ASSUME NEW j \in 0..n - 1, j \in T PROVE j + 1 \in T
    <2> DEFINE m == j + 1
               b == bytes[j]
               w == Width(text[b + 1])
    <2>1. m \in 1..n /\ m \in 0..n /\ m - 1 = j /\ Stops(j, b)
      BY <1>2, <1>7
    <2>2. bytes[m] = IF b < n THEN b + w ELSE b
      BY <1>5, <2>1
    <2> HIDE DEF b, w
    <2>3. CASE b < n
      <3>1. b + 1 \in 1..n /\ w \in 1..4 /\ IsRune(text, b + 1)
        BY <1>2, <1>3, <2>1, <2>3 DEF w
      <3>2. b + w <= n /\ (b + w < n => text[b + w + 1] # "cont")
        <4>1. b + 1 + w - 1 = b + w /\ b + 1 + w = b + w + 1
          BY <2>1, <3>1
        <4> QED
          BY <1>2, <2>1, <3>1, <4>1 DEF IsRune, w, n
      <3>3. Stops(m, b + w)
        BY <1>2, <2>1, <2>3, <3>1, <3>2
      <3>4. bytes[m] = b + w
        BY <2>2, <2>3
      <3> QED
        BY <2>1, <3>3, <3>4
    <2>4. CASE b = n
      <3>1. bytes[m] = n
        BY <1>2, <2>2, <2>4
      <3> QED
        BY <1>2, <2>1, <3>1
    <2> QED
      BY <1>2, <2>1, <2>3, <2>4
  <1>8. \A j \in 0..n : j \in T
    <2> HIDE DEF T
    <2> QED
      BY <1>2, <1>6, <1>7, BoundedInduction
  <1>9. \A j \in 0..n : bytes[j] \in 0..n /\ (bytes[j] < n => text[bytes[j] + 1] # "cont")
    BY <1>8
  <1>10. n \in ends
    <2>1. n \in 0..n /\ Stops(n, bytes[n])
      BY <1>2, <1>8
    <2> QED
      BY <1>2, <2>1
  <1>11. runes \in 0..n /\ bytes[runes] = n /\ \A j \in 0..runes - 1 : bytes[j] < n
    <2>1. ends \in SUBSET Nat /\ ends # {}
      BY <1>2, <1>10
    <2>2. runes \in ends /\ \A j \in ends : runes <= j
      <3> HIDE DEF ends
      <3> QED
        BY <2>1, LeastMember DEF Min
    <2> HIDE DEF runes
    <2>3. \A j \in 0..runes - 1 : j \in 0..n /\ j \notin ends
      BY <1>2, <2>2
    <2> QED
      BY <1>2, <1>9, <2>2, <2>3
  <1> HIDE DEF ends, runes, T
  <1>12. \A j \in 0..runes - 1 :
            /\ bytes[j] + 1 \in 1..n
            /\ bytes[j + 1] - bytes[j] = RuneOf(text[bytes[j] + 1]).bytes
            /\ bytes[j] < bytes[j + 1]
    <2> TAKE j \in 0..runes - 1
    <2>1. j \in 0..n /\ j + 1 \in 1..n /\ j + 1 - 1 = j /\ bytes[j] < n
      BY <1>2, <1>11
    <2>2. bytes[j] \in 0..n /\ bytes[j] + 1 \in 1..n
      BY <1>2, <1>9, <2>1
    <2>3. bytes[j + 1] = bytes[j] + Width(text[bytes[j] + 1])
      BY <1>5, <2>1
    <2>4. Width(text[bytes[j] + 1]) \in 1..4
      BY <1>3, <2>2
    <2> QED
      BY <2>2, <2>3, <2>4 DEF Width
  <1>13. /\ units \in [0..runes -> Nat] /\ units[0] = 0
         /\ \A j \in 1..runes : units[j] = units[j - 1] + RuneOf(text[bytes[j - 1] + 1]).units
    <2> DEFINE step == [j \in 1..runes |-> [u \in Nat |-> u + RuneOf(text[bytes[j - 1] + 1]).units]]
    <2>1. \A j \in 1..runes : RuneOf(text[bytes[j - 1] + 1]).units \in 1..2
      <3> TAKE j \in 1..runes
      <3>1. j - 1 \in 0..runes - 1
        BY <1>11
      <3> QED
        BY <1>3, <1>12, <3>1
    <2>2. step \in [1..runes -> [Nat -> Nat]] /\ runes \in Nat
      BY <1>11, <2>1
    <2>3. PICK f : f \in Recurrences(Nat, 0, step, runes)
      <3> HIDE DEF step
      <3> QED
        BY <2>2, BoundedRecursive
    <2>4. /\ f \in [0..runes -> Nat]
          /\ f = [j \in 0..runes |-> IF j = 0 THEN 0 ELSE step[j][f[j - 1]]]
      BY <2>3 DEF Recurrences
    <2>5. \A j \in 0..runes : j # 0 =>
              step[j][f[j - 1]] = f[j - 1] + RuneOf(text[bytes[j - 1] + 1]).units
      <3> TAKE j \in 0..runes
      <3> HAVE j # 0
      <3>1. j \in 1..runes /\ j - 1 \in 0..runes
        BY <2>2
      <3> QED
        BY <2>4, <3>1
    <2> HIDE DEF step
    <2>6. Count(f)
      BY <2>4, <2>5
    <2>7. Count(units)
      BY <2>6
    <2> HIDE DEF units
    <2> DEFINE U == {j \in 0..runes : units[j] \in Nat}
    <2>8. units[0] = 0 /\ \A j \in 1..runes :
              units[j] = units[j - 1] + RuneOf(text[bytes[j - 1] + 1]).units
      <3>1. \A j \in 0..runes : units[j] = IF j = 0 THEN 0 ELSE
                units[j - 1] + RuneOf(text[bytes[j - 1] + 1]).units
        BY <2>7, Zenon
      <3>2. 0 \in 0..runes /\ \A j \in 1..runes : j \in 0..runes /\ j # 0
        BY <2>2
      <3> QED
        BY <3>1, <3>2
    <2>9. 0 \in U
      BY <2>2, <2>8
    <2>10. ASSUME NEW j \in 0..runes - 1, j \in U PROVE j + 1 \in U
      <3>1. j + 1 \in 1..runes /\ j + 1 \in 0..runes /\ j + 1 - 1 = j
        BY <2>2
      <3> QED
        BY <2>1, <2>8, <2>10, <3>1
    <2>11. \A j \in 0..runes : j \in U
      <3> HIDE DEF U
      <3> QED
        BY <2>2, <2>9, <2>10, BoundedInduction
    <2>12. units \in [0..runes -> Nat]
      BY <2>7, <2>11
    <2> QED
      BY <2>8, <2>12
  <1> HIDE DEF units
  <1>14. units[0] = 0 /\ \A j \in 0..runes - 1 :
            /\ units[j + 1] - units[j] = RuneOf(text[bytes[j] + 1]).units
            /\ units[j] < units[j + 1]
    <2>1. runes \in Nat /\ 0 \in 0..runes
      BY <1>11
    <2>2. units[0] = 0
      BY <1>13, <2>1
    <2>3. ASSUME NEW j \in 0..runes - 1
          PROVE  /\ units[j + 1] - units[j] = RuneOf(text[bytes[j] + 1]).units
                 /\ units[j] < units[j + 1]
      <3>1. j + 1 \in 1..runes /\ j + 1 - 1 = j /\ j \in 0..runes
        BY <2>1
      <3>2. units[j + 1] = units[j] + RuneOf(text[bytes[j] + 1]).units /\ units[j] \in Nat
        BY <1>13, <3>1
      <3>3. RuneOf(text[bytes[j] + 1]).units \in 1..2
        BY <1>3, <1>12
      <3> QED
        BY <3>2, <3>3
    <2> QED
      BY <2>2, <2>3
  <1> DEFINE cols == [j \in 0..runes |-> bytes[j]]
  <1>15. /\ runes \in Nat /\ 0 \in 0..runes /\ runes \in 0..runes
         /\ cols \in [0..runes -> Nat] /\ cols[0] = 0 /\ cols[runes] = n
         /\ \A j \in 0..runes : cols[j] = bytes[j]
         /\ \A j \in 0..runes - 1 : j \in 0..runes /\ j + 1 \in 0..runes
    BY <1>2, <1>5, <1>9, <1>11
  <1> HIDE DEF cols
  <1>16. at = [s \in Scales |-> IF s = "bytes" THEN cols ELSE units]
    BY DEF cols
  <1> HIDE DEF at
  <1>17. at["bytes"] = cols /\ at["UTF-16"] = units /\ at \in [Scales -> [0..runes -> Nat]]
    BY <1>13, <1>15, <1>16 DEF Scales
  <1>18. \A j, i \in 0..runes : j < i => cols[j] < cols[i] /\ units[j] < units[i]
    <2>1. \A j, i \in 0..runes : j < i => cols[j] < cols[i]
      BY <1>12, <1>15, Increasing
    <2>2. \A j, i \in 0..runes : j < i => units[j] < units[i]
      BY <1>13, <1>14, <1>15, Increasing
    <2> QED
      BY <2>1, <2>2
  <1>19. \A j \in 0..runes - 1 :
            [bytes |-> cols[j + 1] - cols[j], units |-> units[j + 1] - units[j]] \in RuneWidths
    <2> TAKE j \in 0..runes - 1
    <2> DEFINE r == RuneOf(text[bytes[j] + 1])
    <2>1. r \in RuneWidths
      BY <1>3, <1>12
    <2>2. cols[j + 1] - cols[j] = r.bytes /\ units[j + 1] - units[j] = r.units
      BY <1>12, <1>14, <1>15
    <2> HIDE DEF r
    <2>3. r = [bytes |-> r.bytes, units |-> r.units]
      BY <2>1 DEF RuneWidths
    <2> QED
      BY <2>1, <2>2, <2>3
  <1> DEFINE line0 == [runes |-> runes, at |-> at]
  <1>20. line0.runes = runes /\ line0.at = at
    OBVIOUS
  <1> HIDE DEF line0
  <1>21. IsLine(line0)
    <2>1. \A s \in Scales : s = "bytes" \/ s = "UTF-16"
      BY DEF Scales
    <2>2. \A s \in Scales : at[s][0] = 0 /\ \A j, i \in 0..runes : j < i => at[s][j] < at[s][i]
      BY <1>14, <1>15, <1>17, <1>18, <2>1
    <2> QED
      BY <1>15, <1>17, <1>19, <1>20, <2>2 DEF IsLine, Boundaries
  <1>22. line0.at["bytes"][line0.runes] = Len(text)
    BY <1>15, <1>17, <1>20 DEF n
  <1> QED
    BY <1>1, <1>21, <1>22 DEF line0

-----------------------------------------------------------------------------
(* What stays true of a position of a document.                            *)
DocumentInv ==
    /\ IInv
    /\ TextOK /\ Proper(content)
    /\ lineNum \in Nat
    /\ line = LineOf(ContentLine(lineNum))

LEMMA DocumentInvariance == DocumentSpec => []DocumentInv
  <1>1. DocumentInit => DocumentInv
    <2> SUFFICES ASSUME DocumentInit PROVE DocumentInv
      OBVIOUS
    <2>1. lineNum \in Nat
      BY TextAssumption DEF DocumentInit
    <2> QED
      BY <2>1, InitIInv, TextBytes, TextProper DEF DocumentInit, DocumentInv
  <1>2. DocumentInv /\ [DocumentNext]_<<vars, content, lineNum>> => DocumentInv'
    <2> SUFFICES ASSUME DocumentInv, [DocumentNext]_<<vars, content, lineNum>>
                 PROVE  DocumentInv'
      OBVIOUS
    <2>1. [Next]_vars /\ UNCHANGED <<content, lineNum>>
      BY DEF DocumentNext
    <2>2. IInv'
      BY <2>1, NextIInv DEF DocumentInv
    <2>3. line' = line
      BY <2>1 DEF Next, DecodeRune, ReturnFirst, ReturnSecond, vars
    <2>4. TextOK' /\ Proper(content)' /\ (lineNum \in Nat)'
      BY <2>1 DEF DocumentInv, TextOK
    <2>5. (line = LineOf(ContentLine(lineNum)))'
      BY <2>1, <2>3 DEF DocumentInv, ContentLine
    <2> QED
      BY <2>2, <2>4, <2>5 DEF DocumentInv
  <1> QED
    BY <1>1, <1>2, PTL DEF DocumentSpec

(* Positions of documents are converted as PositionEncoding says.          *)
THEOREM DocumentsImplement == DocumentSpec => Spec
  <1>1. DocumentInit => Init
    BY DEF DocumentInit
  <1>2. [DocumentNext]_<<vars, content, lineNum>> => [Next]_vars
    BY DEF DocumentNext
  <1> QED
    BY <1>1, <1>2, PTL DEF DocumentSpec, Spec

(* The loops of the converters find rune boundaries that go up on both     *)
(* scales, a rune at a time, on every line of every text: what is assumed  *)
(* of Lines holds of them (internal/document/encoding.go:24-105).          *)
THEOREM LinesOfTexts == DocumentSpec => [](\A n \in Nat : IsLine(LineOf(ContentLine(n))))
  <1>1. DocumentInv => \A n \in Nat : IsLine(LineOf(ContentLine(n)))
    BY LineProper, RunesFound DEF DocumentInv
  <1> QED
    BY <1>1, DocumentInvariance, PTL

(* Completion reads the part of the line before the cursor, in whole runes, *)
(* in every text and at every position (completion.go:233-259 on            *)
(* server/encoding.go:64-72).                                              *)
THEOREM ReadsToCursor == DocumentSpec => []CompletionReadsToCursor
  <1>1. ASSUME DocumentInv, leg >= 2, scale = "UTF-16" PROVE CompletionReadsToCursor
    <2>1. PICK j \in Boundaries(line) :
              RoundsDownTo("UTF-16", column, j) /\ mid = At("bytes", j)
      BY <1>1 DEF DocumentInv, IInv, Converted, Other
    <2>2. /\ line.runes \in Nat /\ line.runes \in Boundaries(line)
          /\ At("bytes", j) \in Nat /\ At("bytes", line.runes) \in Nat
          /\ At("bytes", j) <= At("bytes", line.runes)
      <3>1. TypeOK /\ "bytes" \in Scales
        BY <1>1 DEF DocumentInv, IInv, Scales
      <3>2. line.runes \in Nat /\ line.runes \in Boundaries(line) /\ j \in 0..line.runes
        BY <3>1, LineColumns DEF Boundaries
      <3>3. At("bytes", j) \in Nat /\ At("bytes", line.runes) \in Nat
        BY <3>1, <3>2, LineColumns
      <3>4. j < line.runes => At("bytes", j) < At("bytes", line.runes)
        BY <3>1, <3>2, LineColumns
      <3> QED
        BY <3>2, <3>3, <3>4
    <2>3. At("bytes", line.runes) = Len(ContentLine(lineNum))
      <3>1. line = LineOf(ContentLine(lineNum)) /\ Proper(ContentLine(lineNum))
        BY <1>1, LineProper DEF DocumentInv
      <3> QED
        BY <3>1, RunesFound DEF At
    <2>4. lineUpToCharacter(lineNum, mid) = SubSeq(ContentLine(lineNum), 1, mid)
      BY <1>1, <2>1, <2>2, <2>3, UpToCharacter DEF DocumentInv
    <2> QED
      BY <2>1, <2>4 DEF CompletionReadsToCursor
  <1>2. DocumentInv => CompletionReadsToCursor
    BY <1>1 DEF CompletionReadsToCursor
  <1> QED
    BY <1>2, DocumentInvariance, PTL

-----------------------------------------------------------------------------
(* The text without its terminators, byte by byte.                         *)
KeptRuns ==
    {kept \in [0..Len(content) -> Seq(Bytes)] :
        kept[0] = <<>> /\ \A i \in 1..Len(content) :
            kept[i] = IF IsTerminator(i) THEN kept[i - 1] ELSE Append(kept[i - 1], content[i])}

(* more is s and the l bytes after p.                                      *)
Extends(more, s, p, l) ==
    /\ more \in Seq(Bytes) /\ Len(more) = Len(s) + l
    /\ \A i \in 1..Len(s) : more[i] = s[i]
    /\ \A i \in 1..l : more[Len(s) + i] = content[p + i]

(* The bytes of a line are kept, and those from there to the next are not.  *)
LEMMA Terminators ==
    ASSUME TextOK, NEW p \in 0..Len(content), IsEnd(p, End(p))
    PROVE  /\ LastOf(p) \in p..Len(content) /\ After(p) \in LastOf(p)..Len(content)
           /\ \A i \in p + 1..LastOf(p) : ~IsTerminator(i)
           /\ \A i \in LastOf(p) + 1..After(p) : IsTerminator(i)
  <1> DEFINE n == Len(content)
             e == End(p)
             trimmed == e - 1 > p /\ IsCR(content[e - 1])
  <1>1. /\ n \in Nat /\ p \in Nat /\ p <= n /\ e \in p + 1..n + 1
        /\ \A i \in p + 1..e - 1 : ~IsLF(content[i])
        /\ e <= n => IsLF(content[e])
    BY DEF IsEnd, TextOK
  <1>2. LastOf(p) = (IF trimmed THEN e - 2 ELSE e - 1) /\ After(p) = (IF e <= n THEN e ELSE n)
    BY DEF LastOf, After
  <1>3. \A i : IsTerminator(i) <=> \/ IsLF(content[i])
                                   \/ IsCR(content[i]) /\ (i = n \/ IsLF(content[i + 1]))
    BY DEF IsTerminator, IsLF, IsCR
  <1> HIDE DEF e, n
  <1>4. /\ LastOf(p) \in p..n /\ After(p) \in LastOf(p)..n
        /\ LastOf(p) <= e - 1 /\ (trimmed => LastOf(p) = e - 2)
        /\ LastOf(p) >= e - 2 /\ (~trimmed => LastOf(p) = e - 1)
    BY <1>1, <1>2
  <1>5. ASSUME NEW i \in p + 1..LastOf(p) PROVE ~IsTerminator(i)
    <2>1. i \in p + 1..e - 1 /\ i <= n
      BY <1>1, <1>4
    <2>2. ~IsLF(content[i])
      BY <1>1, <2>1
    <2>3. SUFFICES ASSUME IsCR(content[i]), i = n \/ IsLF(content[i + 1]) PROVE FALSE
      BY <1>3, <2>2
    <2>4. i = e - 1
      <3>1. CASE i = n
        BY <1>1, <2>1, <3>1
      <3>2. CASE IsLF(content[i + 1])
        <4>1. i + 1 \notin p + 1..e - 1
          BY <1>1, <3>2
        <4> QED
          BY <1>1, <2>1, <4>1
      <3> QED
        BY <2>3, <3>1, <3>2
    <2>5. trimmed
      BY <1>1, <2>1, <2>3, <2>4
    <2> QED
      BY <1>1, <1>4, <2>4, <2>5
  <1>6. ASSUME NEW i \in LastOf(p) + 1..After(p) PROVE IsTerminator(i)
    <2>1. (i = e /\ e <= n) \/ (i = e - 1 /\ trimmed)
      BY <1>1, <1>2, <1>4
    <2>2. CASE i = e /\ e <= n
      BY <1>1, <1>3, <2>2
    <2>3. CASE i = e - 1 /\ trimmed
      <3>1. i + 1 = e /\ (e <= n \/ i = n)
        BY <1>1, <2>3
      <3> QED
        BY <1>1, <1>3, <2>3, <3>1
    <2> QED
      BY <2>1, <2>2, <2>3
  <1> QED
    BY <1>4, <1>5, <1>6 DEF n

(* A line adds its bytes to what is kept.                                  *)
LEMMA KeptLine ==
    ASSUME TextOK, NEW kept \in KeptRuns, NEW p \in 0..Len(content), IsEnd(p, End(p)),
           NEW text, IsPart(text, p, LastOf(p) - p)
    PROVE  kept[After(p)] = kept[p] \o text
  <1> DEFINE n == Len(content)
             last == LastOf(p)
             after == After(p)
             l == last - p
             d == after - last
             s == kept[p]
             T == {m \in 0..l : Extends(kept[p + m], s, p, m)}
             U == {m \in 0..d : kept[last + m] = kept[last]}
  <1>1. /\ kept \in [0..n -> Seq(Bytes)] /\ kept[0] = <<>>
        /\ \A i \in 1..n :
              kept[i] = IF IsTerminator(i) THEN kept[i - 1] ELSE Append(kept[i - 1], content[i])
    BY DEF KeptRuns
  <1>2. /\ last \in p..n /\ after \in last..n
        /\ \A i \in p + 1..last : ~IsTerminator(i)
        /\ \A i \in last + 1..after : IsTerminator(i)
    BY Terminators
  <1>3. n \in Nat /\ p \in 0..n /\ \A i \in 1..n : content[i] \in Bytes
    BY DEF TextOK
  <1>4. text \in Seq(Bytes) /\ Len(text) = l /\ \A i \in 1..l : text[i] = content[p + i]
    BY DEF IsPart
  <1> HIDE DEF n, last, after
  <1>5. l \in Nat /\ d \in Nat /\ p + l = last /\ last + d = after
    BY <1>2, <1>3
  <1>6. s \in Seq(Bytes)
    BY <1>1, <1>3
  <1> HIDE DEF l, d, s
  <1>7. 0 \in T
    <2>1. p + 0 = p /\ Len(s) \in Nat /\ Len(s) + 0 = Len(s) /\ 0 \in 0..l
      BY <1>3, <1>5, <1>6
    <2>2. Extends(s, s, p, 0)
      BY <1>6, <2>1 DEF Extends
    <2>3. kept[p + 0] = s
      BY <2>1 DEF s
    <2> QED
      BY <2>1, <2>2, <2>3
  <1>8. ASSUME NEW m \in 0..l - 1, m \in T PROVE m + 1 \in T
    <2> DEFINE i == p + m + 1
               u == kept[p + m]
               b == content[i]
    <2>1. /\ i \in 1..n /\ i - 1 = p + m /\ i \in p + 1..last /\ p + m \in 0..n
          /\ p + (m + 1) = i /\ m + 1 \in 0..l /\ m \in Nat
      BY <1>2, <1>3, <1>5
    <2>2. kept[i] = Append(u, b) /\ b \in Bytes
      BY <1>1, <1>2, <1>3, <2>1
    <2>3. Extends(u, s, p, m)
      BY <1>8
    <2> HIDE DEF i, u, b
    <2>0. u \in Seq(Bytes) /\ b \in Bytes /\ Len(s) \in Nat
      BY <1>6, <2>2, <2>3 DEF Extends
    <2>4. /\ Len(u) = Len(s) + m
          /\ \A j \in 1..Len(s) : u[j] = s[j]
          /\ \A j \in 1..m : u[Len(s) + j] = content[p + j]
      BY <2>3 DEF Extends
    <2> DEFINE v == Append(u, b)
    <2>5. /\ v \in Seq(Bytes) /\ Len(v) = Len(u) + 1
          /\ \A j \in 1..Len(u) : v[j] = u[j]
          /\ v[Len(u) + 1] = b
      BY <2>0, AppendProperties
    <2> HIDE DEF v
    <2>6. Extends(v, s, p, m + 1)
      <3>1. Len(v) = Len(s) + (m + 1)
        BY <2>0, <2>1, <2>4, <2>5
      <3>2. \A j \in 1..Len(s) : v[j] = s[j]
        <4>1. \A j \in 1..Len(s) : j \in 1..Len(u)
          BY <2>0, <2>1, <2>4
        <4> QED
          BY <2>4, <2>5, <4>1
      <3>3. \A j \in 1..m : v[Len(s) + j] = content[p + j]
        <4>1. \A j \in 1..m : Len(s) + j \in 1..Len(u)
          BY <2>0, <2>1, <2>4
        <4> QED
          BY <2>4, <2>5, <4>1
      <3>4. v[Len(s) + (m + 1)] = content[p + (m + 1)]
        <4>1. Len(s) + (m + 1) = Len(u) + 1
          BY <2>0, <2>1, <2>4
        <4> QED
          BY <2>1, <2>5, <4>1 DEF b
      <3>5. \A j \in 1..m + 1 : j \in 1..m \/ j = m + 1
        BY <2>1
      <3> QED
        BY <2>5, <3>1, <3>2, <3>3, <3>4, <3>5 DEF Extends
    <2>7. kept[p + (m + 1)] = v
      BY <2>1, <2>2 DEF v
    <2> QED
      BY <2>1, <2>6, <2>7
  <1>9. kept[last] = s \o text
    <2>1. l \in T
      <3>1. \A m \in 0..l : m \in T
        <4> HIDE DEF T
        <4> QED
          BY <1>5, <1>7, <1>8, BoundedInduction
      <3>2. l \in 0..l
        BY <1>5
      <3> HIDE DEF T
      <3> QED
        BY <3>1, <3>2
    <2> DEFINE u == kept[last]
               v == s \o text
    <2>2. Extends(u, s, p, l)
      BY <1>5, <2>1
    <2>3. /\ u \in Seq(Bytes) /\ Len(u) = Len(s) + l /\ Len(s) \in Nat
          /\ \A j \in 1..Len(s) : u[j] = s[j]
          /\ \A j \in 1..l : u[Len(s) + j] = content[p + j]
      BY <1>6, <2>2 DEF Extends
    <2>4. /\ v \in Seq(Bytes) /\ Len(v) = Len(s) + l
          /\ \A j \in 1..Len(s) + l : v[j] = IF j <= Len(s) THEN s[j] ELSE text[j - Len(s)]
      BY <1>4, <1>6, ConcatProperties
    <2> HIDE DEF u, v
    <2>5. ASSUME NEW j \in 1..Len(u) PROVE u[j] = v[j]
      <3>1. CASE j <= Len(s)
        BY <1>5, <2>3, <2>4, <3>1
      <3>2. CASE ~(j <= Len(s))
        <4>1. j - Len(s) \in 1..l /\ Len(s) + (j - Len(s)) = j
          BY <1>5, <2>3, <3>2
        <4>2. u[j] = content[p + (j - Len(s))]
          BY <2>3, <4>1
        <4>3. v[j] = text[j - Len(s)]
          BY <1>5, <2>3, <2>4, <3>2
        <4> QED
          BY <1>4, <4>1, <4>2, <4>3
      <3> QED
        BY <3>1, <3>2
    <2>6. u = v
      BY <2>3, <2>4, <2>5, SeqEqual
    <2> QED
      BY <2>6 DEF u, v
  <1>10. 0 \in U
    <2>1. last + 0 = last /\ 0 \in 0..d
      BY <1>2, <1>3, <1>5
    <2> QED
      BY <2>1
  <1>11. ASSUME NEW m \in 0..d - 1, m \in U PROVE m + 1 \in U
    <2> DEFINE i == last + m + 1
    <2>1. /\ i \in last + 1..after /\ i \in 1..n /\ i - 1 = last + m
          /\ last + (m + 1) = i /\ m + 1 \in 0..d
      BY <1>2, <1>3, <1>5
    <2> HIDE DEF i
    <2>2. kept[i] = kept[last + m]
      BY <1>1, <1>2, <2>1
    <2> QED
      BY <1>11, <2>1, <2>2
  <1>12. d \in U
    <2>1. \A m \in 0..d : m \in U
      <3> HIDE DEF U
      <3> QED
        BY <1>5, <1>10, <1>11, BoundedInduction
    <2>2. d \in 0..d
      BY <1>5
    <2> HIDE DEF U
    <2> QED
      BY <2>1, <2>2
  <1>13. kept[after] = kept[last]
    BY <1>5, <1>12
  <1> QED
    BY <1>9, <1>13 DEF s, after

(* Each line but those after the last has a byte of its own, its LF if it   *)
(* is empty, so that there are no more lines than bytes and one.           *)
LEMMA EnoughLines ==
    ASSUME TextOK, NEW at \in LineStarts
    PROVE  at[Len(content) + 1] = Len(content)
  <1> DEFINE n == Len(content)
             T == {j \in Nat : at[j] >= j \/ at[j] = n}
  <1>1. n \in Nat
    BY DEF TextOK
  <1>2. \A j \in Nat : at[j] \in 0..n /\ at[j + 1] = After(at[j])
    BY DEF LineStarts
  <1>3. ASSUME NEW j \in Nat
        PROVE  End(at[j]) \in at[j] + 1..n + 1
    BY LineAt DEF IsEnd
  <1>4. 0 \in T
    BY <1>2
  <1>5. ASSUME NEW j \in Nat, j \in T PROVE j + 1 \in T
    <2> DEFINE p == at[j]
               q == at[j + 1]
    <2>1. q = IF End(p) <= n THEN End(p) ELSE n
      BY <1>2 DEF After
    <2>2. p \in 0..n /\ End(p) \in p + 1..n + 1
      BY <1>2, <1>3
    <2>3. p >= j \/ p = n
      BY <1>5
    <2> HIDE DEF p, n
    <2>4. q >= j + 1 \/ q = n
      <3> HIDE DEF q
      <3> QED
        BY <1>1, <2>1, <2>2, <2>3
    <2> QED
      BY <2>4 DEF n
  <1>6. \A j \in Nat : j \in T
    <2> HIDE DEF T
    <2> QED
      BY <1>4, <1>5, Induction
  <1>7. n + 1 \in Nat /\ at[n + 1] \in 0..n /\ n + 1 \in T
    <2>1. n + 1 \in Nat
      BY <1>1
    <2> HIDE DEF T
    <2> QED
      BY <1>2, <1>6, <2>1
  <1>8. at[n + 1] >= n + 1 \/ at[n + 1] = n
    BY <1>7
  <1> HIDE DEF n
  <1>9. at[n + 1] = n
    BY <1>1, <1>7, <1>8
  <1> QED
    BY <1>9 DEF n

(* The first j lines are what is kept of the text before line j.           *)
LEMMA LinesJoined == TextOK => LinesAreTheText
  <1> SUFFICES ASSUME TextOK PROVE LinesAreTheText
    OBVIOUS
  <1> DEFINE n == Len(content)
             S == Seq(Bytes)
             empty == <<>>
             step == [i \in 1..n |->
                        [s \in S |-> IF IsTerminator(i) THEN s ELSE Append(s, content[i])]]
             Keeps(h) == h = [i \in 0..n |->
                                IF i = 0 THEN <<>>
                                ELSE IF IsTerminator(i) THEN h[i - 1]
                                ELSE Append(h[i - 1], content[i])]
             kept == CHOOSE h : Keeps(h)
             lines == [j \in 1..n + 1 |-> ContentLine(j - 1)]
  <1>1. LinesAreTheText <=> FlattenSeq(lines) = kept[n]
    BY DEF LinesAreTheText
  <1>2. n \in Nat /\ \A i \in 1..n : content[i] \in Bytes
    BY DEF TextOK
  <1> HIDE DEF n
  <1>3. ASSUME NEW i \in 1..n, NEW s \in S PROVE Append(s, content[i]) \in S
    BY <1>2, AppendProperties
  <1>4. empty \in S
    BY EmptySeq
  <1>5. step \in [1..n -> [S -> S]]
    BY <1>3
  <1> HIDE DEF S
  <1>6. PICK f : f \in Recurrences(S, empty, step, n)
    <2> HIDE DEF step, empty
    <2> QED
      BY <1>2, <1>4, <1>5, BoundedRecursive
  <1>7. /\ f \in [0..n -> S]
        /\ f = [i \in 0..n |-> IF i = 0 THEN empty ELSE step[i][f[i - 1]]]
    <2> HIDE DEF step, empty
    <2> QED
      BY <1>6 DEF Recurrences
  <1>8. ASSUME NEW i \in 0..n, i # 0
        PROVE  step[i][f[i - 1]] = IF IsTerminator(i) THEN f[i - 1] ELSE Append(f[i - 1], content[i])
    <2>1. i \in 1..n /\ i - 1 \in 0..n
      BY <1>2, <1>8
    <2>2. f[i - 1] \in S
      BY <1>7, <2>1
    <2> QED
      BY <2>1, <2>2
  <1> HIDE DEF step
  <1>9. Keeps(f)
    BY <1>7, <1>8
  <1>10. kept \in KeptRuns
    <2>1. Keeps(kept)
      BY <1>9
    <2> DEFINE Same == {i \in 0..n : kept[i] = f[i]}
    <2> HIDE DEF kept
    <2>2. \A i \in 0..n : kept[i] = IF i = 0 THEN <<>>
                                    ELSE IF IsTerminator(i) THEN kept[i - 1]
                                    ELSE Append(kept[i - 1], content[i])
      BY <2>1
    <2>3. \A i \in 0..n : f[i] = IF i = 0 THEN <<>>
                                 ELSE IF IsTerminator(i) THEN f[i - 1]
                                 ELSE Append(f[i - 1], content[i])
      BY <1>9
    <2>4. 0 \in Same
      BY <1>2, <2>2, <2>3
    <2>5. ASSUME NEW i \in 0..n - 1, i \in Same PROVE i + 1 \in Same
      <3> DEFINE m == i + 1
      <3>1. m \in 0..n /\ m # 0 /\ m - 1 = i
        BY <1>2
      <3> HIDE DEF m
      <3>2. kept[m] = f[m]
        BY <2>2, <2>3, <2>5, <3>1
      <3> QED
        BY <3>1, <3>2 DEF m
    <2>6. \A i \in 0..n : i \in Same
      <3> HIDE DEF Same
      <3> QED
        BY <1>2, <2>4, <2>5, BoundedInduction
    <2>7. \A i \in 0..n : kept[i] \in S
      BY <1>7, <2>6
    <2>8. kept = [i \in 0..n |-> kept[i]]
      BY <2>1
    <2>9. kept \in [0..n -> S]
      BY <2>7, <2>8
    <2>10. kept[0] = <<>> /\ \A i \in 1..n :
              kept[i] = IF IsTerminator(i) THEN kept[i - 1] ELSE Append(kept[i - 1], content[i])
      <3>1. 0 \in 0..n /\ \A i \in 1..n : i \in 0..n /\ i # 0
        BY <1>2
      <3> QED
        BY <2>2, <3>1
    <2> QED
      BY <2>9, <2>10 DEF KeptRuns, S, n
  <1> HIDE DEF kept
  <1>11. PICK at : at \in LineStarts
    BY LineStartsExist
  <1>12. at \in [Nat -> 0..n] /\ at[0] = 0 /\ \A j \in Nat : at[j + 1] = After(at[j])
    BY <1>11 DEF LineStarts, n
  <1>13. ASSUME NEW j \in 1..n + 1
         PROVE  /\ lines[j] \in S
                /\ kept[at[j]] = kept[at[j - 1]] \o lines[j]
    <2>1. j - 1 \in Nat /\ j - 1 + 1 = j
      BY <1>2
    <2> DEFINE p == at[j - 1]
               text == ContentLine(j - 1)
    <2>2. IsEnd(p, End(p)) /\ IsPart(text, p, LastOf(p) - p) /\ p \in 0..n
      BY <1>11, <1>12, <2>1, LineAt
    <2>3. text \in S
      BY <2>2 DEF IsPart, S
    <2>4. kept[After(p)] = kept[p] \o text
      <3> HIDE DEF p, text
      <3> QED
        BY <1>10, <2>2, KeptLine DEF n
    <2>5. After(p) = at[j]
      BY <1>12, <2>1
    <2> QED
      BY <2>3, <2>4, <2>5
  <1>14. lines \in Seq(S) /\ Len(lines) = n + 1
    <2> DEFINE m == n + 1
    <2>0. lines = [j \in 1..n + 1 |-> lines[j]]
      OBVIOUS
    <2> HIDE DEF lines
    <2>1. m \in Nat /\ lines = [j \in 1..m |-> lines[j]] /\ \A j \in 1..m : lines[j] \in S
      BY <1>2, <1>13, <2>0
    <2> HIDE DEF m
    <2>2. lines \in [1..m -> S]
      BY <2>1
    <2>3. lines \in Seq(S) /\ Len(lines) = m
      BY <2>1, <2>2
    <2> QED
      BY <2>3 DEF m
  <1>15. PICK g \in [0..n + 1 -> S] :
              /\ g[0] = <<>>
              /\ \A j \in 1..n + 1 : g[j] = g[j - 1] \o lines[j]
              /\ FlattenSeq(lines) = g[n + 1]
    <2> HIDE DEF lines
    <2>1. \E g \in [0..Len(lines) -> S] :
              /\ g[0] = <<>>
              /\ \A j \in 1..Len(lines) : g[j] = g[j - 1] \o lines[j]
              /\ FlattenSeq(lines) = g[Len(lines)]
      BY <1>14, FlattenSteps DEF S
    <2> QED
      BY <1>14, <2>1
  <1> HIDE DEF lines
  <1> DEFINE T == {j \in 0..n + 1 : g[j] = kept[at[j]]}
  <1>16. 0 \in T
    <2>1. kept[at[0]] = <<>>
      BY <1>10, <1>12 DEF KeptRuns
    <2> QED
      BY <1>2, <1>15, <2>1
  <1>17. ASSUME NEW i \in 0..(n + 1) - 1, i \in T PROVE i + 1 \in T
    <2> DEFINE m == i + 1
    <2>1. m \in 1..n + 1 /\ m \in 0..n + 1 /\ m - 1 = i
      BY <1>2
    <2> HIDE DEF m
    <2>2. g[m] = kept[at[m]]
      BY <1>13, <1>15, <1>17, <2>1
    <2> QED
      BY <2>1, <2>2 DEF m
  <1>18. n + 1 \in T
    <2>1. n + 1 \in Nat /\ n + 1 \in 0..n + 1
      BY <1>2
    <2>2. \A j \in 0..n + 1 : j \in T
      <3> HIDE DEF T
      <3> QED
        BY <2>1, <1>16, <1>17, BoundedInduction
    <2> HIDE DEF T
    <2> QED
      BY <2>1, <2>2
  <1>19. at[n + 1] = n
    BY <1>11, EnoughLines DEF n
  <1>20. FlattenSeq(lines) = kept[n]
    BY <1>15, <1>18, <1>19
  <1> QED
    BY <1>1, <1>20

(* The lines positions are converted on are the text, all of it and each    *)
(* byte once, for every text (document.go:3-18, server/encoding.go:75-92).  *)
THEOREM LinesPartition == DocumentSpec => []LinesAreTheText
  <1>1. DocumentInv => LinesAreTheText
    BY LinesJoined DEF DocumentInv
  <1> QED
    BY <1>1, DocumentInvariance, PTL
==============================================================================
