----------------------------- MODULE PathsProofs -----------------------------
(***************************************************************************)
(* Facts about the operators of Paths: what the parts of a text put        *)
(* together are, and where a longer path leads.                            *)
(***************************************************************************)
EXTENDS Paths, Integers, SequenceTheorems, TLAPS, WellFoundedInduction, FiniteSetTheorems

\* A set of numbers has a least one
LEMMA MinIn ==
    ASSUME NEW S, S \subseteq Nat, S # {}
    PROVE  Min(S) \in S /\ \A y \in S : Min(S) =< y
<1>1. PICK x \in S : \A y \in S : <<y, x>> \notin OpToRel(<, Nat)
  BY WFMin, NatLessThanWellFounded
<1>2. \A y \in S : ~(y < x)
  BY <1>1 DEF OpToRel
<1>3. \A y \in S : x =< y
  BY <1>2
<1> QED
  BY <1>3 DEF Min

\* What holds of 0 and of the successor of each number it holds of holds of all
LEMMA AllNumbers ==
    ASSUME NEW S, 0 \in S, \A n \in Nat : n \in S => n + 1 \in S
    PROVE  \A n \in Nat : n \in S
<1> DEFINE T == {n \in Nat : n \notin S}
<1> SUFFICES ASSUME T # {} PROVE FALSE
  OBVIOUS
<1>1. Min(T) \in T /\ \A n \in T : Min(T) =< n
  BY MinIn
<1> DEFINE m == Min(T)
<1>2. m \in Nat /\ m \notin S /\ m # 0
  BY <1>1
<1>3. m - 1 \in Nat /\ m - 1 \notin T
  BY <1>1, <1>2
<1> QED
  BY <1>2, <1>3

\* The largest of some of the first n + 1 numbers, the last among them
LEMMA MaxOfUpTo == ASSUME NEW n \in Nat, NEW s \in SUBSET (1..n + 1), n + 1 \in s PROVE Max(s) = n + 1
<1>1. \A x \in s : x \in Int /\ n + 1 >= x
  OBVIOUS
<1>2. \A x \in s : (\A y \in s : x >= y) => x = n + 1
  BY <1>1
<1> QED
  BY <1>1, <1>2 DEF Max

-----------------------------------------------------------------------------
(* Folds                                                                   *)

\* Below() as a fold over the parts
BelowFold(parts, n, g) ==
    g = [s \in SUBSET (1..n) |->
            IF s = {} THEN <<>> ELSE Normalise(g[s \ {Max(s)}], parts[Max(s)])]

\* The function that the fold defines exists
LEMMA BelowFolds == ASSUME NEW parts PROVE \A n \in Nat : \E g : BelowFold(parts, n, g)
<1> DEFINE S == {n \in Nat : \E g : BelowFold(parts, n, g)}
<1>1. 0 \in S
  <2>1. \A s \in SUBSET (1..0) : s = {}
    OBVIOUS
  <2>2. BelowFold(parts, 0, [s \in SUBSET (1..0) |-> <<>>])
    BY <2>1 DEF BelowFold
  <2> QED
    BY <2>2
<1>2. ASSUME NEW n \in Nat, n \in S PROVE n + 1 \in S
  <2>1. PICK g : BelowFold(parts, n, g)
    BY <1>2
  <2> DEFINE h == [s \in SUBSET (1..n + 1) |->
                      IF n + 1 \in s THEN Normalise(g[s \ {n + 1}], parts[n + 1]) ELSE g[s]]
             H(s) == IF s = {} THEN <<>> ELSE Normalise(h[s \ {Max(s)}], parts[Max(s)])
  <2>2. ASSUME NEW s \in SUBSET (1..n + 1) PROVE h[s] = H(s)
    <3>1. CASE n + 1 \in s
      <4>1. Max(s) = n + 1
        BY <3>1, MaxOfUpTo
      <4>2. s \ {n + 1} \in SUBSET (1..n + 1) /\ n + 1 \notin s \ {n + 1}
        OBVIOUS
      <4>3. h[s \ {n + 1}] = g[s \ {n + 1}]
        BY <4>2
      <4>4. h[s] = Normalise(g[s \ {n + 1}], parts[n + 1])
        BY <3>1
      <4>5. s # {}
        BY <3>1
      <4> HIDE DEF h
      <4> QED
        BY <4>1, <4>3, <4>4, <4>5
    <3>2. CASE n + 1 \notin s
      <4>1. s \in SUBSET (1..n)
        BY <3>2
      <4>2. h[s] = g[s]
        BY <3>2
      <4>3. g[s] = IF s = {} THEN <<>> ELSE Normalise(g[s \ {Max(s)}], parts[Max(s)])
        BY <2>1, <4>1 DEF BelowFold
      <4>4. s \ {Max(s)} \in SUBSET (1..n + 1) /\ n + 1 \notin s \ {Max(s)}
        BY <3>2
      <4>5. h[s \ {Max(s)}] = g[s \ {Max(s)}]
        BY <4>4
      <4> HIDE DEF h
      <4> QED
        BY <4>2, <4>3, <4>5
    <3> QED
      BY <3>1, <3>2
  <2>3. h = [s \in SUBSET (1..n + 1) |-> H(s)]
    BY <2>2
  <2>4. BelowFold(parts, n + 1, h)
    BY <2>3 DEF BelowFold
  <2> QED
    BY <2>4
<1> HIDE DEF S
<1>3. \A n \in Nat : n \in S
  BY <1>1, <1>2, AllNumbers
<1> QED
  BY <1>3 DEF S

\* One step of it
LEMMA BelowFoldStep ==
    ASSUME NEW parts, NEW n \in Nat, NEW g, BelowFold(parts, n, g)
    PROVE  /\ g[1..0] = <<>>
           /\ \A k \in 0..n - 1 : g[1..k + 1] = Normalise(g[1..k], parts[k + 1])
<1>1. g[1..0] = <<>>
  BY DEF BelowFold
<1>2. ASSUME NEW k \in 0..n - 1 PROVE g[1..k + 1] = Normalise(g[1..k], parts[k + 1])
  <2>1. 1..k + 1 \in SUBSET (1..n) /\ 1..k + 1 # {}
    <3>1. 1 \in 1..k + 1 /\ \A x \in 1..k + 1 : x \in 1..n
      OBVIOUS
    <3> QED
      BY <3>1
  <2>2. Max(1..k + 1) = k + 1
    BY MaxOfUpTo
  <2>3. (1..k + 1) \ {k + 1} = 1..k
    OBVIOUS
  <2> QED
    BY <2>1, <2>2, <2>3 DEF BelowFold
<1> QED
  BY <1>1, <1>2

\* Below() is its value at all the parts
LEMMA BelowIsFold ==
    ASSUME NEW X, NEW parts \in Seq(X)
    PROVE  \E g : BelowFold(parts, Len(parts), g) /\ Below(parts) = g[1..Len(parts)]
<1>1. Len(parts) \in Nat /\ DOMAIN parts = 1..Len(parts)
  BY LenProperties
<1>2. \E g : BelowFold(parts, Len(parts), g)
  BY <1>1, BelowFolds
<1>3. Below(parts) = (CHOOSE g : BelowFold(parts, Len(parts), g))[1..Len(parts)]
  BY <1>1 DEF Below, FoldLeft, MapThenFoldSet, BelowFold
<1> QED
  BY <1>2, <1>3

\* normalizeRelativePath() before its first round, and a round more
LEMMA BelowEmpty == Below(<<>>) = <<>>
<1>1. PICK g : BelowFold(<<>>, Len(<<>>), g) /\ Below(<<>>) = g[1..Len(<<>>)]
  BY BelowIsFold, <<>> \in Seq({})
<1> QED
  BY <1>1, BelowFoldStep

LEMMA BelowAppend ==
    ASSUME NEW X, NEW parts \in Seq(X), NEW part \in X
    PROVE  Below(Append(parts, part)) = Normalise(Below(parts), part)
<1> DEFINE n == Len(parts)
           longer == Append(parts, part)
<1>1. n \in Nat /\ longer \in Seq(X) /\ Len(longer) = n + 1
  BY LenProperties
<1>2. \A k \in 1..n : longer[k] = parts[k]
  OBVIOUS
<1>3. longer[n + 1] = part
  OBVIOUS
<1> HIDE DEF longer
<1>4. PICK g : BelowFold(parts, n, g) /\ Below(parts) = g[1..n]
  BY BelowIsFold
<1>5. PICK h : BelowFold(longer, n + 1, h) /\ Below(longer) = h[1..n + 1]
  BY <1>1, BelowIsFold
<1>6. /\ g[1..0] = <<>>
      /\ \A k \in 0..n - 1 : g[1..k + 1] = Normalise(g[1..k], parts[k + 1])
  BY <1>1, <1>4, BelowFoldStep
<1>7. /\ h[1..0] = <<>>
      /\ \A k \in 0..n : h[1..k + 1] = Normalise(h[1..k], longer[k + 1])
  <2>1. n + 1 - 1 = n /\ n + 1 \in Nat
    BY <1>1
  <2> QED
    BY <1>5, <2>1, BelowFoldStep
<1> HIDE DEF n
<1> DEFINE S == {k \in Nat : k =< n => h[1..k] = g[1..k]}
<1>8. 0 \in S
  BY <1>6, <1>7
<1>9. ASSUME NEW k \in Nat, k \in S PROVE k + 1 \in S
  <2> SUFFICES ASSUME k + 1 =< n PROVE h[1..k + 1] = g[1..k + 1]
    OBVIOUS
  <2>1. k \in 0..n - 1 /\ k \in 0..n /\ k + 1 \in 1..n /\ k =< n
    BY <1>1
  <2> QED
    BY <1>2, <1>6, <1>7, <1>9, <2>1 DEF n
<1> HIDE DEF S
<1>10. n \in S
  BY <1>1, <1>8, <1>9, AllNumbers
<1>11. h[1..n] = g[1..n]
  BY <1>1, <1>10 DEF S
<1>12. h[1..n + 1] = Normalise(h[1..n], longer[n + 1])
  BY <1>1, <1>7
<1> QED
  BY <1>3, <1>4, <1>5, <1>11, <1>12 DEF longer, n

\* Filled() as a fold over the parts
FilledFold(parts, n, g) ==
    g = [s \in SUBSET (1..n) |->
            IF s = {} THEN <<>> ELSE Fill(g[s \ {Max(s)}], parts[Max(s)])]

\* The function that the fold defines exists
LEMMA FilledFolds == ASSUME NEW parts PROVE \A n \in Nat : \E g : FilledFold(parts, n, g)
<1> DEFINE S == {n \in Nat : \E g : FilledFold(parts, n, g)}
<1>1. 0 \in S
  <2>1. \A s \in SUBSET (1..0) : s = {}
    OBVIOUS
  <2>2. FilledFold(parts, 0, [s \in SUBSET (1..0) |-> <<>>])
    BY <2>1 DEF FilledFold
  <2> QED
    BY <2>2
<1>2. ASSUME NEW n \in Nat, n \in S PROVE n + 1 \in S
  <2>1. PICK g : FilledFold(parts, n, g)
    BY <1>2
  <2> DEFINE h == [s \in SUBSET (1..n + 1) |->
                      IF n + 1 \in s THEN Fill(g[s \ {n + 1}], parts[n + 1]) ELSE g[s]]
             H(s) == IF s = {} THEN <<>> ELSE Fill(h[s \ {Max(s)}], parts[Max(s)])
  <2>2. ASSUME NEW s \in SUBSET (1..n + 1) PROVE h[s] = H(s)
    <3>1. CASE n + 1 \in s
      <4>1. Max(s) = n + 1
        BY <3>1, MaxOfUpTo
      <4>2. s \ {n + 1} \in SUBSET (1..n + 1) /\ n + 1 \notin s \ {n + 1}
        OBVIOUS
      <4>3. h[s \ {n + 1}] = g[s \ {n + 1}]
        BY <4>2
      <4>4. h[s] = Fill(g[s \ {n + 1}], parts[n + 1])
        BY <3>1
      <4>5. s # {}
        BY <3>1
      <4> HIDE DEF h
      <4> QED
        BY <4>1, <4>3, <4>4, <4>5
    <3>2. CASE n + 1 \notin s
      <4>1. s \in SUBSET (1..n)
        BY <3>2
      <4>2. h[s] = g[s]
        BY <3>2
      <4>3. g[s] = IF s = {} THEN <<>> ELSE Fill(g[s \ {Max(s)}], parts[Max(s)])
        BY <2>1, <4>1 DEF FilledFold
      <4>4. s \ {Max(s)} \in SUBSET (1..n + 1) /\ n + 1 \notin s \ {Max(s)}
        BY <3>2
      <4>5. h[s \ {Max(s)}] = g[s \ {Max(s)}]
        BY <4>4
      <4> HIDE DEF h
      <4> QED
        BY <4>2, <4>3, <4>5
    <3> QED
      BY <3>1, <3>2
  <2>3. h = [s \in SUBSET (1..n + 1) |-> H(s)]
    BY <2>2
  <2>4. FilledFold(parts, n + 1, h)
    BY <2>3 DEF FilledFold
  <2> QED
    BY <2>4
<1> HIDE DEF S
<1>3. \A n \in Nat : n \in S
  BY <1>1, <1>2, AllNumbers
<1> QED
  BY <1>3 DEF S

\* One step of it
LEMMA FilledFoldStep ==
    ASSUME NEW parts, NEW n \in Nat, NEW g, FilledFold(parts, n, g)
    PROVE  /\ g[1..0] = <<>>
           /\ \A k \in 0..n - 1 : g[1..k + 1] = Fill(g[1..k], parts[k + 1])
<1>1. g[1..0] = <<>>
  BY DEF FilledFold
<1>2. ASSUME NEW k \in 0..n - 1 PROVE g[1..k + 1] = Fill(g[1..k], parts[k + 1])
  <2>1. 1..k + 1 \in SUBSET (1..n) /\ 1..k + 1 # {}
    <3>1. 1 \in 1..k + 1 /\ \A x \in 1..k + 1 : x \in 1..n
      OBVIOUS
    <3> QED
      BY <3>1
  <2>2. Max(1..k + 1) = k + 1
    BY MaxOfUpTo
  <2>3. (1..k + 1) \ {k + 1} = 1..k
    OBVIOUS
  <2> QED
    BY <2>1, <2>2, <2>3 DEF FilledFold
<1> QED
  BY <1>1, <1>2

\* It is its value at all the parts
LEMMA FilledIsFold ==
    ASSUME NEW X, NEW parts \in Seq(X)
    PROVE  \E g : FilledFold(parts, Len(parts), g) /\ Filled(parts) = g[1..Len(parts)]
<1>1. Len(parts) \in Nat /\ DOMAIN parts = 1..Len(parts)
  BY LenProperties
<1>2. \E g : FilledFold(parts, Len(parts), g)
  BY <1>1, FilledFolds
<1>3. Filled(parts) = (CHOOSE g : FilledFold(parts, Len(parts), g))[1..Len(parts)]
  BY <1>1 DEF Filled, FoldLeft, MapThenFoldSet, FilledFold
<1> QED
  BY <1>2, <1>3

\* Nothing, and a part more
LEMMA FilledEmpty == Filled(<<>>) = <<>>
<1>1. PICK g : FilledFold(<<>>, Len(<<>>), g) /\ Filled(<<>>) = g[1..Len(<<>>)]
  BY FilledIsFold, <<>> \in Seq({})
<1> QED
  BY <1>1, FilledFoldStep

LEMMA FilledAppend ==
    ASSUME NEW X, NEW parts \in Seq(X), NEW part \in X
    PROVE  Filled(Append(parts, part)) = Fill(Filled(parts), part)
<1> DEFINE n == Len(parts)
           longer == Append(parts, part)
<1>1. n \in Nat /\ longer \in Seq(X) /\ Len(longer) = n + 1
  BY LenProperties
<1>2. \A k \in 1..n : longer[k] = parts[k]
  OBVIOUS
<1>3. longer[n + 1] = part
  OBVIOUS
<1> HIDE DEF longer
<1>4. PICK g : FilledFold(parts, n, g) /\ Filled(parts) = g[1..n]
  BY FilledIsFold
<1>5. PICK h : FilledFold(longer, n + 1, h) /\ Filled(longer) = h[1..n + 1]
  BY <1>1, FilledIsFold
<1>6. /\ g[1..0] = <<>>
      /\ \A k \in 0..n - 1 : g[1..k + 1] = Fill(g[1..k], parts[k + 1])
  BY <1>1, <1>4, FilledFoldStep
<1>7. /\ h[1..0] = <<>>
      /\ \A k \in 0..n : h[1..k + 1] = Fill(h[1..k], longer[k + 1])
  <2>1. n + 1 - 1 = n /\ n + 1 \in Nat
    BY <1>1
  <2> QED
    BY <1>5, <2>1, FilledFoldStep
<1> HIDE DEF n
<1> DEFINE S == {k \in Nat : k =< n => h[1..k] = g[1..k]}
<1>8. 0 \in S
  BY <1>6, <1>7
<1>9. ASSUME NEW k \in Nat, k \in S PROVE k + 1 \in S
  <2> SUFFICES ASSUME k + 1 =< n PROVE h[1..k + 1] = g[1..k + 1]
    OBVIOUS
  <2>1. k \in 0..n - 1 /\ k \in 0..n /\ k + 1 \in 1..n /\ k =< n
    BY <1>1
  <2> QED
    BY <1>2, <1>6, <1>7, <1>9, <2>1 DEF n
<1> HIDE DEF S
<1>10. n \in S
  BY <1>1, <1>8, <1>9, AllNumbers
<1>11. h[1..n] = g[1..n]
  BY <1>1, <1>10 DEF S
<1>12. h[1..n + 1] = Fill(h[1..n], longer[n + 1])
  BY <1>1, <1>7
<1> QED
  BY <1>3, <1>4, <1>5, <1>11, <1>12 DEF longer, n

-----------------------------------------------------------------------------
(* The text of a path                                                      *)

\* One round of it
Slashed(text, name) == text \o <<"/">> \o name

\* TextOf() as a fold over the names
TextFold(parts, n, g) ==
    g = [s \in SUBSET (1..n) |->
            IF s = {} THEN <<>> ELSE Slashed(g[s \ {Max(s)}], parts[Max(s)])]

\* The same for the text of a path: the function exists, its step, and its value
LEMMA TextFolds == ASSUME NEW parts PROVE \A n \in Nat : \E g : TextFold(parts, n, g)
<1> DEFINE S == {n \in Nat : \E g : TextFold(parts, n, g)}
<1>1. 0 \in S
  <2>1. \A s \in SUBSET (1..0) : s = {}
    OBVIOUS
  <2>2. TextFold(parts, 0, [s \in SUBSET (1..0) |-> <<>>])
    BY <2>1 DEF TextFold
  <2> QED
    BY <2>2
<1>2. ASSUME NEW n \in Nat, n \in S PROVE n + 1 \in S
  <2>1. PICK g : TextFold(parts, n, g)
    BY <1>2
  <2> DEFINE h == [s \in SUBSET (1..n + 1) |->
                      IF n + 1 \in s THEN Slashed(g[s \ {n + 1}], parts[n + 1]) ELSE g[s]]
             H(s) == IF s = {} THEN <<>> ELSE Slashed(h[s \ {Max(s)}], parts[Max(s)])
  <2>2. ASSUME NEW s \in SUBSET (1..n + 1) PROVE h[s] = H(s)
    <3>1. CASE n + 1 \in s
      <4>1. Max(s) = n + 1
        BY <3>1, MaxOfUpTo
      <4>2. s \ {n + 1} \in SUBSET (1..n + 1) /\ n + 1 \notin s \ {n + 1}
        OBVIOUS
      <4>3. h[s \ {n + 1}] = g[s \ {n + 1}]
        BY <4>2
      <4>4. h[s] = Slashed(g[s \ {n + 1}], parts[n + 1])
        BY <3>1
      <4>5. s # {}
        BY <3>1
      <4> HIDE DEF h
      <4> QED
        BY <4>1, <4>3, <4>4, <4>5
    <3>2. CASE n + 1 \notin s
      <4>1. s \in SUBSET (1..n)
        BY <3>2
      <4>2. h[s] = g[s]
        BY <3>2
      <4>3. g[s] = IF s = {} THEN <<>> ELSE Slashed(g[s \ {Max(s)}], parts[Max(s)])
        BY <2>1, <4>1 DEF TextFold
      <4>4. s \ {Max(s)} \in SUBSET (1..n + 1) /\ n + 1 \notin s \ {Max(s)}
        BY <3>2
      <4>5. h[s \ {Max(s)}] = g[s \ {Max(s)}]
        BY <4>4
      <4> HIDE DEF h
      <4> QED
        BY <4>2, <4>3, <4>5
    <3> QED
      BY <3>1, <3>2
  <2>3. h = [s \in SUBSET (1..n + 1) |-> H(s)]
    BY <2>2
  <2>4. TextFold(parts, n + 1, h)
    BY <2>3 DEF TextFold
  <2> QED
    BY <2>4
<1> HIDE DEF S
<1>3. \A n \in Nat : n \in S
  BY <1>1, <1>2, AllNumbers
<1> QED
  BY <1>3 DEF S

LEMMA TextFoldStep ==
    ASSUME NEW parts, NEW n \in Nat, NEW g, TextFold(parts, n, g)
    PROVE  /\ g[1..0] = <<>>
           /\ \A k \in 0..n - 1 : g[1..k + 1] = Slashed(g[1..k], parts[k + 1])
<1>1. g[1..0] = <<>>
  BY DEF TextFold
<1>2. ASSUME NEW k \in 0..n - 1 PROVE g[1..k + 1] = Slashed(g[1..k], parts[k + 1])
  <2>1. 1..k + 1 \in SUBSET (1..n) /\ 1..k + 1 # {}
    <3>1. 1 \in 1..k + 1 /\ \A x \in 1..k + 1 : x \in 1..n
      OBVIOUS
    <3> QED
      BY <3>1
  <2>2. Max(1..k + 1) = k + 1
    BY MaxOfUpTo
  <2>3. (1..k + 1) \ {k + 1} = 1..k
    OBVIOUS
  <2> QED
    BY <2>1, <2>2, <2>3 DEF TextFold
<1> QED
  BY <1>1, <1>2

LEMMA TextIsFold ==
    ASSUME NEW X, NEW parts \in Seq(X)
    PROVE  \E g : TextFold(parts, Len(parts), g) /\ TextOf(parts) = g[1..Len(parts)]
<1>1. Len(parts) \in Nat /\ DOMAIN parts = 1..Len(parts)
  BY LenProperties
<1>2. \E g : TextFold(parts, Len(parts), g)
  BY <1>1, TextFolds
<1>3. TextOf(parts) = (CHOOSE g : TextFold(parts, Len(parts), g))[1..Len(parts)]
  BY <1>1 DEF TextOf, Slashed, FoldLeft, MapThenFoldSet, TextFold
<1> QED
  BY <1>2, <1>3

\* The text of the top, and of a path with a name more
LEMMA TextOfEmpty == TextOf(<<>>) = <<>>
<1>1. PICK g : TextFold(<<>>, Len(<<>>), g) /\ TextOf(<<>>) = g[1..Len(<<>>)]
  BY TextIsFold, <<>> \in Seq({})
<1> QED
  BY <1>1, TextFoldStep

LEMMA TextOfAppend ==
    ASSUME NEW X, NEW parts \in Seq(X), NEW part \in X
    PROVE  TextOf(Append(parts, part)) = Slashed(TextOf(parts), part)
<1> DEFINE n == Len(parts)
           longer == Append(parts, part)
<1>1. n \in Nat /\ longer \in Seq(X) /\ Len(longer) = n + 1
  BY LenProperties
<1>2. \A k \in 1..n : longer[k] = parts[k]
  OBVIOUS
<1>3. longer[n + 1] = part
  OBVIOUS
<1> HIDE DEF longer
<1>4. PICK g : TextFold(parts, n, g) /\ TextOf(parts) = g[1..n]
  BY TextIsFold
<1>5. PICK h : TextFold(longer, n + 1, h) /\ TextOf(longer) = h[1..n + 1]
  BY <1>1, TextIsFold
<1>6. /\ g[1..0] = <<>>
      /\ \A k \in 0..n - 1 : g[1..k + 1] = Slashed(g[1..k], parts[k + 1])
  BY <1>1, <1>4, TextFoldStep
<1>7. /\ h[1..0] = <<>>
      /\ \A k \in 0..n : h[1..k + 1] = Slashed(h[1..k], longer[k + 1])
  <2>1. n + 1 - 1 = n /\ n + 1 \in Nat
    BY <1>1
  <2> QED
    BY <1>5, <2>1, TextFoldStep
<1> HIDE DEF n
<1> DEFINE S == {k \in Nat : k =< n => h[1..k] = g[1..k]}
<1>8. 0 \in S
  BY <1>6, <1>7
<1>9. ASSUME NEW k \in Nat, k \in S PROVE k + 1 \in S
  <2> SUFFICES ASSUME k + 1 =< n PROVE h[1..k + 1] = g[1..k + 1]
    OBVIOUS
  <2>1. k \in 0..n - 1 /\ k \in 0..n /\ k + 1 \in 1..n /\ k =< n
    BY <1>1
  <2> QED
    BY <1>2, <1>6, <1>7, <1>9, <2>1 DEF n
<1> HIDE DEF S
<1>10. n \in S
  BY <1>1, <1>8, <1>9, AllNumbers
<1>11. h[1..n] = g[1..n]
  BY <1>1, <1>10 DEF S
<1>12. h[1..n + 1] = Slashed(h[1..n], longer[n + 1])
  BY <1>1, <1>7
<1> QED
  BY <1>3, <1>4, <1>5, <1>11, <1>12 DEF longer, n

-----------------------------------------------------------------------------
(* Counting                                                                *)

\* How many of S are smaller than k, and the one of which n are
RankIn(S, k) == Cardinality({c \in S : c < k})
At(S, n) == CHOOSE k \in S : RankIn(S, k) = n

\* A number has a higher rank than a smaller one
LEMMA Ranks ==
    ASSUME NEW S \in SUBSET Nat, IsFiniteSet(S), NEW k \in S, NEW j \in S, j < k
    PROVE  RankIn(S, j) < RankIn(S, k) /\ RankIn(S, j) \in Nat
<1> DEFINE below == {c \in S : c < j}
<1>1. IsFiniteSet(below) /\ IsFiniteSet({c \in S : c < k}) /\ Cardinality(below) \in Nat
      /\ Cardinality({c \in S : c < k}) \in Nat
  BY FS_Subset, FS_CardinalityType
<1>2. below \cup {j} \in SUBSET {c \in S : c < k} /\ j \notin below
  <2>1. j \in Nat /\ k \in Nat /\ \A c \in S : c \in Nat
    OBVIOUS
  <2>2. ~(j < j) /\ \A c \in S : c < j => c < k
    BY <2>1
  <2> QED
    BY <2>2
<1>3. Cardinality(below \cup {j}) = Cardinality(below) + 1
  BY <1>1, <1>2, FS_AddElement
<1>4. Cardinality(below \cup {j}) <= Cardinality({c \in S : c < k})
  BY <1>1, <1>2, FS_Subset
<1> HIDE DEF below
<1> QED
  BY <1>1, <1>3, <1>4 DEF RankIn, below

\* No two have the same rank
LEMMA RankOnce ==
    ASSUME NEW S \in SUBSET Nat, IsFiniteSet(S), NEW k \in S, NEW j \in S,
           RankIn(S, j) = RankIn(S, k)
    PROVE  j = k
<1>1. j < k \/ k < j \/ j = k
  OBVIOUS
<1>2. j < k => RankIn(S, j) < RankIn(S, k) /\ RankIn(S, j) \in Nat
  BY Ranks
<1>3. k < j => RankIn(S, k) < RankIn(S, j) /\ RankIn(S, k) \in Nat
  BY Ranks
<1> QED
  BY <1>1, <1>2, <1>3

\* Every rank below the number of them is taken
LEMMA RankFound ==
    ASSUME NEW m \in Nat, NEW S \in SUBSET (0..m), NEW n \in 0..Cardinality(S) - 1
    PROVE  \E k \in S : RankIn(S, k) = n
<1> DEFINE Good(T) == \A n_1 \in 0..Cardinality(T) - 1 : \E k \in T : RankIn(T, k) = n_1
           Up == {l \in Nat : \A T \in SUBSET (0..l) : Good(T)}
<1>1. 0 \in Up
  <2> SUFFICES ASSUME NEW T \in SUBSET (0..0) PROVE Good(T)
    OBVIOUS
  <2>1. T = {} \/ T = {0}
    <3>1. \A t \in T : t = 0
      OBVIOUS
    <3> QED
      BY <3>1
  <2>2. CASE T = {}
    BY <2>2, FS_EmptySet
  <2>3. CASE T = {0}
    <3>1. Cardinality(T) = 1
      BY <2>3, FS_Singleton
    <3>2. {c \in T : c < 0} = {}
      BY <2>3
    <3>3. RankIn(T, 0) = 0
      BY <3>2, FS_EmptySet DEF RankIn
    <3> QED
      BY <2>3, <3>1, <3>3
  <2> QED
    BY <2>1, <2>2, <2>3
<1>2. ASSUME NEW l \in Nat, l \in Up PROVE l + 1 \in Up
  <2> SUFFICES ASSUME NEW T \in SUBSET (0..l + 1) PROVE Good(T)
    OBVIOUS
  <2> DEFINE R == T \ {l + 1}
  <2>1. R \in SUBSET (0..l) /\ Good(R)
    BY <1>2
  <2>2. CASE l + 1 \notin T
    <3>1. R = T
      BY <2>2
    <3> QED
      BY <2>1, <3>1
  <2>3. CASE l + 1 \in T
    <3>1. IsFiniteSet(T) /\ IsFiniteSet(R) /\ Cardinality(T) \in Nat
          /\ Cardinality(R) = Cardinality(T) - 1 /\ Cardinality(R) \in Nat
      <4>1. IsFiniteSet(0..l + 1)
        BY FS_Interval
      <4>2. IsFiniteSet(T)
        BY <4>1, FS_Subset
      <4>3. IsFiniteSet(R) /\ Cardinality(R) = Cardinality(T) - 1
        BY <2>3, <4>2, FS_RemoveElement
      <4>4. Cardinality(T) \in Nat /\ Cardinality(R) \in Nat
        BY <4>2, <4>3, FS_CardinalityType
      <4> QED
        BY <4>2, <4>3, <4>4
    <3>2. ASSUME NEW k \in R PROVE RankIn(T, k) = RankIn(R, k)
      <4>1. {c \in T : c < k} = {c \in R : c < k}
        BY <2>1
      <4> QED
        BY <4>1 DEF RankIn
    <3>3. RankIn(T, l + 1) = Cardinality(R)
      <4>1. {c \in T : c < l + 1} = R
        <5>1. \A c \in T : c \in Nat /\ c <= l + 1
          OBVIOUS
        <5>2. \A c \in T : c < l + 1 <=> c # l + 1
          BY <5>1
        <5> QED
          BY <5>2
      <4> QED
        BY <4>1 DEF RankIn
    <3> SUFFICES ASSUME NEW p \in 0..Cardinality(T) - 1 PROVE \E k \in T : RankIn(T, k) = p
      OBVIOUS
    <3>4. p = Cardinality(R) \/ p \in 0..Cardinality(R) - 1
      BY <3>1
    <3>5. CASE p \in 0..Cardinality(R) - 1
      <4>1. PICK k \in R : RankIn(R, k) = p
        BY <2>1, <3>5
      <4> QED
        BY <3>2, <4>1
    <3> QED
      BY <2>3, <3>3, <3>4, <3>5
  <2> QED
    BY <2>2, <2>3
<1> HIDE DEF Up
<1>3. m \in Up
  BY <1>1, <1>2, AllNumbers
<1> QED
  BY <1>3 DEF Up

\* The number at a rank, and the rank of a number
LEMMA AtRank ==
    ASSUME NEW m \in Nat, NEW S \in SUBSET (0..m)
    PROVE  /\ \A n \in 0..Cardinality(S) - 1 : At(S, n) \in S /\ RankIn(S, At(S, n)) = n
           /\ \A k \in S : RankIn(S, k) \in 0..Cardinality(S) - 1 /\ At(S, RankIn(S, k)) = k
<1>0. S \in SUBSET Nat /\ IsFiniteSet(S) /\ Cardinality(S) \in Nat
  <2>1. IsFiniteSet(0..m)
    BY FS_Interval
  <2>2. IsFiniteSet(S)
    BY <2>1, FS_Subset
  <2>3. \A k \in S : k \in Nat
    OBVIOUS
  <2> QED
    BY <2>2, <2>3, FS_CardinalityType
<1>1. ASSUME NEW n \in 0..Cardinality(S) - 1 PROVE At(S, n) \in S /\ RankIn(S, At(S, n)) = n
  BY RankFound DEF At
<1>2. ASSUME NEW k \in S PROVE RankIn(S, k) \in 0..Cardinality(S) - 1 /\ At(S, RankIn(S, k)) = k
  <2>1. {c \in S : c < k} \in SUBSET (S \ {k})
    OBVIOUS
  <2>2. IsFiniteSet(S \ {k}) /\ Cardinality(S \ {k}) = Cardinality(S) - 1
    BY <1>0, FS_RemoveElement
  <2>3. RankIn(S, k) <= Cardinality(S) - 1 /\ RankIn(S, k) \in Nat
    BY <2>1, <2>2, FS_Subset, FS_CardinalityType DEF RankIn
  <2>4. RankIn(S, k) \in 0..Cardinality(S) - 1
    BY <1>0, <2>3
  <2>5. At(S, RankIn(S, k)) \in S /\ RankIn(S, At(S, RankIn(S, k))) = RankIn(S, k)
    BY <1>1, <2>4
  <2>6. PICK j \in S : j = At(S, RankIn(S, k)) /\ RankIn(S, j) = RankIn(S, k)
    BY <2>5
  <2>7. j = k
    BY <1>0, <2>6, RankOnce
  <2> QED
    BY <2>4, <2>6, <2>7
<1> QED
  BY <1>1, <1>2

\* Adding d to each number changes nothing in how many there are
LEMMA ShiftCount ==
    ASSUME NEW S \in SUBSET Nat, IsFiniteSet(S), NEW d \in Nat
    PROVE  /\ IsFiniteSet({d + k : k \in S})
           /\ Cardinality({d + k : k \in S}) = Cardinality(S)
<1> DEFINE T == {d + k : k \in S}
           f == [k \in S |-> d + k]
<1>1. f \in [S -> T]
  OBVIOUS
<1>2. \A a, b \in S : f[a] = f[b] => a = b
  <2>1. \A a, b \in S : a \in Nat /\ b \in Nat
    OBVIOUS
  <2> QED
    BY <2>1
<1>3. \A t \in T : \E s \in S : f[s] = t
  OBVIOUS
<1>4. ExistsBijection(S, T)
  <2> HIDE DEF f, T
  <2>1. f \in Bijection(S, T)
    BY <1>1, <1>2, <1>3 DEF Bijection, Injection, Surjection, IsInjective
  <2> QED
    BY <2>1 DEF ExistsBijection
<1> QED
  BY <1>4, FS_Bijection

\* Two parts of two sequences with the same elements
LEMMA SubSeqSame ==
    ASSUME NEW X, NEW s \in Seq(X), NEW t \in Seq(X), NEW d \in Nat, NEW a \in Int, NEW b \in Int,
           NEW p, NEW q, p = d + a, q = d + b,
           \A k \in a..b : k \in 1..Len(t) /\ d + k \in 1..Len(s) /\ s[d + k] = t[k]
    PROVE  SubSeq(s, p, q) = SubSeq(t, a, b)
<1>1. \A k \in a..b : t[k] \in X
  BY ElementOfSeq
<1>2. \A k \in p..q : s[k] \in X
  <2> SUFFICES ASSUME NEW k \in p..q PROVE s[k] \in X
    OBVIOUS
  <2>1. k - d \in a..b /\ d + (k - d) = k
    OBVIOUS
  <2> QED
    BY <2>1, ElementOfSeq
<1>3. /\ SubSeq(t, a, b) \in Seq(X)
      /\ Len(SubSeq(t, a, b)) = IF a <= b THEN b - a + 1 ELSE 0
      /\ \A k \in 1..b - a + 1 : SubSeq(t, a, b)[k] = t[a + k - 1]
  BY <1>1, SubSeqProperties
<1>4. /\ SubSeq(s, p, q) \in Seq(X)
      /\ Len(SubSeq(s, p, q)) = IF p <= q THEN q - p + 1 ELSE 0
      /\ \A k \in 1..q - p + 1 :
             SubSeq(s, p, q)[k] = s[p + k - 1]
  <2>1. p \in Int /\ q \in Int
    OBVIOUS
  <2> QED
    BY <1>2, <2>1, SubSeqProperties
<1>5. Len(SubSeq(s, p, q)) = Len(SubSeq(t, a, b))
  BY <1>3, <1>4
<1>6. ASSUME NEW k \in 1..Len(SubSeq(t, a, b))
      PROVE  SubSeq(s, p, q)[k] = SubSeq(t, a, b)[k]
  <2>1. k \in 1..b - a + 1 /\ k \in 1..q - p + 1
    BY <1>3
  <2>2. a + k - 1 \in a..b /\ d + (a + k - 1) = p + k - 1
    BY <2>1
  <2>3. s[d + (a + k - 1)] = t[a + k - 1]
    BY <2>2
  <2> QED
    BY <1>3, <1>4, <2>1, <2>2, <2>3
<1> QED
  BY <1>3, <1>4, <1>5, <1>6, SeqEqual

-----------------------------------------------------------------------------
(* The parts of a text                                                     *)

\* Where the parts of a text begin and end
Cuts(text) == {0, Len(text) + 1} \cup {k \in DOMAIN text : text[k] = "/"}
Pieces(text) == Cardinality(Cuts(text)) - 1

\* The parts of a text lie between its cuts
LEMMA PartsAre ==
    ASSUME NEW X, NEW text \in Seq(X)
    PROVE  /\ Parts(text) = [n \in 1..Pieces(text) |->
                  SubSeq(text, At(Cuts(text), n - 1) + 1, At(Cuts(text), n) - 1)]
           /\ Cuts(text) \in SUBSET (0..Len(text) + 1) /\ IsFiniteSet(Cuts(text))
           /\ Pieces(text) \in Nat
           /\ Parts(text) \in Seq(Seq(X)) /\ Len(Parts(text)) = Pieces(text)
<1>1. Len(text) \in Nat /\ DOMAIN text = 1..Len(text) /\ \A k \in 1..Len(text) : text[k] \in X
  BY LenProperties, ElementOfSeq
<1>2. Cuts(text) \in SUBSET (0..Len(text) + 1)
  <2>1. 0 \in 0..Len(text) + 1 /\ Len(text) + 1 \in 0..Len(text) + 1
        /\ \A k \in DOMAIN text : k \in 0..Len(text) + 1
    BY <1>1
  <2> QED
    BY <2>1 DEF Cuts
<1>3. IsFiniteSet(Cuts(text)) /\ Cardinality(Cuts(text)) \in Nat
  <2>1. IsFiniteSet(0..Len(text) + 1)
    BY <1>1, FS_Interval
  <2>2. IsFiniteSet(Cuts(text))
    BY <1>2, <2>1, FS_Subset
  <2> QED
    BY <2>2, FS_CardinalityType
<1>4. Cardinality(Cuts(text)) # 0
  BY <1>3, FS_EmptySet DEF Cuts
<1>5. Pieces(text) \in Nat
  BY <1>3, <1>4 DEF Pieces
<1>6. Parts(text) = [n \in 1..Pieces(text) |->
                  SubSeq(text, At(Cuts(text), n - 1) + 1, At(Cuts(text), n) - 1)]
  BY DEF Parts, Pieces, Cuts, At, RankIn
<1>7. ASSUME NEW n \in 1..Pieces(text)
      PROVE  SubSeq(text, At(Cuts(text), n - 1) + 1, At(Cuts(text), n) - 1) \in Seq(X)
  <2> DEFINE a == At(Cuts(text), n - 1)
             b == At(Cuts(text), n)
  <2>1. a \in Cuts(text) /\ b \in Cuts(text)
    <3>1. n - 1 \in 0..Cardinality(Cuts(text)) - 1 /\ n \in 0..Cardinality(Cuts(text)) - 1
      BY <1>3 DEF Pieces
    <3>2. Len(text) + 1 \in Nat
      BY <1>1
    <3> QED
      BY <1>2, <3>1, <3>2, AtRank
  <2>2. a \in 0..Len(text) + 1 /\ b \in 0..Len(text) + 1
    BY <1>2, <2>1
  <2> HIDE DEF a, b
  <2>3. a + 1 \in Int /\ b - 1 \in Int /\ \A k \in a + 1..b - 1 : k \in 1..Len(text)
    BY <1>1, <2>2
  <2>4. SubSeq(text, a + 1, b - 1) \in Seq(X)
    BY <1>1, <2>3, SubSeqProperties
  <2> QED
    BY <2>4 DEF a, b
<1>8. Parts(text) \in Seq(Seq(X)) /\ Len(Parts(text)) = Pieces(text)
  <2>1. Parts(text) \in [1..Pieces(text) -> Seq(X)]
    BY <1>6, <1>7
  <2> QED
    BY <1>5, <2>1
<1> QED
  BY <1>2, <1>3, <1>5, <1>6, <1>8

\* The parts of two texts with a slash between them
LEMMA PartsAcrossSlash ==
    ASSUME NEW X, "/" \in X, NEW x \in Seq(X), NEW y \in Seq(X)
    PROVE  Parts(x \o <<"/">> \o y) = Parts(x) \o Parts(y)
<1> DEFINE z == x \o <<"/">> \o y
           m == Len(x)
           n == Len(y)
           SX == Cuts(x)
           SY == Cuts(y)
           SZ == Cuts(z)
           a == Pieces(x)
           b == Pieces(y)
           Shift(S) == {(m + 1) + k : k \in S}
<1>1. m \in Nat /\ n \in Nat /\ DOMAIN x = 1..m /\ DOMAIN y = 1..n
  BY LenProperties
<1>2. /\ z \in Seq(X) /\ Len(z) = m + 1 + n /\ DOMAIN z = 1..m + 1 + n
      /\ \A k \in 1..m : z[k] = x[k]
      /\ z[m + 1] = "/"
      /\ \A k \in 1..n : z[(m + 1) + k] = y[k]
  <2>1. <<"/">> \in Seq(X) /\ Len(<<"/">>) = 1 /\ <<"/">>[1] = "/"
    OBVIOUS
  <2> DEFINE w == x \o <<"/">>
  <2>2. w \in Seq(X) /\ Len(w) = m + 1 /\ w[m + 1] = "/" /\ \A k \in 1..m : w[k] = x[k]
    <3>1. /\ w \in Seq(X) /\ Len(w) = m + 1
          /\ \A k \in 1..m + 1 : w[k] = IF k <= m THEN x[k] ELSE <<"/">>[k - m]
      BY <1>1, <2>1, ConcatProperties
    <3>2. m + 1 \in 1..m + 1 /\ ~(m + 1 <= m) /\ (m + 1) - m = 1
          /\ \A k \in 1..m : k \in 1..m + 1 /\ k <= m
      BY <1>1
    <3> HIDE DEF w
    <3> QED
      BY <2>1, <3>1, <3>2
  <2> HIDE DEF w
  <2>3. /\ w \o y \in Seq(X) /\ Len(w \o y) = m + 1 + n
        /\ \A k \in 1..m + 1 + n : (w \o y)[k] = IF k <= m + 1 THEN w[k] ELSE y[k - (m + 1)]
    <3>1. /\ w \o y \in Seq(X) /\ Len(w \o y) = Len(w) + n
          /\ \A k \in 1..Len(w) + n : (w \o y)[k] = IF k <= Len(w) THEN w[k] ELSE y[k - Len(w)]
      BY <2>2, ConcatProperties
    <3> QED
      BY <2>2, <3>1
  <2>4. z = w \o y
    BY DEF w
  <2>5. DOMAIN z = 1..m + 1 + n
    BY <2>3, <2>4, LenProperties
  <2>6. \A k \in 1..m : k \in 1..m + 1 + n /\ k <= m + 1
    BY <1>1
  <2>7. m + 1 \in 1..m + 1 + n /\ m + 1 <= m + 1
    BY <1>1
  <2>8. \A k \in 1..n : (m + 1) + k \in 1..m + 1 + n /\ ~((m + 1) + k <= m + 1)
                        /\ ((m + 1) + k) - (m + 1) = k
    BY <1>1
  <2> HIDE DEF z
  <2> QED
    BY <2>2, <2>3, <2>4, <2>5, <2>6, <2>7, <2>8
<1> HIDE DEF z
<1>3. /\ SX \in SUBSET (0..m + 1) /\ SY \in SUBSET (0..n + 1) /\ SZ \in SUBSET (0..m + n + 2)
      /\ IsFiniteSet(SX) /\ IsFiniteSet(SY) /\ IsFiniteSet(SZ)
      /\ a \in Nat /\ b \in Nat /\ Pieces(z) \in Nat
  <2>1. (m + 1 + n) + 1 = m + n + 2
    BY <1>1
  <2> QED
    BY <1>2, <2>1, PartsAre
<1>4. 0 \in SX /\ m + 1 \in SX /\ 0 \in SY /\ n + 1 \in SY
  BY DEF Cuts
<1>5. SZ = SX \cup Shift(SY)
  <2>1. ASSUME NEW k \in SZ PROVE k \in SX \cup Shift(SY)
    <3>1. k = 0 \/ k = m + n + 2 \/ (k \in 1..m + 1 + n /\ z[k] = "/")
      BY <1>1, <1>2, <2>1 DEF Cuts
    <3>2. CASE k = 0
      BY <1>4, <3>2
    <3>3. CASE k = m + n + 2
      <4>1. k = (m + 1) + (n + 1)
        BY <1>1, <3>3
      <4> QED
        BY <1>4, <4>1
    <3>4. CASE k \in 1..m + 1 + n /\ z[k] = "/"
      <4>1. k \in 1..m \/ k = m + 1 \/ \E j \in 1..n : k = (m + 1) + j
        <5>1. k \in 1..m \/ k = m + 1 \/ (k - (m + 1) \in 1..n /\ k = (m + 1) + (k - (m + 1)))
          BY <1>1, <3>4
        <5> QED
          BY <5>1
      <4>2. CASE k \in 1..m
        BY <1>1, <1>2, <3>4, <4>2 DEF Cuts
      <4>3. CASE k = m + 1
        BY <1>4, <4>3
      <4>4. CASE \E j \in 1..n : k = (m + 1) + j
        <5>1. PICK j \in 1..n : k = (m + 1) + j
          BY <4>4
        <5>2. j \in SY
          BY <1>1, <1>2, <3>4, <5>1 DEF Cuts
        <5> QED
          BY <5>1, <5>2
      <4> QED
        BY <4>1, <4>2, <4>3, <4>4
    <3> QED
      BY <3>1, <3>2, <3>3, <3>4
  <2>2. ASSUME NEW k \in SX PROVE k \in SZ
    <3>1. k = 0 \/ k = m + 1 \/ (k \in 1..m /\ x[k] = "/")
      BY <1>1, <2>2 DEF Cuts
    <3>2. m + 1 \in 1..m + 1 + n /\ (k \in 1..m => k \in 1..m + 1 + n)
      BY <1>1
    <3> QED
      BY <1>2, <3>1, <3>2 DEF Cuts
  <2>3. ASSUME NEW k \in SY PROVE (m + 1) + k \in SZ
    <3>1. k = 0 \/ k = n + 1 \/ (k \in 1..n /\ y[k] = "/")
      BY <1>1, <2>3 DEF Cuts
    <3>2. CASE k = 0
      BY <1>1, <1>4, <2>2, <3>2
    <3>3. CASE k = n + 1
      <4>1. (m + 1) + k = (m + 1 + n) + 1
        BY <1>1, <3>3
      <4> QED
        BY <1>2, <4>1 DEF Cuts
    <3>4. CASE k \in 1..n /\ y[k] = "/"
      <4>1. (m + 1) + k \in 1..m + 1 + n
        BY <1>1, <3>4
      <4> QED
        BY <1>2, <3>4, <4>1 DEF Cuts
    <3> QED
      BY <3>1, <3>2, <3>3, <3>4
  <2> QED
    BY <2>1, <2>2, <2>3
<1>6. IsFiniteSet(Shift(SY)) /\ Cardinality(Shift(SY)) = b + 1 /\ Cardinality(SX) = a + 1
  <2>1. SY \in SUBSET Nat /\ m + 1 \in Nat
    BY <1>1, <1>3
  <2>2. Cardinality(SX) \in Nat /\ Cardinality(SY) \in Nat
    BY <1>3, FS_CardinalityType
  <2>3. IsFiniteSet(Shift(SY)) /\ Cardinality(Shift(SY)) = Cardinality(SY)
    BY <1>3, <2>1, ShiftCount
  <2> QED
    BY <2>2, <2>3 DEF Pieces
\* Before the slash, a place has the rank it has in x
<1>7. ASSUME NEW k \in SX PROVE k \in SZ /\ RankIn(SZ, k) = RankIn(SX, k)
  <2>1. \A c \in Shift(SY) : ~(c < k)
    <3>1. k \in Nat /\ k <= m + 1 /\ \A j \in SY : ~((m + 1) + j < k)
      BY <1>1, <1>3
    <3> QED
      BY <3>1
  <2>2. {c \in SZ : c < k} = {c \in SX : c < k}
    BY <1>5, <2>1
  <2> QED
    BY <1>5, <2>2 DEF RankIn
\* Behind it, all of x counts, and the slash with the part of y
<1>8. ASSUME NEW k \in SY PROVE (m + 1) + k \in SZ /\ RankIn(SZ, (m + 1) + k) = a + RankIn(SY, k)
  <2> DEFINE low == {c \in SY : c < k}
  <2>1. k \in Nat /\ low \in SUBSET Nat /\ IsFiniteSet(low)
    <3>1. IsFiniteSet(low)
      BY <1>3, FS_Subset
    <3> QED
      BY <1>3, <3>1
  <2>2. IsFiniteSet(Shift(low)) /\ Cardinality(Shift(low)) = Cardinality(low)
    <3>1. m + 1 \in Nat
      BY <1>1
    <3> HIDE DEF low
    <3> QED
      BY <2>1, <3>1, ShiftCount
  <2>3. {c \in SZ : c < (m + 1) + k} = (SX \ {m + 1}) \cup Shift(low)
    <3>1. ASSUME NEW c \in SX PROVE c < (m + 1) + k <=> c # m + 1 \/ c \in Shift(low)
      <4>1. c \in Nat /\ c <= m + 1
        BY <1>1, <1>3
      <4>2. c # m + 1 => c < (m + 1) + k
        BY <1>1, <2>1, <4>1
      <4>3. c = m + 1 => (c < (m + 1) + k <=> 0 < k)
        BY <1>1, <2>1
      <4>4. c = m + 1 => (0 < k <=> c \in Shift(low))
        <5>1. ASSUME c = m + 1, 0 < k PROVE c \in Shift(low)
          <6>1. 0 \in low /\ (m + 1) + 0 = m + 1
            BY <1>1, <1>4, <5>1
          <6> HIDE DEF low
          <6> QED
            BY <5>1, <6>1
        <5>2. ASSUME c = m + 1, c \in Shift(low) PROVE 0 < k
          <6>1. PICK j \in low : (m + 1) + j = m + 1
            BY <5>2
          <6>2. j = 0 /\ j < k
            BY <1>1, <2>1, <6>1
          <6> QED
            BY <6>2
        <5> QED
          BY <5>1, <5>2
      <4> QED
        BY <4>2, <4>3, <4>4
    <3>2. ASSUME NEW j \in SY PROVE (m + 1) + j < (m + 1) + k <=> j \in low
      <4>1. j \in Nat
        BY <1>3
      <4>2. (m + 1) + j < (m + 1) + k <=> j < k
        BY <1>1, <2>1, <4>1
      <4> QED
        BY <4>2
    <3>3. \A c \in Shift(low) : c \in Shift(SY) /\ c < (m + 1) + k
      BY <3>2
    <3>4. \A c \in Shift(SY) : c < (m + 1) + k => c \in Shift(low)
      BY <3>2
    <3> HIDE DEF low, Shift
    <3> QED
      BY <1>5, <3>1, <3>3, <3>4
  <2>4. (SX \ {m + 1}) \cap Shift(low) = {}
    <3>1. ASSUME NEW c \in SX, c # m + 1, NEW j \in low PROVE c # (m + 1) + j
      <4>1. c \in Nat /\ c <= m + 1 /\ j \in Nat
        BY <1>1, <1>3, <2>1
      <4> QED
        BY <1>1, <3>1, <4>1
    <3> QED
      BY <3>1
  <2>5. IsFiniteSet(SX \ {m + 1}) /\ Cardinality(SX \ {m + 1}) = a
    <3>1. Cardinality(SX \ {m + 1}) = Cardinality(SX) - 1 /\ IsFiniteSet(SX \ {m + 1})
      BY <1>3, <1>4, FS_RemoveElement
    <3> QED
      BY <1>3, <1>6, <3>1
  <2>6. Cardinality((SX \ {m + 1}) \cup Shift(low)) = a + Cardinality(low)
    <3>1. Cardinality({}) = 0
      BY FS_EmptySet
    <3>2. Cardinality(low) \in Nat
      BY <2>1, FS_CardinalityType
    <3> HIDE DEF low, Shift
    <3>3. Cardinality((SX \ {m + 1}) \cup Shift(low))
            = Cardinality(SX \ {m + 1}) + Cardinality(Shift(low))
                - Cardinality((SX \ {m + 1}) \cap Shift(low))
      BY <2>2, <2>5, FS_Union
    <3>4. Cardinality((SX \ {m + 1}) \cap Shift(low)) = 0
      BY <2>4, <3>1
    <3>5. a \in Nat
      BY <1>3
    <3> HIDE DEF a, SX
    <3> QED
      BY <2>2, <2>5, <3>2, <3>3, <3>4, <3>5
  <2>7. (m + 1) + k \in SZ
    BY <1>5
  <2> QED
    BY <2>3, <2>6, <2>7 DEF RankIn
<1>9. Pieces(z) = a + b
  <2>1. SX \cap Shift(SY) = {m + 1}
    <3>1. \A j \in SY : j \in Nat
      BY <1>3
    <3>2. \A c \in SX : c \in Nat /\ c <= m + 1
      BY <1>1, <1>3
    <3>3. \A c \in SX, j \in SY : c = (m + 1) + j => c = m + 1
      BY <1>1, <3>1, <3>2
    <3>4. (m + 1) + 0 = m + 1
      BY <1>1
    <3> QED
      BY <1>4, <3>3, <3>4
  <2>2. Cardinality({m + 1}) = 1
    BY FS_Singleton
  <2> HIDE DEF Shift
  <2>3. Cardinality(SX \cup Shift(SY))
          = Cardinality(SX) + Cardinality(Shift(SY)) - Cardinality(SX \cap Shift(SY))
    BY <1>3, <1>6, FS_Union
  <2>4. Cardinality(SZ) = (a + 1) + (b + 1) - 1
    BY <1>5, <1>6, <2>1, <2>2, <2>3
  <2>5. a \in Nat /\ b \in Nat /\ Pieces(z) = Cardinality(SZ) - 1
    BY <1>3 DEF Pieces
  <2> HIDE DEF a, b, SZ
  <2> QED
    BY <2>4, <2>5
<1>10. /\ \A p \in 0..a : At(SX, p) \in SX /\ RankIn(SX, At(SX, p)) = p
       /\ \A p \in 0..b : At(SY, p) \in SY /\ RankIn(SY, At(SY, p)) = p
       /\ \A k \in SZ : At(SZ, RankIn(SZ, k)) = k
  <2>1. m + 1 \in Nat /\ n + 1 \in Nat /\ m + n + 2 \in Nat
    BY <1>1
  <2>2. a = Cardinality(SX) - 1 /\ b = Cardinality(SY) - 1
    BY DEF Pieces
  <2>3. \A p \in 0..Cardinality(SX) - 1 : At(SX, p) \in SX /\ RankIn(SX, At(SX, p)) = p
    BY <1>3, <2>1, AtRank
  <2>4. \A p \in 0..Cardinality(SY) - 1 : At(SY, p) \in SY /\ RankIn(SY, At(SY, p)) = p
    BY <1>3, <2>1, AtRank
  <2>5. \A k \in SZ : At(SZ, RankIn(SZ, k)) = k
    <3> DEFINE top == m + n + 2
    <3>1. SZ \in SUBSET (0..top) /\ top \in Nat
      BY <1>3, <2>1
    <3> HIDE DEF top, SZ
    <3> QED
      BY <3>1, AtRank
  <2> HIDE DEF a, b, SX, SY, SZ
  <2> QED
    BY <2>2, <2>3, <2>4, <2>5
<1>11. ASSUME NEW p \in 0..a PROVE At(SZ, p) = At(SX, p)
  <2>1. At(SX, p) \in SX /\ RankIn(SX, At(SX, p)) = p
    BY <1>10
  <2>2. At(SX, p) \in SZ /\ RankIn(SZ, At(SX, p)) = p
    BY <1>7, <2>1
  <2> QED
    BY <1>10, <2>2
<1>12. ASSUME NEW p \in 0..b PROVE At(SZ, a + p) = (m + 1) + At(SY, p)
  <2>1. At(SY, p) \in SY /\ RankIn(SY, At(SY, p)) = p
    BY <1>10
  <2>2. (m + 1) + At(SY, p) \in SZ /\ RankIn(SZ, (m + 1) + At(SY, p)) = a + p
    BY <1>8, <2>1
  <2> QED
    BY <1>10, <2>2
<1>13. /\ Parts(x) \in Seq(Seq(X)) /\ Len(Parts(x)) = a
       /\ Parts(y) \in Seq(Seq(X)) /\ Len(Parts(y)) = b
       /\ Parts(z) \in Seq(Seq(X)) /\ Len(Parts(z)) = a + b
  BY <1>2, <1>9, PartsAre
<1>14. \A k \in 1..a + b : Parts(z)[k] = SubSeq(z, At(SZ, k - 1) + 1, At(SZ, k) - 1)
  <2>1. Parts(z) = [k \in 1..Pieces(z) |-> SubSeq(z, At(SZ, k - 1) + 1, At(SZ, k) - 1)]
    BY <1>2, PartsAre
  <2> HIDE DEF a, b, SZ
  <2> QED
    BY <1>9, <2>1
<1>15. ASSUME NEW k \in 1..a PROVE Parts(z)[k] = Parts(x)[k]
  <2> DEFINE from == At(SX, k - 1)
             to == At(SX, k)
  <2>1. k - 1 \in 0..a /\ k \in 0..a /\ k \in 1..a + b
    BY <1>3
  <2>2. from \in 0..m + 1 /\ to \in 0..m + 1
    BY <1>3, <1>10, <2>1
  <2>3. Parts(x)[k] = SubSeq(x, from + 1, to - 1)
    BY PartsAre
  <2>4. Parts(z)[k] = SubSeq(z, from + 1, to - 1)
    <3>1. At(SZ, k - 1) = from /\ At(SZ, k) = to
      BY <1>11, <2>1
    <3>2. Parts(z)[k] = SubSeq(z, At(SZ, k - 1) + 1, At(SZ, k) - 1)
      BY <1>14, <2>1
    <3> QED
      BY <3>1, <3>2
  <2> HIDE DEF from, to
  <2>5. \A j \in from + 1..to - 1 : j \in 1..m /\ 0 + j = j /\ j \in 1..m + 1 + n
    BY <1>1, <2>2
  <2>6. SubSeq(z, from + 1, to - 1) = SubSeq(x, from + 1, to - 1)
    <3>1. from + 1 \in Int /\ to - 1 \in Int
      BY <1>1, <2>2
    <3>2. \A j \in from + 1..to - 1 : j \in 1..Len(x) /\ 0 + j \in 1..Len(z) /\ z[0 + j] = x[j]
      BY <1>2, <2>5
    <3>3. from + 1 = 0 + (from + 1) /\ to - 1 = 0 + (to - 1)
      BY <3>1
    <3> HIDE DEF m, n
    <3> QED
      BY <1>2, <3>1, <3>2, <3>3, SubSeqSame, SMTT(30)
  <2> QED
    BY <2>3, <2>4, <2>6
<1>16. ASSUME NEW k \in 1..b PROVE Parts(z)[a + k] = Parts(y)[k]
  <2> DEFINE from == At(SY, k - 1)
             to == At(SY, k)
  <2>1. k - 1 \in 0..b /\ k \in 0..b /\ a + k \in 1..a + b /\ (a + k) - 1 = a + (k - 1)
    BY <1>3
  <2>2. from \in 0..n + 1 /\ to \in 0..n + 1
    BY <1>3, <1>10, <2>1
  <2>3. Parts(y)[k] = SubSeq(y, from + 1, to - 1)
    BY PartsAre
  <2>4. Parts(z)[a + k] = SubSeq(z, ((m + 1) + from) + 1, ((m + 1) + to) - 1)
    <3>1. At(SZ, (a + k) - 1) = (m + 1) + from /\ At(SZ, a + k) = (m + 1) + to
      BY <1>12, <2>1
    <3>2. Parts(z)[a + k] = SubSeq(z, At(SZ, (a + k) - 1) + 1, At(SZ, a + k) - 1)
      BY <1>14, <2>1
    <3> QED
      BY <3>1, <3>2
  <2> HIDE DEF from, to
  <2>5. \A j \in from + 1..to - 1 : j \in 1..n /\ (m + 1) + j \in 1..m + 1 + n
    BY <1>1, <2>2
  <2>6. SubSeq(z, ((m + 1) + from) + 1, ((m + 1) + to) - 1) = SubSeq(y, from + 1, to - 1)
    <3>1. from + 1 \in Int /\ to - 1 \in Int /\ m + 1 \in Nat
      BY <1>1, <2>2
    <3>2. \A j \in from + 1..to - 1 :
              j \in 1..Len(y) /\ (m + 1) + j \in 1..Len(z) /\ z[(m + 1) + j] = y[j]
      BY <1>2, <2>5
    <3> DEFINE d == m + 1
               f == from + 1
               t == to - 1
               p == ((m + 1) + from) + 1
               q == ((m + 1) + to) - 1
    <3>3. d \in Nat /\ f \in Int /\ t \in Int /\ p = d + f /\ q = d + t
      BY <1>1, <2>2
    <3>4. \A j \in f..t : j \in 1..Len(y) /\ d + j \in 1..Len(z) /\ z[d + j] = y[j]
      BY <3>2
    <3> HIDE DEF d, f, t, p, q
    <3>5. SubSeq(z, p, q) = SubSeq(y, f, t)
      BY <1>2, <3>3, <3>4, SubSeqSame
    <3> QED
      BY <3>5 DEF f, t, p, q
  <2> QED
    BY <2>3, <2>4, <2>6
<1>17. /\ Parts(x) \o Parts(y) \in Seq(Seq(X)) /\ Len(Parts(x) \o Parts(y)) = a + b
       /\ \A k \in 1..a + b : (Parts(x) \o Parts(y))[k] =
              IF k <= a THEN Parts(x)[k] ELSE Parts(y)[k - a]
  <2> HIDE DEF a, b
  <2> QED
    BY <1>13, ConcatProperties
<1>18. ASSUME NEW k \in 1..a + b PROVE Parts(z)[k] = (Parts(x) \o Parts(y))[k]
  <2>1. CASE k <= a
    <3>1. k \in 1..a
      BY <1>3, <2>1
    <3> QED
      BY <1>15, <1>17, <2>1, <3>1
  <2>2. CASE ~(k <= a)
    <3>1. k - a \in 1..b /\ a + (k - a) = k
      BY <1>3, <2>2
    <3>2. Parts(z)[a + (k - a)] = Parts(y)[k - a]
      BY <1>16, <3>1
    <3> HIDE DEF a, b
    <3> QED
      BY <1>17, <2>2, <3>1, <3>2
  <2> QED
    BY <2>1, <2>2
<1>19. Parts(z) = Parts(x) \o Parts(y)
  <2> HIDE DEF a, b
  <2> QED
    BY <1>13, <1>17, <1>18, SeqEqual
<1> QED
  BY <1>19 DEF z

\* A text without a slash is its only part
LEMMA PartsOfName ==
    ASSUME NEW X, NEW name \in Seq(X), \A k \in DOMAIN name : name[k] # "/"
    PROVE  Parts(name) = <<name>>
<1> DEFINE S == Cuts(name)
           n == Len(name)
<1>1. n \in Nat /\ DOMAIN name = 1..n
  BY LenProperties
<1>2. S = {0, n + 1}
  BY DEF Cuts
<1>3. RankIn(S, 0) = 0
  <2>1. {c \in S : c < 0} = {}
    BY <1>1, <1>2
  <2> QED
    BY <2>1, FS_EmptySet DEF RankIn
<1>4. RankIn(S, n + 1) = 1
  <2>1. {c \in S : c < n + 1} = {0}
    BY <1>1, <1>2
  <2> QED
    BY <2>1, FS_Singleton DEF RankIn
<1>5. At(S, 0) = 0 /\ At(S, 1) = n + 1
  <2> DEFINE top == n + 1
  <2>1. S \in SUBSET (0..top) /\ top \in Nat
    BY <1>1, <1>2
  <2>2. \A k \in S : At(S, RankIn(S, k)) = k
    <3> HIDE DEF S, top
    <3> QED
      BY <2>1, AtRank
  <2> QED
    BY <1>2, <1>3, <1>4, <2>2
<1>6. Pieces(name) = 1
  <2>1. {0} \cup {n + 1} = S /\ n + 1 \notin {0}
    BY <1>1, <1>2
  <2>2. IsFiniteSet({0}) /\ Cardinality({0}) = 1
    BY FS_Singleton
  <2>3. \A k : k \notin {0} => Cardinality({0} \cup {k}) = 2
    <3> SUFFICES ASSUME NEW k, k \notin {0} PROVE Cardinality({0} \cup {k}) = 2
      OBVIOUS
    <3> DEFINE zero == {0}
    <3>1. IsFiniteSet(zero) /\ Cardinality(zero) = 1 /\ k \notin zero
      BY <2>2
    <3> HIDE DEF zero
    <3>2. Cardinality(zero \cup {k}) = 1 + 1
      BY <3>1, FS_AddElement
    <3>3. Cardinality(zero \cup {k}) = 2
      BY <3>2
    <3> QED
      BY <3>3 DEF zero
  <2>4. Cardinality(S) = 2
    BY <2>1, <2>3
  <2> QED
    BY <2>4 DEF Pieces
<1>7. Parts(name) = [k \in 1..1 |-> SubSeq(name, At(S, k - 1) + 1, At(S, k) - 1)]
  BY <1>6, PartsAre
<1>8. SubSeq(name, At(S, 1 - 1) + 1, At(S, 1) - 1) = name
  <2>1. 1 - 1 = 0 /\ 0 + 1 = 1 /\ (n + 1) - 1 = n
    BY <1>1
  <2>2. SubSeq(name, 1, n) = name
    BY SubSeqFull
  <2> QED
    BY <1>5, <2>1, <2>2
<1>9. Parts(name) = [k \in 1..1 |-> name]
  <2>1. \A k \in 1..1 : k = 1
    OBVIOUS
  <2> HIDE DEF S
  <2> QED
    BY <1>7, <1>8, <2>1
<1>10. Parts(name) \in Seq(Seq(X)) /\ Len(Parts(name)) = 1 /\ Parts(name)[1] = name
  BY <1>6, <1>9, PartsAre
<1> QED
  BY <1>10

\* No part has a slash
LEMMA PartsHaveNoSlash ==
    ASSUME NEW X, NEW text \in Seq(X), NEW n \in 1..Len(Parts(text)),
           NEW k \in DOMAIN Parts(text)[n]
    PROVE  Parts(text)[n][k] # "/"
<1> DEFINE S == Cuts(text)
           m == Len(text)
           a == At(S, n - 1)
           b == At(S, n)
<1>1. m \in Nat /\ DOMAIN text = 1..m /\ \A j \in 1..m : text[j] \in X
  BY LenProperties, ElementOfSeq
<1>2. /\ S \in SUBSET (0..m + 1) /\ IsFiniteSet(S) /\ n \in 1..Pieces(text) /\ Pieces(text) \in Nat
      /\ Parts(text)[n] = SubSeq(text, a + 1, b - 1)
  BY PartsAre
<1>3. a \in S /\ RankIn(S, a) = n - 1 /\ b \in S /\ RankIn(S, b) = n
  <2>1. n - 1 \in 0..Pieces(text) /\ n \in 0..Pieces(text)
    BY <1>2
  <2>2. Pieces(text) = Cardinality(S) - 1 /\ m + 1 \in Nat
    BY <1>1 DEF Pieces
  <2>3. \A p \in 0..Cardinality(S) - 1 : At(S, p) \in S /\ RankIn(S, At(S, p)) = p
    <3> HIDE DEF S, m
    <3> QED
      BY <1>2, <2>2, AtRank
  <2> QED
    BY <2>1, <2>2, <2>3
<1>4. a \in 0..m + 1 /\ b \in 0..m + 1
  BY <1>2, <1>3
<1> HIDE DEF a, b
<1>5. \A j \in a + 1..b - 1 : j \in 1..m
  BY <1>1, <1>4
<1>6. /\ SubSeq(text, a + 1, b - 1) \in Seq(X)
      /\ Len(SubSeq(text, a + 1, b - 1)) = IF a + 1 <= b - 1 THEN (b - 1) - (a + 1) + 1 ELSE 0
      /\ \A j \in 1..(b - 1) - (a + 1) + 1 :
             SubSeq(text, a + 1, b - 1)[j] = text[(a + 1) + j - 1]
  <2>1. a + 1 \in Int /\ b - 1 \in Int
    BY <1>4
  <2>2. \A j \in a + 1..b - 1 : text[j] \in X
    BY <1>1, <1>5
  <2> HIDE DEF S, m
  <2> QED
    BY <2>1, <2>2, SubSeqProperties, SMTT(20)
<1>7. k \in 1..Len(SubSeq(text, a + 1, b - 1))
  BY <1>2, <1>6, LenProperties
<1>8. k \in 1..(b - 1) - (a + 1) + 1 /\ (a + 1) + k - 1 = a + k /\ k \in Nat
      /\ a < a + k /\ a + k < b /\ a + k \in 1..m
  BY <1>1, <1>4, <1>6, <1>7
<1>9. Parts(text)[n][k] = text[a + k]
  BY <1>2, <1>6, <1>8
<1>10. ASSUME text[a + k] = "/" PROVE FALSE
  <2>1. a + k \in S
    BY <1>1, <1>8, <1>10 DEF Cuts
  <2>2. S \in SUBSET Nat
    BY <1>1, <1>2
  <2> DEFINE c == a + k
  <2>3. a < c /\ c < b /\ c \in S
    BY <1>8, <2>1
  <2> HIDE DEF c, S
  <2>4. RankIn(S, a) < RankIn(S, c) /\ RankIn(S, c) < RankIn(S, b) /\ RankIn(S, c) \in Nat
    BY <1>2, <1>3, <2>2, <2>3, Ranks
  <2> QED
    BY <1>2, <1>3, <2>4
<1> QED
  BY <1>9, <1>10

-----------------------------------------------------------------------------
(* Where a path leads                                                      *)

\* What holds of <<>> and of a sequence with an element more holds of all
LEMMA AllSequences ==
    ASSUME NEW X, NEW S, <<>> \in S,
           \A s \in Seq(X), x \in X : s \in S => Append(s, x) \in S
    PROVE  \A s \in Seq(X) : s \in S
<1> DEFINE T == {n \in Nat : \A s \in Seq(X) : Len(s) = n => s \in S}
<1>1. 0 \in T
  <2>1. \A s \in Seq(X) : Len(s) = 0 => s = <<>>
    OBVIOUS
  <2> QED
    BY <2>1
<1>2. ASSUME NEW n \in Nat, n \in T PROVE n + 1 \in T
  <2> SUFFICES ASSUME NEW s \in Seq(X), Len(s) = n + 1 PROVE s \in S
    OBVIOUS
  <2> DEFINE r == SubSeq(s, 1, n)
  <2>1. n \in 0..Len(s) /\ n + 1 \in 1..Len(s) /\ 1 \in 1..Len(s)
    OBVIOUS
  <2>2. \A k \in 1..n : s[k] \in X
    BY <2>1, ElementOfSeq
  <2>3. r \in Seq(X) /\ Len(r) = n
    BY <2>2, SubSeqProperties
  <2>4. s[n + 1] \in X
    BY <2>1, ElementOfSeq
  <2>5. s = Append(r, s[n + 1])
    <3>1. \A k \in 1..n : r[k] = s[k]
      BY <2>2, SubSeqProperties
    <3> QED
      BY <2>3, <2>4, <3>1
  <2> HIDE DEF r
  <2>6. r \in S
    BY <1>2, <2>3
  <2> QED
    BY <2>3, <2>4, <2>5, <2>6
<1> HIDE DEF T
<1>3. \A n \in Nat : n \in T
  BY <1>1, <1>2, AllNumbers
<1> QED
  BY <1>3, LenProperties DEF T

\* An element more at the end
LEMMA ConcatAppend ==
    ASSUME NEW X, NEW s \in Seq(X), NEW t \in Seq(X), NEW x \in X
    PROVE  s \o Append(t, x) = Append(s \o t, x) /\ Append(t, x) = t \o <<x>>
  OBVIOUS

\* Below() keeps the parts that are names
ProperNames(X) == {part \in X : part \notin {<<>>, <<".">>, <<"..">>}}

\* A round of normalizeRelativePath() leaves names only
LEMMA NormaliseNames ==
    ASSUME NEW X, NEW names \in Seq(ProperNames(X)), NEW part \in X
    PROVE  Normalise(names, part) \in Seq(ProperNames(X))
<1>1. CASE part \in {<<>>, <<".">>}
  <2>1. <<".">> # <<"..">> /\ <<>> # <<"..">>
    OBVIOUS
  <2>2. Normalise(names, part) = names
    BY <1>1, <2>1 DEF Normalise
  <2> QED
    BY <2>2
<1>2. CASE part = <<"..">>
  <2>1. Normalise(names, part) = IF names = <<>> THEN names ELSE Front(names)
    <3>1. <<"..">> \notin {<<>>, <<".">>}
      OBVIOUS
    <3> QED
      BY <1>2, <3>1 DEF Normalise
  <2>2. names # <<>> => Front(names) \in Seq(ProperNames(X))
    <3> SUFFICES ASSUME names # <<>> PROVE Front(names) \in Seq(ProperNames(X))
      OBVIOUS
    <3>1. Len(names) \in Nat \ {0}
      BY EmptySeq
    <3>2. \A k \in 1..Len(names) - 1 : names[k] \in ProperNames(X)
      BY <3>1, ElementOfSeq
    <3>3. Len(names) - 1 \in Int
      BY <3>1
    <3> QED
      BY <3>2, <3>3, SubSeqProperties DEF Front
  <2> QED
    BY <2>1, <2>2
<1>3. CASE part \notin {<<>>, <<".">>, <<"..">>}
  <2>1. Normalise(names, part) = Append(names, part)
    BY <1>3 DEF Normalise
  <2>2. part \in ProperNames(X)
    BY <1>3 DEF ProperNames
  <2> QED
    BY <2>1, <2>2
<1> QED
  BY <1>1, <1>2, <1>3

\* Below() leaves neither an empty name nor . nor ..
LEMMA BelowNames ==
    ASSUME NEW X, NEW parts \in Seq(X)
    PROVE  Below(parts) \in Seq(ProperNames(X))
<1> DEFINE S == {s \in Seq(X) : Below(s) \in Seq(ProperNames(X))}
<1>1. <<>> \in S
  BY BelowEmpty, EmptySeq
<1>2. ASSUME NEW s \in Seq(X), NEW x \in X, s \in S PROVE Append(s, x) \in S
  <2>1. Below(Append(s, x)) = Normalise(Below(s), x)
    BY BelowAppend
  <2>2. Normalise(Below(s), x) \in Seq(ProperNames(X))
    BY <1>2, NormaliseNames
  <2>3. Append(s, x) \in Seq(X)
    OBVIOUS
  <2> QED
    BY <2>1, <2>2, <2>3
<1> HIDE DEF S
<1>3. parts \in S
  BY <1>1, <1>2, AllSequences
<1> QED
  BY <1>3 DEF S

\* Parts without .. lead further down
LEMMA BelowGrows ==
    ASSUME NEW X, NEW a \in Seq(X), NEW b \in Seq(X), \A k \in DOMAIN b : b[k] # <<"..">>
    PROVE  \E u \in Seq(X) : Below(a \o b) = Below(a) \o u
<1> DEFINE Y == X \ {<<"..">>}
           Grows(s) == \E u \in Seq(X) : Below(a \o s) = Below(a) \o u
           S == {s \in Seq(Y) : Grows(s)}
<1>0. Below(a) \in Seq(X)
  <2>1. ProperNames(X) \subseteq X
    BY DEF ProperNames
  <2> QED
    BY <2>1, BelowNames, SeqMonotonic
<1>1. <<>> \in S
  <2>1. a \o <<>> = a /\ Below(a) \o <<>> = Below(a) /\ <<>> \in Seq(X)
    BY <1>0, ConcatEmptySeq, EmptySeq
  <2> QED
    BY <2>1, EmptySeq
<1>2. ASSUME NEW s \in Seq(Y), NEW x \in Y, s \in S PROVE Append(s, x) \in S
  <2>1. PICK u \in Seq(X) : Below(a \o s) = Below(a) \o u
    BY <1>2
  <2>2. s \in Seq(X) /\ x \in X /\ a \o s \in Seq(X)
    <3>1. Y \subseteq X
      OBVIOUS
    <3> HIDE DEF Y
    <3>2. s \in Seq(X) /\ x \in X
      BY <3>1, SeqMonotonic
    <3> QED
      BY <3>2, ConcatProperties
  <2>3. Below(a \o Append(s, x)) = Normalise(Below(a) \o u, x)
    <3>1. a \o Append(s, x) = Append(a \o s, x)
      BY <2>2, ConcatAppend
    <3>2. Below(Append(a \o s, x)) = Normalise(Below(a \o s), x)
      BY <2>2, BelowAppend
    <3> QED
      BY <2>1, <3>1, <3>2
  <2>4. CASE x \in {<<>>, <<".">>}
    <3>1. Below(a \o Append(s, x)) = Below(a) \o u
      BY <2>3, <2>4 DEF Normalise
    <3> QED
      BY <3>1, SMTT(30)
  <2>5. CASE x \notin {<<>>, <<".">>}
    <3>1. Normalise(Below(a) \o u, x) = Append(Below(a) \o u, x)
      <4>1. x # <<"..">>
        OBVIOUS
      <4> QED
        BY <2>5, <4>1 DEF Normalise
    <3>2. Append(Below(a) \o u, x) = Below(a) \o Append(u, x)
      BY <1>0, <2>2, ConcatAppend
    <3>3. Append(u, x) \in Seq(X)
      BY <2>2
    <3> HIDE DEF Y
    <3>4. Append(s, x) \in Seq(Y)
      OBVIOUS
    <3> QED
      BY <2>3, <3>1, <3>2, <3>3, <3>4
  <2> QED
    BY <2>4, <2>5
<1>3. b \in Seq(Y)
  <2>1. Len(b) \in Nat /\ b \in [1..Len(b) -> X] /\ DOMAIN b = 1..Len(b)
    BY LenProperties
  <2>2. b \in [1..Len(b) -> Y]
    BY <2>1
  <2> QED
    BY <2>1, <2>2
<1> HIDE DEF S, Y
<1>4. b \in S
  BY <1>1, <1>2, <1>3, AllSequences
<1> QED
  BY <1>4 DEF S

\* The text of a path is made of what its names are made of, and slashes
LEMMA TextOfPath ==
    ASSUME NEW X, "/" \in X, NEW path \in Seq(Seq(X))
    PROVE  TextOf(path) \in Seq(X)
<1> DEFINE S == {p \in Seq(Seq(X)) : TextOf(p) \in Seq(X)}
<1>1. <<>> \in S
  BY TextOfEmpty, EmptySeq
<1>2. ASSUME NEW p \in Seq(Seq(X)), NEW name \in Seq(X), p \in S PROVE Append(p, name) \in S
  <2>1. TextOf(Append(p, name)) = TextOf(p) \o <<"/">> \o name
    BY TextOfAppend DEF Slashed
  <2>2. TextOf(p) \o <<"/">> \o name \in Seq(X)
    <3>1. <<"/">> \in Seq(X) /\ TextOf(p) \in Seq(X)
      BY <1>2
    <3> QED
      BY <3>1, ConcatProperties
  <2>3. Append(p, name) \in Seq(Seq(X))
    OBVIOUS
  <2> QED
    BY <2>1, <2>2, <2>3
<1> HIDE DEF S
<1>3. path \in S
  BY <1>1, <1>2, AllSequences
<1> QED
  BY <1>3 DEF S

\* What a name may be made of
NoSlash(X) == {name \in Seq(X) : \A k \in DOMAIN name : name[k] # "/"}

\* The names of a path are the parts of its text
LEMMA PartsOfPath ==
    ASSUME NEW X, "/" \in X, NEW text \in Seq(X), NEW path \in Seq(NoSlash(X))
    PROVE  Parts(text \o TextOf(path)) = Parts(text) \o path
<1> DEFINE S == {p \in Seq(NoSlash(X)) : Parts(text \o TextOf(p)) = Parts(text) \o p}
<1>0. Parts(text) \in Seq(Seq(X)) /\ NoSlash(X) \subseteq Seq(X)
  BY PartsAre DEF NoSlash
<1>1. <<>> \in S
  <2>1. text \o TextOf(<<>>) = text /\ Parts(text) \o <<>> = Parts(text)
    BY <1>0, TextOfEmpty, ConcatEmptySeq
  <2> QED
    BY <2>1, EmptySeq
<1>2. ASSUME NEW p \in Seq(NoSlash(X)), NEW name \in NoSlash(X), p \in S
      PROVE  Append(p, name) \in S
  <2>1. p \in Seq(Seq(X)) /\ name \in Seq(X) /\ \A k \in DOMAIN name : name[k] # "/"
    BY <1>0, SeqMonotonic DEF NoSlash
  <2>2. TextOf(p) \in Seq(X) /\ <<"/">> \in Seq(X)
    BY <2>1, TextOfPath
  <2>3. TextOf(Append(p, name)) = TextOf(p) \o <<"/">> \o name
    BY <2>1, TextOfAppend DEF Slashed
  <2>4. text \o (TextOf(p) \o <<"/">> \o name) = (text \o TextOf(p)) \o <<"/">> \o name
    BY <2>1, <2>2, ConcatAssociative, ConcatProperties, SMTT(30)
  <2>5. Parts((text \o TextOf(p)) \o <<"/">> \o name) = Parts(text \o TextOf(p)) \o Parts(name)
    BY <2>1, <2>2, ConcatProperties, PartsAcrossSlash, ZenonT(30)
  <2>6. Parts(name) = <<name>>
    BY <2>1, PartsOfName
  <2>7. (Parts(text) \o p) \o <<name>> = Parts(text) \o Append(p, name)
    <3>1. <<name>> \in Seq(Seq(X))
      BY <2>1
    <3>2. Append(p, name) = p \o <<name>>
      BY <2>1, ConcatAppend
    <3>3. (Parts(text) \o p) \o <<name>> = Parts(text) \o (p \o <<name>>)
      <4> DEFINE Y == Seq(X)
                 q == Parts(text)
                 r == <<name>>
      <4>1. q \in Seq(Y) /\ p \in Seq(Y) /\ r \in Seq(Y)
        BY <1>0, <2>1, <3>1
      <4> HIDE DEF Y, q, r
      <4>2. (q \o p) \o r = q \o (p \o r)
        BY <4>1, ConcatAssociative, SMTT(30)
      <4> QED
        BY <4>2 DEF q, r
    <3> QED
      BY <3>2, <3>3
  <2>8. Append(p, name) \in Seq(NoSlash(X))
    OBVIOUS
  <2>9. Parts(text \o TextOf(p)) = Parts(text) \o p
    BY <1>2
  <2> QED
    BY <2>3, <2>4, <2>5, <2>6, <2>7, <2>8, <2>9
<1> HIDE DEF S
<1>3. path \in S
  BY <1>1, <1>2, AllSequences
<1> QED
  BY <1>3 DEF S

-----------------------------------------------------------------------------
(* Directories on the way                                                  *)

\* Whether a path may be gone along part by part
Dirs(disk, parts) == \A n \in 0..Len(parts) : IsDir(disk, Below(SubSeq(parts, 1, n)))

LEMMA JoinIs ==
    ASSUME NEW X, NEW s \in Seq(X), NEW t \in Seq(X)
    PROVE  /\ s \o t \in Seq(X) /\ Len(s \o t) = Len(s) + Len(t)
           /\ \A k \in 1..Len(s) : (s \o t)[k] = s[k]
           /\ \A k \in Len(s) + 1..Len(s) + Len(t) : (s \o t)[k] = t[k - Len(s)]
  BY ConcatProperties, LenProperties

\* The beginning of a sequence
LEMMA Beginning ==
    ASSUME NEW X, NEW s \in Seq(X), NEW t \in Seq(X), NEW n \in 0..Len(s)
    PROVE  SubSeq(s \o t, 1, n) = SubSeq(s, 1, n)
<1>1. Len(s) \in Nat /\ Len(t) \in Nat /\ s \o t \in Seq(X) /\ Len(s \o t) = Len(s) + Len(t)
      /\ \A k \in 1..Len(s) : (s \o t)[k] = s[k]
  BY JoinIs, LenProperties
<1>2. \A k \in 1..n : k \in 1..Len(s) /\ 0 + k \in 1..Len(s \o t) /\ (s \o t)[0 + k] = s[k]
  BY <1>1
<1>3. 1 = 0 + 1 /\ n = 0 + n /\ n \in Int
  BY <1>1
<1> QED
  BY <1>1, <1>2, <1>3, SubSeqSame

LEMMA Whole == ASSUME NEW X, NEW s \in Seq(X) PROVE SubSeq(s, 1, Len(s)) = s
<1>1. Len(s) \in Nat /\ \A k \in 1..Len(s) : s[k] \in X
  BY LenProperties, ElementOfSeq
<1>2. /\ SubSeq(s, 1, Len(s)) \in Seq(X)
      /\ Len(SubSeq(s, 1, Len(s))) = Len(s)
      /\ \A k \in 1..Len(s) : SubSeq(s, 1, Len(s))[k] = s[k]
  BY <1>1, SubSeqProperties
<1> QED
  BY <1>1, <1>2, SeqEqual

LEMMA BeginningIs ==
    ASSUME NEW X, NEW s \in Seq(X), NEW t \in Seq(X)
    PROVE  SubSeq(s \o t, 1, Len(s)) = s
<1>1. Len(s) \in 0..Len(s)
  BY LenProperties
<1> QED
  BY <1>1, Beginning, Whole

\* Of a sequence with an element more
LEMMA BeginningOfAppend ==
    ASSUME NEW X, NEW s \in Seq(X), NEW x \in X
    PROVE  /\ Append(s, x) \in Seq(X) /\ Len(Append(s, x)) = Len(s) + 1 /\ Len(s) \in Nat
           /\ SubSeq(Append(s, x), 1, Len(s) + 1) = Append(s, x)
           /\ \A n \in 0..Len(s) : SubSeq(Append(s, x), 1, n) = SubSeq(s, 1, n)
<1>1. Append(s, x) \in Seq(X) /\ Len(Append(s, x)) = Len(s) + 1 /\ Len(s) \in Nat
  BY LenProperties
<1>2. <<x>> \in Seq(X) /\ Append(s, x) = s \o <<x>>
  OBVIOUS
<1>3. \A n \in 0..Len(s) : SubSeq(Append(s, x), 1, n) = SubSeq(s, 1, n)
  BY <1>2, Beginning
<1>4. SubSeq(Append(s, x), 1, Len(s) + 1) = Append(s, x)
  BY <1>1, Whole
<1> QED
  BY <1>1, <1>3, <1>4

\* A part more, and one that is no name
LEMMA DirsAppend ==
    ASSUME NEW X, NEW s \in Seq(X), NEW x \in X, NEW d
    PROVE  Dirs(d, Append(s, x)) <=> Dirs(d, s) /\ IsDir(d, Below(Append(s, x)))
<1> DEFINE t == Append(s, x)
           n == Len(s)
<1>1. /\ Len(t) = n + 1 /\ n \in Nat /\ SubSeq(t, 1, n + 1) = t
      /\ \A m \in 0..n : SubSeq(t, 1, m) = SubSeq(s, 1, m)
  BY BeginningOfAppend
<1>2. \A m \in 0..n + 1 : m \in 0..n \/ m = n + 1
  BY <1>1
<1>3. \A m \in 0..n : m \in 0..n + 1
  BY <1>1
<1>4. n + 1 \in 0..n + 1
  BY <1>1
<1> HIDE DEF t, n
<1>5. Dirs(d, t) <=> \A m \in 0..n + 1 : IsDir(d, Below(SubSeq(t, 1, m)))
  BY <1>1 DEF Dirs
<1>6. Dirs(d, s) <=> \A m \in 0..n : IsDir(d, Below(SubSeq(s, 1, m)))
  BY DEF Dirs, n
<1>7. Dirs(d, t) <=> Dirs(d, s) /\ IsDir(d, Below(t))
  BY <1>1, <1>2, <1>3, <1>4, <1>5, <1>6
<1> QED
  BY <1>7 DEF t

LEMMA DirsEmpty == ASSUME NEW d PROVE Dirs(d, <<>>) <=> IsDir(d, <<>>)
<1>1. Len(<<>>) = 0 /\ SubSeq(<<>>, 1, 0) = <<>>
  OBVIOUS
<1>2. \A n \in 0..0 : n = 0
  OBVIOUS
<1>3. Below(SubSeq(<<>>, 1, 0)) = <<>>
  BY <1>1, BelowEmpty
<1>4. 0 \in 0..0
  OBVIOUS
<1>5. Dirs(d, <<>>) <=> \A n \in 0..0 : IsDir(d, Below(SubSeq(<<>>, 1, n)))
  BY <1>1 DEF Dirs
<1> QED
  BY <1>2, <1>3, <1>4, <1>5

LEMMA DirsEnds ==
    ASSUME NEW X, NEW s \in Seq(X), NEW d, Dirs(d, s)
    PROVE  IsDir(d, <<>>) /\ IsDir(d, Below(s))
<1>1. Len(s) \in Nat /\ SubSeq(s, 1, Len(s)) = s
  BY Whole, LenProperties
<1>2. SubSeq(s, 1, 0) = <<>> /\ Below(<<>>) = <<>>
  BY BelowEmpty
<1>3. 0 \in 0..Len(s) /\ Len(s) \in 0..Len(s)
  BY <1>1
<1>4. IsDir(d, Below(SubSeq(s, 1, 0))) /\ IsDir(d, Below(SubSeq(s, 1, Len(s))))
  BY <1>3 DEF Dirs
<1> QED
  BY <1>1, <1>2, <1>4

LEMMA DirsBefore ==
    ASSUME NEW X, NEW s \in Seq(X), NEW t \in Seq(X), NEW d, Dirs(d, s \o t)
    PROVE  Dirs(d, s)
<1>1. Len(s) \in Nat /\ Len(t) \in Nat /\ Len(s \o t) = Len(s) + Len(t)
  BY JoinIs, LenProperties
<1>2. ASSUME NEW n \in 0..Len(s) PROVE IsDir(d, Below(SubSeq(s, 1, n)))
  <2>1. SubSeq(s \o t, 1, n) = SubSeq(s, 1, n)
    BY Beginning
  <2>2. n \in 0..Len(s \o t)
    BY <1>1
  <2>3. IsDir(d, Below(SubSeq(s \o t, 1, n)))
    BY <2>2 DEF Dirs
  <2> QED
    BY <2>1, <2>3
<1> QED
  BY <1>2 DEF Dirs

\* Empty parts lead nowhere else
LEMMA EmptyParts ==
    ASSUME NEW X, <<>> \in X, NEW s \in Seq(X), NEW a \in Seq({<<>>}), NEW d
    PROVE  /\ s \o a \in Seq(X) /\ Below(s \o a) = Below(s)
           /\ Dirs(d, s) => Dirs(d, s \o a)
<1> DEFINE Good(b) == /\ s \o b \in Seq(X) /\ Below(s \o b) = Below(s)
                      /\ Dirs(d, s) => Dirs(d, s \o b)
           S == {b \in Seq({<<>>}) : Good(b)}
<1>1. <<>> \in S
  <2>1. s \o <<>> = s /\ <<>> \in Seq({<<>>})
    BY ConcatEmptySeq, EmptySeq
  <2> QED
    BY <2>1
<1>2. ASSUME NEW b \in Seq({<<>>}), NEW x \in {<<>>}, b \in S PROVE Append(b, x) \in S
  <2>1. b \in Seq(X) /\ x \in X /\ x = <<>>
    BY SeqMonotonic
  <2>2. s \o Append(b, x) = Append(s \o b, x)
    BY <2>1, ConcatAppend
  <2>3. s \o b \in Seq(X) /\ Append(s \o b, x) \in Seq(X)
    BY <1>2, <2>1
  <2>4. Below(Append(s \o b, x)) = Below(s \o b)
    <3>1. Below(Append(s \o b, x)) = Normalise(Below(s \o b), x)
      BY <2>1, <2>3, BelowAppend
    <3>2. \A names : Normalise(names, <<>>) = names
      BY DEF Normalise
    <3> QED
      BY <2>1, <3>1, <3>2
  <2>5. Dirs(d, s) => Dirs(d, Append(s \o b, x))
    <3> SUFFICES ASSUME Dirs(d, s) PROVE Dirs(d, Append(s \o b, x))
      OBVIOUS
    <3>1. Dirs(d, s \o b)
      BY <1>2
    <3>2. IsDir(d, Below(s \o b))
      BY <2>3, <3>1, DirsEnds
    <3> QED
      BY <2>1, <2>3, <2>4, <3>1, <3>2, DirsAppend
  <2>6. Below(s \o b) = Below(s)
    BY <1>2
  <2>7. Good(Append(b, x))
    BY <2>2, <2>3, <2>4, <2>5, <2>6
  <2>8. Append(b, x) \in Seq({<<>>})
    OBVIOUS
  <2> HIDE DEF Good
  <2> QED
    BY <2>7, <2>8
<1> HIDE DEF S
<1>3. a \in S
  BY <1>1, <1>2, AllSequences
<1> QED
  BY <1>3 DEF S

\* The directories that a path is in were gone through on the way
LEMMA Ancestors ==
    ASSUME NEW X
    PROVE  \A s \in Seq(X) : \A l \in 0..Len(Below(s)) : \E q \in 0..Len(s) :
               Below(SubSeq(s, 1, q)) = SubSeq(Below(s), 1, l)
<1> DEFINE Good(s) == \A l \in 0..Len(Below(s)) : \E q \in 0..Len(s) :
                          Below(SubSeq(s, 1, q)) = SubSeq(Below(s), 1, l)
           S == {s \in Seq(X) : Good(s)}
<1>1. <<>> \in S
  <2>1. Below(<<>>) = <<>> /\ Len(<<>>) = 0 /\ SubSeq(<<>>, 1, 0) = <<>> /\ 0 \in 0..0
    BY BelowEmpty
  <2>2. \A l \in 0..0 : l = 0
    OBVIOUS
  <2>3. Good(<<>>)
    BY <2>1, <2>2
  <2>4. <<>> \in Seq(X)
    OBVIOUS
  <2> HIDE DEF Good
  <2> QED
    BY <2>3, <2>4
<1>2. ASSUME NEW s \in Seq(X), NEW x \in X, s \in S PROVE Append(s, x) \in S
  <2> DEFINE t == Append(s, x)
             b == Below(s)
             n == Len(s)
             Y == ProperNames(X)
  <2>1. /\ t \in Seq(X) /\ Len(t) = n + 1 /\ n \in Nat /\ SubSeq(t, 1, n + 1) = t
        /\ \A m \in 0..n : SubSeq(t, 1, m) = SubSeq(s, 1, m)
    BY BeginningOfAppend
  <2>2. Below(t) = Normalise(b, x)
    BY BelowAppend
  <2>3. b \in Seq(Y) /\ Len(b) \in Nat
    BY BelowNames, LenProperties
  <2>4. \A l \in 0..Len(b) : \E q \in 0..n : Below(SubSeq(s, 1, q)) = SubSeq(b, 1, l)
    BY <1>2
  <2> HIDE DEF t, b, n, Y
  <2>5. \A l \in 0..Len(b) : \E q \in 0..n + 1 : Below(SubSeq(t, 1, q)) = SubSeq(b, 1, l)
    <3> SUFFICES ASSUME NEW l \in 0..Len(b)
                 PROVE  \E q \in 0..n + 1 : Below(SubSeq(t, 1, q)) = SubSeq(b, 1, l)
      OBVIOUS
    <3>1. PICK q \in 0..n : Below(SubSeq(s, 1, q)) = SubSeq(b, 1, l)
      BY <2>4
    <3>2. q \in 0..n + 1 /\ SubSeq(t, 1, q) = SubSeq(s, 1, q)
      BY <2>1
    <3> QED
      BY <3>1, <3>2
  <2>6. ASSUME NEW l \in 0..Len(Below(t))
        PROVE  \E q \in 0..n + 1 : Below(SubSeq(t, 1, q)) = SubSeq(Below(t), 1, l)
    <3>1. CASE Below(t) = b
      BY <2>5, <2>6, <3>1
    <3>2. CASE b # <<>> /\ Below(t) = Front(b)
      <4> DEFINE f == Front(b)
                 m == Len(b) - 1
      <4>1. Len(b) \in Nat \ {0}
        BY <2>3, <3>2, EmptySeq
      <4>2. f = SubSeq(b, 1, m) /\ m \in Nat /\ m \in 0..Len(b)
        BY <4>1 DEF Front
      <4>3. \A k \in 1..m : b[k] \in Y
        BY <2>3, <4>1, ElementOfSeq
      <4>4. f \in Seq(Y) /\ Len(f) = m /\ \A k \in 1..m : f[k] = b[k]
        <5>1. m \in Int /\ 1 \in Int /\ m - 1 + 1 = m /\ \A k \in 1..m : 1 + k - 1 = k
          BY <4>2
        <5> HIDE DEF m
        <5>2. /\ SubSeq(b, 1, m) \in Seq(Y)
              /\ Len(SubSeq(b, 1, m)) = IF 1 <= m THEN m - 1 + 1 ELSE 0
              /\ \A k \in 1..m - 1 + 1 : SubSeq(b, 1, m)[k] = b[1 + k - 1]
          BY <4>3, <5>1, SubSeqProperties
        <5>3. (IF 1 <= m THEN m - 1 + 1 ELSE 0) = m
          BY <4>2, <5>1
        <5> QED
          BY <4>2, <5>1, <5>2, <5>3
      <4> HIDE DEF f, m
      <4>5. l \in 0..m
        BY <2>6, <3>2, <4>4 DEF f
      <4>6. SubSeq(b, 1, l) = SubSeq(f, 1, l)
        <5>1. \A k \in 1..l : k \in 1..Len(f) /\ 0 + k \in 1..Len(b) /\ b[0 + k] = f[k]
          BY <2>3, <4>2, <4>4, <4>5
        <5>2. 1 = 0 + 1 /\ l = 0 + l /\ l \in Int
          BY <4>2, <4>5
        <5> QED
          BY <2>3, <4>4, <5>1, <5>2, SubSeqSame
      <4>7. l \in 0..Len(b)
        BY <2>3, <4>2, <4>5
      <4> QED
        BY <2>5, <3>2, <4>6, <4>7 DEF f
    <3>3. CASE x \in Y /\ Below(t) = Append(b, x)
      <4>1. /\ Len(Append(b, x)) = Len(b) + 1 /\ SubSeq(Append(b, x), 1, Len(b) + 1) = Append(b, x)
            /\ \A m \in 0..Len(b) : SubSeq(Append(b, x), 1, m) = SubSeq(b, 1, m)
        BY <2>3, <3>3, BeginningOfAppend
      <4>2. CASE l \in 0..Len(b)
        BY <2>5, <3>3, <4>1, <4>2
      <4>3. CASE l = Len(b) + 1
        <5>1. n + 1 \in 0..n + 1
          BY <2>1
        <5> QED
          BY <2>1, <3>3, <4>1, <4>3, <5>1
      <4> QED
        BY <2>3, <2>6, <3>3, <4>1, <4>2, <4>3
    <3> QED
      <4>1. CASE x \in {<<>>, <<".">>}
        <5>0. x # <<"..">>
          <6>1. <<".">> # <<"..">> /\ <<>> # <<"..">>
            OBVIOUS
          <6> QED
            BY <4>1, <6>1
        <5>1. \A names : Normalise(names, x) = names
          BY <4>1, <5>0 DEF Normalise
        <5> QED
          BY <2>2, <3>1, <5>1
      <4>2. CASE x = <<"..">>
        <5>1. <<"..">> \notin {<<>>, <<".">>}
          OBVIOUS
        <5>2. \A names : Normalise(names, x) = IF names = <<>> THEN names ELSE Front(names)
          BY <4>2, <5>1 DEF Normalise
        <5> QED
          BY <2>2, <3>1, <3>2, <5>2
      <4>3. CASE x \notin {<<>>, <<".">>, <<"..">>}
        <5>1. \A names : Normalise(names, x) = Append(names, x)
          BY <4>3 DEF Normalise
        <5>2. x \in Y
          BY <4>3 DEF Y, ProperNames
        <5> QED
          BY <2>2, <3>3, <5>1, <5>2
      <4> QED
        BY <4>1, <4>2, <4>3
  <2>7. t \in Seq(X) /\ Good(t)
    BY <2>1, <2>6
  <2> HIDE DEF Good
  <2> QED
    BY <2>7 DEF t
<1> HIDE DEF S
<1>3. \A s \in Seq(X) : s \in S
  BY <1>1, <1>2, AllSequences
<1> QED
  BY <1>3 DEF S

\* One element put before or after others
LEMMA OneThenMore ==
    ASSUME NEW X, NEW x \in X, NEW t \in Seq(X)
    PROVE  /\ <<x>> \o t \in Seq(X) /\ <<x>> \o t # <<>>
           /\ Head(<<x>> \o t) = x /\ Tail(<<x>> \o t) = t
<1>1. <<x>> \in Seq(X) /\ Len(<<x>>) = 1 /\ <<x>>[1] = x /\ Len(t) \in Nat
  BY LenProperties
<1> DEFINE s == <<x>> \o t
<1>2. /\ s \in Seq(X) /\ Len(s) = 1 + Len(t)
      /\ \A k \in 1..1 : s[k] = <<x>>[k]
      /\ \A k \in 1 + 1..1 + Len(t) : s[k] = t[k - 1]
  <2>1. /\ <<x>> \o t \in Seq(X) /\ Len(<<x>> \o t) = Len(<<x>>) + Len(t)
        /\ \A k \in 1..Len(<<x>>) : (<<x>> \o t)[k] = <<x>>[k]
        /\ \A k \in Len(<<x>>) + 1..Len(<<x>>) + Len(t) : (<<x>> \o t)[k] = t[k - Len(<<x>>)]
    BY <1>1, JoinIs
  <2> QED
    BY <1>1, <2>1
<1> HIDE DEF s
<1>3. s[1] = x /\ \A k \in 1..Len(t) : s[k + 1] = t[k]
  <2>1. 1 \in 1..1
    OBVIOUS
  <2>2. ASSUME NEW k \in 1..Len(t) PROVE s[k + 1] = t[k]
    <3>1. k + 1 \in 1 + 1..1 + Len(t) /\ k + 1 - 1 = k
      BY <1>1
    <3> QED
      BY <1>2, <3>1
  <2> QED
    BY <1>1, <1>2, <2>1, <2>2
<1>4. s # <<>>
  BY <1>1, <1>2
<1>5. Head(s) = x
  BY <1>2, <1>3, <1>4
<1>6. /\ Tail(s) \in Seq(X) /\ Len(Tail(s)) = Len(t)
      /\ \A k \in 1..Len(t) : Tail(s)[k] = s[k + 1]
  BY <1>1, <1>2, <1>4, HeadTailProperties
<1>7. Tail(s) = t
  BY <1>3, <1>6, SeqEqual
<1> QED
  BY <1>2, <1>4, <1>5, <1>7 DEF s

-----------------------------------------------------------------------------
(* The parts that are not empty                                            *)

LEMMA FillIs ==
    ASSUME NEW names, NEW part
    PROVE  Fill(names, part) = IF part = <<>> THEN names ELSE Append(names, part)
  BY DEF Fill

LEMMA FilledType == ASSUME NEW X PROVE \A s \in Seq(X) : Filled(s) \in Seq(X \ {<<>>})
<1> DEFINE S == {s \in Seq(X) : Filled(s) \in Seq(X \ {<<>>})}
<1>1. <<>> \in S
  BY FilledEmpty, EmptySeq
<1>2. ASSUME NEW s \in Seq(X), NEW x \in X, s \in S PROVE Append(s, x) \in S
  <2>1. Filled(Append(s, x)) = IF x = <<>> THEN Filled(s) ELSE Append(Filled(s), x)
    BY FilledAppend, FillIs
  <2>2. Filled(s) \in Seq(X \ {<<>>})
    BY <1>2
  <2>3. Append(s, x) \in Seq(X)
    OBVIOUS
  <2>4. x # <<>> => Append(Filled(s), x) \in Seq(X \ {<<>>})
    BY <2>2
  <2> QED
    BY <2>1, <2>2, <2>3, <2>4
<1> HIDE DEF S
<1>3. \A s \in Seq(X) : s \in S
  BY <1>1, <1>2, AllSequences
<1> QED
  BY <1>3 DEF S

LEMMA FilledConcat ==
    ASSUME NEW X, NEW s \in Seq(X)
    PROVE  \A t \in Seq(X) : Filled(s \o t) = Filled(s) \o Filled(t)
<1> DEFINE S == {t \in Seq(X) : Filled(s \o t) = Filled(s) \o Filled(t)}
           Y == X \ {<<>>}
<1>0. Filled(s) \in Seq(Y)
  BY FilledType
<1> HIDE DEF Y
<1>1. <<>> \in S
  <2>1. s \o <<>> = s /\ Filled(s) \o <<>> = Filled(s)
    BY <1>0, ConcatEmptySeq
  <2>2. <<>> \in Seq(X)
    BY EmptySeq
  <2> QED
    BY <2>1, <2>2, FilledEmpty
<1>2. ASSUME NEW t \in Seq(X), NEW x \in X, t \in S PROVE Append(t, x) \in S
  <2>1. s \o t \in Seq(X) /\ Append(t, x) \in Seq(X) /\ s \o Append(t, x) = Append(s \o t, x)
    BY ConcatAppend, ConcatProperties
  <2>2. Filled(s \o t) = Filled(s) \o Filled(t)
    BY <1>2
  <2>3. Filled(t) \in Seq(Y)
    BY FilledType DEF Y
  <2>4. Filled(s \o Append(t, x)) = IF x = <<>> THEN Filled(s \o t) ELSE Append(Filled(s \o t), x)
    BY <2>1, FilledAppend, FillIs
  <2>5. Filled(Append(t, x)) = IF x = <<>> THEN Filled(t) ELSE Append(Filled(t), x)
    BY FilledAppend, FillIs
  <2>6. CASE x = <<>>
    BY <2>1, <2>2, <2>4, <2>5, <2>6
  <2>7. CASE x # <<>>
    <3>1. x \in Y
      BY <2>7 DEF Y
    <3>2. Filled(s) \o Append(Filled(t), x) = Append(Filled(s) \o Filled(t), x)
      BY <1>0, <2>3, <3>1, ConcatAppend
    <3> QED
      BY <2>1, <2>2, <2>4, <2>5, <2>7, <3>2
  <2> QED
    BY <2>6, <2>7
<1> HIDE DEF S
<1>3. \A t \in Seq(X) : t \in S
  BY <1>1, <1>2, AllSequences
<1> QED
  BY <1>3 DEF S

\* The first of them comes after empty ones
FirstFilled(s, a, x, b) ==
    /\ s = (a \o <<x>>) \o b
    /\ x # <<>> /\ x = Head(Filled(s)) /\ Filled(b) = Tail(Filled(s))

LEMMA OnlyEmpty == \A a \in Seq({<<>>}) : Filled(a) = <<>>
<1> DEFINE S == {a \in Seq({<<>>}) : Filled(a) = <<>>}
<1>1. <<>> \in S
  BY FilledEmpty
<1>2. ASSUME NEW a \in Seq({<<>>}), NEW x \in {<<>>}, a \in S PROVE Append(a, x) \in S
  <2>1. Filled(Append(a, x)) = Filled(a)
    BY FilledAppend, FillIs
  <2>2. Append(a, x) \in Seq({<<>>})
    OBVIOUS
  <2> QED
    BY <1>2, <2>1, <2>2
<1> HIDE DEF S
<1>3. \A a \in Seq({<<>>}) : a \in S
  BY <1>1, <1>2, AllSequences
<1> QED
  BY <1>3 DEF S

LEMMA FilledSplit ==
    ASSUME NEW X
    PROVE  \A s \in Seq(X) : \/ s \in Seq({<<>>})
                             \/ \E a \in Seq({<<>>}), x \in X, b \in Seq(X) : FirstFilled(s, a, x, b)
<1> DEFINE Splits(s) == \/ s \in Seq({<<>>})
                        \/ \E a \in Seq({<<>>}), x \in X \ {<<>>}, b \in Seq(X) : s = (a \o <<x>>) \o b
           S == {s \in Seq(X) : Splits(s)}
<1>1. <<>> \in S
  OBVIOUS
<1>2. ASSUME NEW s \in Seq(X), NEW y \in X, s \in S PROVE Append(s, y) \in S
  <2>0. Append(s, y) \in Seq(X)
    OBVIOUS
  <2>1. CASE s \in Seq({<<>>})
    <3>1. CASE y = <<>>
      <4>1. Append(s, y) \in Seq({<<>>})
        BY <2>1, <3>1
      <4> QED
        BY <2>0, <4>1
    <3>2. CASE y # <<>>
      <4>1. Append(s, y) = (s \o <<y>>) \o <<>>
        <5>1. Append(s, y) = s \o <<y>>
          OBVIOUS
        <5> QED
          BY <2>0, <5>1, ConcatEmptySeq
      <4>2. y \in X \ {<<>>} /\ <<>> \in Seq(X)
        BY <3>2
      <4>3. Splits(Append(s, y))
        BY <2>1, <4>1, <4>2
      <4> QED
        BY <2>0, <4>3
    <3> QED
      BY <3>1, <3>2
  <2>2. CASE \E a \in Seq({<<>>}), x \in X \ {<<>>}, b \in Seq(X) : s = (a \o <<x>>) \o b
    <3>1. PICK a \in Seq({<<>>}), x \in X \ {<<>>}, b \in Seq(X) : s = (a \o <<x>>) \o b
      BY <2>2
    <3> DEFINE Y == X \cup {<<>>}
               c == a \o <<x>>
    <3>2. c \in Seq(Y)
      <4>1. a \in Seq(Y) /\ <<x>> \in Seq(Y)
        BY SeqMonotonic
      <4> QED
        BY <4>1, ConcatProperties
    <3>3. b \in Seq(Y) /\ y \in Y
      BY SeqMonotonic
    <3> HIDE DEF Y, c
    <3>4. c \o Append(b, y) = Append(c \o b, y)
      BY <3>2, <3>3, ConcatAppend
    <3>5. Append(b, y) \in Seq(X)
      OBVIOUS
    <3>6. Append(s, y) = (a \o <<x>>) \o Append(b, y)
      BY <3>1, <3>4 DEF c
    <3>7. Splits(Append(s, y))
      BY <3>5, <3>6
    <3> QED
      BY <2>0, <3>7
  <2> QED
    BY <1>2, <2>1, <2>2
<1> HIDE DEF S
<1>3. \A s \in Seq(X) : s \in S
  BY <1>1, <1>2, AllSequences
<1>4. ASSUME NEW s \in Seq(X), NEW a \in Seq({<<>>}), NEW x \in X \ {<<>>}, NEW b \in Seq(X),
             s = (a \o <<x>>) \o b
      PROVE  FirstFilled(s, a, x, b)
  <2> DEFINE Y == X \cup {<<>>}
             Z == X \ {<<>>}
  <2>1. a \in Seq(Y) /\ <<x>> \in Seq(Y) /\ b \in Seq(Y) /\ a \o <<x>> \in Seq(Y)
    <3>1. a \in Seq(Y) /\ <<x>> \in Seq(Y) /\ b \in Seq(Y)
      BY SeqMonotonic
    <3> QED
      BY <3>1, ConcatProperties
  <2>2. a \o <<x>> = Append(a, x) /\ x \in Y
    BY <2>1
  <2>3. Filled(b) \in Seq(Z) /\ x \in Z
    BY FilledType
  <2> HIDE DEF Y, Z
  <2>4. Filled(s) = Filled(a \o <<x>>) \o Filled(b)
    BY <1>4, <2>1, FilledConcat
  <2>5. Filled(a \o <<x>>) = <<x>>
    <3>1. Filled(Append(a, x)) = Fill(Filled(a), x)
      BY <2>1, <2>2, FilledAppend
    <3>2. Filled(a) = <<>> /\ x # <<>>
      BY OnlyEmpty
    <3>3. Append(<<>>, x) = <<x>>
      OBVIOUS
    <3> QED
      BY <2>2, <3>1, <3>2, <3>3, FillIs
  <2>6. Head(<<x>> \o Filled(b)) = x /\ Tail(<<x>> \o Filled(b)) = Filled(b)
    BY <2>3, OneThenMore
  <2> QED
    BY <1>4, <2>4, <2>5, <2>6 DEF FirstFilled
<1>5. ASSUME NEW s \in Seq(X), s \notin Seq({<<>>})
      PROVE  \E a \in Seq({<<>>}), x \in X, b \in Seq(X) : FirstFilled(s, a, x, b)
  <2>1. s \in S
    BY <1>3
  <2>2. \E a \in Seq({<<>>}), x \in X \ {<<>>}, b \in Seq(X) : s = (a \o <<x>>) \o b
    BY <1>5, <2>1 DEF S
  <2>3. PICK a \in Seq({<<>>}), x \in X \ {<<>>}, b \in Seq(X) : s = (a \o <<x>>) \o b
    BY <2>2
  <2>4. FirstFilled(s, a, x, b)
    BY <1>4, <2>3
  <2>5. x \in X
    OBVIOUS
  <2> QED
    BY <2>4, <2>5
<1> QED
  BY <1>5

-----------------------------------------------------------------------------
(* Walking along parts                                                     *)

LEMMA AppendOrEmpty ==
    ASSUME NEW X
    PROVE  \A s \in Seq(X) : s = <<>> \/ \E q \in Seq(X), x \in X : s = Append(q, x)
<1> DEFINE S == {s \in Seq(X) : s = <<>> \/ \E q \in Seq(X), x \in X : s = Append(q, x)}
<1>1. <<>> \in S
  BY EmptySeq
<1>2. ASSUME NEW s \in Seq(X), NEW x \in X, s \in S PROVE Append(s, x) \in S
  <2>1. Append(s, x) \in Seq(X)
    OBVIOUS
  <2> QED
    BY <2>1
<1> HIDE DEF S
<1>3. \A s \in Seq(X) : s \in S
  BY <1>1, <1>2, AllSequences
<1> QED
  BY <1>3 DEF S

\* The parts before the last must be directories
LEMMA WalkIs ==
    ASSUME NEW X, NEW q \in Seq(X), NEW x \in X, NEW text, Parts(text) = Append(q, x), NEW d
    PROVE  Walk(d, text) = IF Dirs(d, q) THEN Below(Append(q, x)) ELSE Nowhere
<1> DEFINE t == Append(q, x)
           n == Len(q)
<1>1. /\ Len(t) = n + 1 /\ n \in Nat
      /\ \A m \in 0..n : SubSeq(t, 1, m) = SubSeq(q, 1, m)
  BY BeginningOfAppend
<1> HIDE DEF t, n
<1>2. (\A k \in 1..Len(t) : IsDir(d, Below(SubSeq(t, 1, k - 1)))) <=> Dirs(d, q)
  <2>1. ASSUME Dirs(d, q), NEW k \in 1..Len(t) PROVE IsDir(d, Below(SubSeq(t, 1, k - 1)))
    <3>1. k - 1 \in 0..n
      BY <1>1
    <3>2. SubSeq(t, 1, k - 1) = SubSeq(q, 1, k - 1)
      BY <1>1, <3>1
    <3>3. IsDir(d, Below(SubSeq(q, 1, k - 1)))
      BY <2>1, <3>1 DEF Dirs, n
    <3> QED
      BY <3>2, <3>3
  <2>2. ASSUME \A k \in 1..Len(t) : IsDir(d, Below(SubSeq(t, 1, k - 1))), NEW m \in 0..n
        PROVE  IsDir(d, Below(SubSeq(q, 1, m)))
    <3> DEFINE k == m + 1
    <3>1. k \in 1..Len(t) /\ k - 1 = m
      BY <1>1
    <3> HIDE DEF k
    <3>2. IsDir(d, Below(SubSeq(t, 1, k - 1)))
      BY <2>2, <3>1
    <3>3. SubSeq(t, 1, m) = SubSeq(q, 1, m)
      BY <1>1
    <3> QED
      BY <3>1, <3>2, <3>3
  <2> QED
    BY <2>1, <2>2 DEF Dirs, n
<1>3. Parts(text) = t
  BY DEF t
<1>4. Walk(d, text) = IF \A k \in 1..Len(t) : IsDir(d, Below(SubSeq(t, 1, k - 1)))
                      THEN Below(t) ELSE Nowhere
  BY <1>3 DEF Walk
<1> QED
  BY <1>2, <1>4 DEF t

\* A text that leads to a directory leads through directories
LEMMA WalkedDirs ==
    ASSUME NEW X, NEW text, Parts(text) \in Seq(X), Parts(text) # <<>>, NEW d,
           Nowhere \notin DOMAIN d, IsDir(d, Walk(d, text))
    PROVE  Dirs(d, Parts(text)) /\ Walk(d, text) = Below(Parts(text))
<1>1. PICK q \in Seq(X), x \in X : Parts(text) = Append(q, x)
  BY AppendOrEmpty
<1>2. Walk(d, text) = IF Dirs(d, q) THEN Below(Append(q, x)) ELSE Nowhere
  BY <1>1, WalkIs
<1>3. Walk(d, text) # Nowhere
  BY DEF IsDir
<1>4. Dirs(d, q) /\ Walk(d, text) = Below(Append(q, x))
  BY <1>2, <1>3
<1>5. Dirs(d, Append(q, x))
  BY <1>4, DirsAppend
<1> QED
  BY <1>1, <1>4, <1>5

\* Behind directories nothing is missing but below the last of them
LEMMA StepDown ==
    ASSUME NEW X, NEW s \in Seq(X), NEW x \in X, NEW d, Dirs(d, s),
           Below(Append(s, x)) \notin DOMAIN d
    PROVE  /\ x # <<>> /\ Below(s) \in Seq(X)
           /\ Below(Append(s, x)) = Append(Below(s), x)
<1> DEFINE b == Below(s)
<1>1. Below(Append(s, x)) = Normalise(b, x)
  BY BelowAppend
<1>2. IsDir(d, b)
  BY DirsEnds
<1>3. b \in Seq(ProperNames(X)) /\ ProperNames(X) \subseteq X
  BY BelowNames DEF ProperNames
<1>4. b \in Seq(X)
  BY <1>3, SeqMonotonic
<1>5. \A l \in 0..Len(b) : \E q \in 0..Len(s) : Below(SubSeq(s, 1, q)) = SubSeq(b, 1, l)
  BY Ancestors
<1> HIDE DEF b
<1>6. x \notin {<<>>, <<".">>}
  <2> SUFFICES ASSUME x \in {<<>>, <<".">>} PROVE FALSE
    OBVIOUS
  <2>1. <<".">> # <<"..">> /\ <<>> # <<"..">>
    OBVIOUS
  <2>2. \A names : Normalise(names, x) = names
    BY <2>1 DEF Normalise
  <2> QED
    BY <1>1, <1>2, <2>2 DEF IsDir
<1>7. x # <<"..">>
  <2> SUFFICES ASSUME x = <<"..">> PROVE FALSE
    OBVIOUS
  <2>1. <<"..">> \notin {<<>>, <<".">>}
    OBVIOUS
  <2>2. \A names : Normalise(names, x) = IF names = <<>> THEN names ELSE Front(names)
    BY <2>1 DEF Normalise
  <2>3. b # <<>> /\ Below(Append(s, x)) = Front(b)
    BY <1>1, <1>2, <2>2 DEF IsDir
  <2>4. Len(b) \in Nat \ {0}
    BY <1>4, <2>3, EmptySeq
  <2> DEFINE l == Len(b) - 1
  <2>5. l \in 0..Len(b) /\ Front(b) = SubSeq(b, 1, l)
    BY <2>4 DEF Front
  <2> HIDE DEF l
  <2>6. PICK q \in 0..Len(s) : Below(SubSeq(s, 1, q)) = SubSeq(b, 1, l)
    BY <1>5, <2>5
  <2>7. IsDir(d, Below(SubSeq(s, 1, q)))
    BY DEF Dirs
  <2> QED
    BY <2>3, <2>5, <2>6, <2>7 DEF IsDir
<1>8. \A names : Normalise(names, x) = Append(names, x)
  BY <1>6, <1>7 DEF Normalise
<1> QED
  BY <1>1, <1>4, <1>6, <1>8 DEF b

\* A name leads to the same place, by the same directories
Same(p, q) == Below(p) = Below(q) /\ \A d : Dirs(d, q) => Dirs(d, p)

LEMMA SameAppend ==
    ASSUME NEW X, NEW p \in Seq(X), NEW q \in Seq(X), NEW x \in X, Same(p, q)
    PROVE  Same(Append(p, x), Append(q, x))
<1>1. Below(Append(p, x)) = Below(Append(q, x))
  BY BelowAppend DEF Same
<1>2. ASSUME NEW d, Dirs(d, Append(q, x)) PROVE Dirs(d, Append(p, x))
  <2>1. Dirs(d, q) /\ IsDir(d, Below(Append(q, x)))
    BY <1>2, DirsAppend
  <2>2. Dirs(d, p)
    BY <2>1 DEF Same
  <2> QED
    BY <1>1, <2>1, <2>2, DirsAppend
<1> QED
  BY <1>1, <1>2 DEF Same

\* The places on the way of a path
Ways(parts) == {Below(SubSeq(parts, 1, n)) : n \in 1..Len(parts)}

LEMMA WaysOfBeginning ==
    ASSUME NEW X, NEW s \in Seq(X), NEW t \in Seq(X)
    PROVE  Ways(s) \subseteq Ways(s \o t) /\ (s # <<>> => Below(s) \in Ways(s \o t))
<1>1. Len(s) \in Nat /\ Len(t) \in Nat /\ Len(s \o t) = Len(s) + Len(t)
  BY JoinIs, LenProperties
<1>2. ASSUME NEW n \in 1..Len(s) PROVE Below(SubSeq(s, 1, n)) \in Ways(s \o t)
  <2>1. n \in 0..Len(s) /\ n \in 1..Len(s \o t)
    BY <1>1
  <2>2. SubSeq(s \o t, 1, n) = SubSeq(s, 1, n)
    BY <2>1, Beginning
  <2> QED
    BY <2>1, <2>2 DEF Ways
<1>3. s # <<>> => Len(s) \in 1..Len(s)
  BY <1>1, EmptySeq
<1> QED
  BY <1>2, <1>3, Whole DEF Ways
-----------------------------------------------------------------------------
(* The last part of a text                                                 *)

\* A text whose last part is name: before it is the text up to the last slash
Ends(text, before, name) ==
    /\ text = before \o <<"/">> \o name
    /\ Parts(text) = Append(Parts(before), name)

LEMMA LastPart ==
    ASSUME NEW X, "/" \in X
    PROVE  \A text \in Seq(X) : \/ text \in NoSlash(X)
                                \/ \E before \in Seq(X), name \in NoSlash(X) : Ends(text, before, name)
<1> DEFINE Splits(t) == \/ t \in NoSlash(X)
                        \/ \E a \in Seq(X), b \in NoSlash(X) : t = a \o <<"/">> \o b
           S == {t \in Seq(X) : Splits(t)}
<1>0. <<>> \in NoSlash(X)
  BY EmptySeq DEF NoSlash
<1>1. <<>> \in S
  BY <1>0, EmptySeq
<1>2. ASSUME NEW t \in Seq(X), NEW x \in X, t \in S PROVE Append(t, x) \in S
  <2>0. Append(t, x) \in Seq(X)
    OBVIOUS
  <2>1. CASE x = "/"
    <3>1. Append(t, x) = t \o <<"/">> \o <<>>
      BY <2>0, <2>1
    <3> QED
      BY <1>0, <2>0, <3>1
  <2>2. CASE x # "/"
    <3>1. ASSUME NEW b \in NoSlash(X) PROVE Append(b, x) \in NoSlash(X)
      <4>1. b \in Seq(X) /\ \A k \in DOMAIN b : b[k] # "/"
        BY DEF NoSlash
      <4>2. /\ Append(b, x) \in Seq(X) /\ DOMAIN Append(b, x) = 1..Len(b) + 1
            /\ \A k \in 1..Len(b) : Append(b, x)[k] = b[k]
            /\ Append(b, x)[Len(b) + 1] = x
            /\ DOMAIN b = 1..Len(b) /\ Len(b) \in Nat
        BY <4>1
      <4>3. \A k \in 1..Len(b) + 1 : k \in 1..Len(b) \/ k = Len(b) + 1
        BY <4>2
      <4> QED
        BY <2>2, <4>1, <4>2, <4>3 DEF NoSlash
    <3>2. CASE t \in NoSlash(X)
      BY <2>0, <3>1, <3>2
    <3>3. CASE \E a \in Seq(X), b \in NoSlash(X) : t = a \o <<"/">> \o b
      <4>1. PICK a \in Seq(X), b \in NoSlash(X) : t = a \o <<"/">> \o b
        BY <3>3
      <4> DEFINE c == a \o <<"/">>
      <4>2. c \in Seq(X) /\ b \in Seq(X)
        <5>1. <<"/">> \in Seq(X)
          OBVIOUS
        <5> QED
          BY <5>1, ConcatProperties DEF NoSlash
      <4> HIDE DEF c
      <4>3. c \o Append(b, x) = Append(c \o b, x)
        BY <4>2, ConcatAppend
      <4>4. Append(t, x) = a \o <<"/">> \o Append(b, x)
        BY <4>1, <4>3 DEF c
      <4>5. Append(b, x) \in NoSlash(X)
        BY <3>1
      <4>6. Splits(Append(t, x))
        BY <4>4, <4>5
      <4> QED
        BY <2>0, <4>6
    <3> QED
      BY <1>2, <3>2, <3>3
  <2> QED
    BY <2>1, <2>2
<1> HIDE DEF S
<1>3. \A t \in Seq(X) : t \in S
  BY <1>1, <1>2, AllSequences
<1>4. ASSUME NEW a \in Seq(X), NEW b \in NoSlash(X), NEW t, t = a \o <<"/">> \o b
      PROVE  Ends(t, a, b)
  <2>1. b \in Seq(X) /\ \A k \in DOMAIN b : b[k] # "/"
    BY DEF NoSlash
  <2>2. Parts(t) = Parts(a) \o Parts(b)
    BY <1>4, <2>1, PartsAcrossSlash
  <2>3. Parts(b) = <<b>>
    BY <2>1, PartsOfName
  <2> DEFINE Y == Seq(X)
             p == Parts(a)
  <2>4. p \in Seq(Y) /\ b \in Y
    BY <2>1, PartsAre
  <2> HIDE DEF Y, p
  <2>5. p \o <<b>> = Append(p, b)
    BY <2>4
  <2> QED
    BY <1>4, <2>2, <2>3, <2>5 DEF p, Ends
<1>5. ASSUME NEW t \in Seq(X), t \notin NoSlash(X)
      PROVE  \E a \in Seq(X), b \in NoSlash(X) : Ends(t, a, b)
  <2>1. t \in S
    BY <1>3
  <2>2. \E a \in Seq(X), b \in NoSlash(X) : t = a \o <<"/">> \o b
    BY <1>5, <2>1 DEF S
  <2> QED
    BY <1>4, <2>2
<1> QED
  BY <1>5

\* The parts of a text are names, and there is one
LEMMA PartsAreNames ==
    ASSUME NEW X, "/" \in X, NEW text \in Seq(X)
    PROVE  Parts(text) \in Seq(NoSlash(X)) /\ Parts(text) # <<>>
<1> DEFINE p == Parts(text)
           Y == Seq(X)
<1>1. p \in Seq(Y)
  BY PartsAre
<1>2. \A n \in 1..Len(p) : p[n] \in NoSlash(X)
  <2> SUFFICES ASSUME NEW n \in 1..Len(p) PROVE p[n] \in NoSlash(X)
    OBVIOUS
  <2>1. p[n] \in Y
    BY <1>1, ElementOfSeq
  <2>2. \A k \in DOMAIN p[n] : p[n][k] # "/"
    BY PartsHaveNoSlash
  <2> QED
    BY <2>1, <2>2 DEF NoSlash
<1>3. p \in Seq(NoSlash(X))
  <2> HIDE DEF p, Y
  <2>1. Len(p) \in Nat /\ p \in [1..Len(p) -> NoSlash(X)]
    BY <1>1, <1>2, LenProperties
  <2> QED
    BY <2>1
<1>4. p # <<>>
  <2>1. CASE text \in NoSlash(X)
    <3>1. p = <<text>>
      BY <2>1, PartsOfName DEF NoSlash
    <3> QED
      BY <3>1
  <2>2. CASE text \notin NoSlash(X)
    <3>1. PICK a \in Seq(X), b \in NoSlash(X) : Ends(text, a, b)
      BY <2>2, LastPart
    <3>2. p = Append(Parts(a), b) /\ Parts(a) \in Seq(Seq(X)) /\ b \in Seq(X)
      BY <3>1, PartsAre DEF Ends, NoSlash
    <3> HIDE DEF p
    <3> DEFINE q == Parts(a)
    <3> HIDE DEF q, Y
    <3>3. p = Append(q, b) /\ q \in Seq(Y) /\ b \in Y
      BY <3>2 DEF q, Y
    <3> QED
      BY <3>3
  <2> QED
    BY <2>1, <2>2
<1> QED
  BY <1>3, <1>4
=============================================================================
