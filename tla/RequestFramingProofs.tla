------------------------- MODULE RequestFramingProofs -------------------------
(***************************************************************************)
(* Theorems about RequestFraming: which requests are answered as they were *)
(* sent, wherever their bodies are cut, which are served with their body   *)
(* or not at all, and which may be left to wait for their timeout.         *)
(***************************************************************************)
EXTENDS RequestFraming, PathsProofs

-----------------------------------------------------------------------------
(* Numerals                                                                *)

LEMMA NumeralIs ==
    /\ Numeral \in Seq(Digit) /\ Len(Numeral) = 10 /\ DOMAIN Numeral = 1..10
    /\ Digit = {"0", "1", "2", "3", "4", "5", "6", "7", "8", "9"}
    /\ \A n \in 0..9 : Numeral[n + 1] \in Digit
<1>1. DOMAIN Numeral = 1..10 /\ Len(Numeral) = 10
  BY DEF Numeral
<1>2. Digit = {Numeral[n] : n \in 1..10}
  BY <1>1 DEF Digit, ToSet
<1>3. \A n \in 1..10 : n \in {1, 2, 3, 4, 5, 6, 7, 8, 9, 10}
  OBVIOUS
<1>4. Digit = {"0", "1", "2", "3", "4", "5", "6", "7", "8", "9"}
  BY <1>2, <1>3 DEF Numeral
<1> QED
  BY <1>1, <1>2, <1>4 DEF Numeral

\* The value of a digit
DigitValue(d) == (CHOOSE i \in DOMAIN Numeral : Numeral[i] = d) - 1

LEMMA ValueOf == ASSUME NEW n \in 0..9 PROVE DigitValue(Numeral[n + 1]) = n
<1>1. \A i, j \in 1..10 : Numeral[i] = Numeral[j] => i = j
  <2>1. \A i \in 1..10 : i \in {1, 2, 3, 4, 5, 6, 7, 8, 9, 10}
    OBVIOUS
  <2> QED
    BY <2>1 DEF Numeral
<1>2. n + 1 \in 1..10
  OBVIOUS
<1> QED
  BY <1>1, <1>2, NumeralIs DEF DigitValue

\* One digit more
Digitwise(base, n, d) == base * n + DigitValue(d)

\* Number() as a fold over the digits
NumberFold(base, digits, n, g) ==
    g = [s \in SUBSET (1..n) |->
            IF s = {} THEN 0 ELSE Digitwise(base, g[s \ {Max(s)}], digits[Max(s)])]

\* What such a fold is on the first digits
DigitByDigit(base, digits, n, g) ==
    /\ g[1..0] = 0
    /\ \A k \in 0..n - 1 : g[1..k + 1] = Digitwise(base, g[1..k], digits[k + 1])

\* The function that the fold defines exists, its step, and its value
NumberOf(base, digits) ==
    LET value(d) == (CHOOSE i \in DOMAIN Numeral : Numeral[i] = d) - 1
    IN FoldLeft(LAMBDA n, d : base * n + value(d), 0, digits)

LEMMA NumberFolds == ASSUME NEW base, NEW digits PROVE \A n \in Nat : \E g : NumberFold(base, digits, n, g)
<1> DEFINE S == {n \in Nat : \E g : NumberFold(base, digits, n, g)}
<1>1. 0 \in S
  <2>1. \A s \in SUBSET (1..0) : s = {}
    OBVIOUS
  <2>2. NumberFold(base, digits, 0, [s \in SUBSET (1..0) |-> 0])
    BY <2>1 DEF NumberFold
  <2> QED
    BY <2>2
<1>2. ASSUME NEW n \in Nat, n \in S PROVE n + 1 \in S
  <2>1. PICK g : NumberFold(base, digits, n, g)
    BY <1>2
  <2> DEFINE h == [s \in SUBSET (1..n + 1) |->
                      IF n + 1 \in s THEN Digitwise(base, g[s \ {n + 1}], digits[n + 1]) ELSE g[s]]
             H(s) == IF s = {} THEN 0 ELSE Digitwise(base, h[s \ {Max(s)}], digits[Max(s)])
  <2>2. ASSUME NEW s \in SUBSET (1..n + 1) PROVE h[s] = H(s)
    <3>1. CASE n + 1 \in s
      <4>1. Max(s) = n + 1
        BY <3>1, MaxOfUpTo
      <4>2. s \ {n + 1} \in SUBSET (1..n + 1) /\ n + 1 \notin s \ {n + 1}
        OBVIOUS
      <4>3. h[s \ {n + 1}] = g[s \ {n + 1}]
        BY <4>2
      <4>4. h[s] = Digitwise(base, g[s \ {n + 1}], digits[n + 1])
        BY <3>1
      <4>5. s # {}
        BY <3>1
      <4> HIDE DEF h
      <4> QED
        BY <4>1, <4>3, <4>4, <4>5
    <3>2. CASE n + 1 \notin s
      <4>1. s \in SUBSET (1..n)
        BY <3>2
      <4>2. h[s] = g[s]
        BY <3>2
      <4>3. g[s] = IF s = {} THEN 0 ELSE Digitwise(base, g[s \ {Max(s)}], digits[Max(s)])
        BY <2>1, <4>1 DEF NumberFold
      <4>4. s \ {Max(s)} \in SUBSET (1..n + 1) /\ n + 1 \notin s \ {Max(s)}
        BY <3>2
      <4>5. h[s \ {Max(s)}] = g[s \ {Max(s)}]
        BY <4>4
      <4> HIDE DEF h
      <4> QED
        BY <4>2, <4>3, <4>5
    <3> QED
      BY <3>1, <3>2
  <2>3. h = [s \in SUBSET (1..n + 1) |-> H(s)]
    BY <2>2
  <2>4. NumberFold(base, digits, n + 1, h)
    BY <2>3 DEF NumberFold
  <2> QED
    BY <2>4
<1> HIDE DEF S
<1>3. \A n \in Nat : n \in S
  BY <1>1, <1>2, AllNumbers
<1> QED
  BY <1>3 DEF S

LEMMA NumberFoldStep ==
    ASSUME NEW base, NEW digits, NEW n \in Nat, NEW g, NumberFold(base, digits, n, g)
    PROVE  DigitByDigit(base, digits, n, g)
<1>1. g[1..0] = 0
  BY DEF NumberFold
<1>2. ASSUME NEW k \in 0..n - 1 PROVE g[1..k + 1] = Digitwise(base, g[1..k], digits[k + 1])
  <2>1. 1..k + 1 \in SUBSET (1..n) /\ 1..k + 1 # {}
    <3>1. 1 \in 1..k + 1 /\ \A x \in 1..k + 1 : x \in 1..n
      OBVIOUS
    <3> QED
      BY <3>1
  <2>2. Max(1..k + 1) = k + 1
    BY MaxOfUpTo
  <2>3. (1..k + 1) \ {k + 1} = 1..k
    OBVIOUS
  <2> QED
    BY <2>1, <2>2, <2>3 DEF NumberFold
<1> QED
  BY <1>1, <1>2 DEF DigitByDigit

LEMMA NumberIsFold ==
    ASSUME NEW X, NEW base, NEW digits \in Seq(X)
    PROVE  \E g : NumberFold(base, digits, Len(digits), g) /\ NumberOf(base, digits) = g[1..Len(digits)]
<1>1. Len(digits) \in Nat /\ DOMAIN digits = 1..Len(digits)
  BY LenProperties
<1>2. \E g : NumberFold(base, digits, Len(digits), g)
  BY <1>1, NumberFolds
<1>3. NumberOf(base, digits) = (CHOOSE g : NumberFold(base, digits, Len(digits), g))[1..Len(digits)]
  BY <1>1 DEF NumberOf, Digitwise, DigitValue, FoldLeft, MapThenFoldSet, NumberFold
<1> QED
  BY <1>2, <1>3


LEMMA NumberOfNothing == ASSUME NEW base PROVE NumberOf(base, <<>>) = 0
<1>1. PICK g : NumberFold(base, <<>>, Len(<<>>), g) /\ NumberOf(base, <<>>) = g[1..Len(<<>>)]
  BY NumberIsFold, <<>> \in Seq({})
<1>2. Len(<<>>) = 0
  OBVIOUS
<1>3. DigitByDigit(base, <<>>, 0, g)
  BY <1>1, <1>2, NumberFoldStep
<1> QED
  BY <1>1, <1>2, <1>3 DEF DigitByDigit

LEMMA NumberOfAppend ==
    ASSUME NEW X, NEW base, NEW digits \in Seq(X), NEW digit \in X
    PROVE  NumberOf(base, Append(digits, digit)) = Digitwise(base, NumberOf(base, digits), digit)
<1> DEFINE n == Len(digits)
           longer == Append(digits, digit)
<1>1. n \in Nat /\ longer \in Seq(X) /\ Len(longer) = n + 1
  BY LenProperties
<1>2. \A k \in 1..n : longer[k] = digits[k]
  OBVIOUS
<1>3. longer[n + 1] = digit
  OBVIOUS
<1> HIDE DEF longer
<1>4. PICK g : NumberFold(base, digits, n, g) /\ NumberOf(base, digits) = g[1..n]
  BY NumberIsFold
<1>5. PICK h : NumberFold(base, longer, n + 1, h) /\ NumberOf(base, longer) = h[1..n + 1]
  BY <1>1, NumberIsFold
<1> HIDE DEF n
<1>6. /\ g[1..0] = 0
      /\ \A k \in 0..n - 1 : g[1..k + 1] = Digitwise(base, g[1..k], digits[k + 1])
  <2>1. n \in Nat /\ NumberFold(base, digits, n, g)
    BY <1>1, <1>4
  <2>2. DigitByDigit(base, digits, n, g)
    BY <2>1, NumberFoldStep
  <2> QED
    BY <2>2 DEF DigitByDigit
<1>7. /\ h[1..0] = 0
      /\ \A k \in 0..n : h[1..k + 1] = Digitwise(base, h[1..k], longer[k + 1])
  <2> DEFINE m == n + 1
  <2>1. m - 1 = n /\ m \in Nat /\ NumberFold(base, longer, m, h)
    BY <1>1, <1>5
  <2> HIDE DEF m
  <2>2. DigitByDigit(base, longer, m, h)
    BY <2>1, NumberFoldStep
  <2>3. /\ h[1..0] = 0
        /\ \A k \in 0..m - 1 : h[1..k + 1] = Digitwise(base, h[1..k], longer[k + 1])
    BY <2>2 DEF DigitByDigit
  <2> QED
    BY <2>1, <2>3
<1> DEFINE S == {k \in Nat : k =< n => h[1..k] = g[1..k]}
<1>8. 0 \in S
  BY <1>6, <1>7
<1>9. ASSUME NEW k \in Nat, k \in S PROVE k + 1 \in S
  <2> SUFFICES ASSUME k + 1 =< n PROVE h[1..k + 1] = g[1..k + 1]
    OBVIOUS
  <2>1. k \in 0..n - 1 /\ k \in 0..n /\ k + 1 \in 1..n /\ k =< n
    BY <1>1
  <2> QED
    BY <1>2, <1>6, <1>7, <1>9, <2>1 DEF n
<1> HIDE DEF S
<1>10. n \in S
  BY <1>1, <1>8, <1>9, AllNumbers
<1>11. h[1..n] = g[1..n]
  BY <1>1, <1>10 DEF S
<1>12. h[1..n + 1] = Digitwise(base, h[1..n], longer[n + 1])
  BY <1>1, <1>7
<1> QED
  BY <1>3, <1>4, <1>5, <1>11, <1>12 DEF longer, n

\* The numeral of a number is made of digits, one at least, and reads as the number
LEMMA DecimalReads ==
    ASSUME NEW n \in Nat
    PROVE  /\ Decimal(n) \in Seq(Digit) /\ Decimal(n) # <<>> /\ NumberOf(10, Decimal(n)) = n
           /\ n < 10 => Decimal(n) = <<Numeral[n + 1]>>
<1> DEFINE Writes(k, f) ==
               f = [m \in 0..k |-> IF m < 10 THEN <<Numeral[m + 1]>>
                                    ELSE f[m \div 10] \o <<Numeral[(m % 10) + 1]>>]
           S == {k \in Nat : \E f : Writes(k, f)}
<1>1. 0 \in S
  <2>1. Writes(0, [m \in 0..0 |-> <<Numeral[m + 1]>>])
    <3>1. \A m \in 0..0 : m < 10
      OBVIOUS
    <3> QED
      BY <3>1
  <2> QED
    BY <2>1
<1>2. ASSUME NEW k \in Nat, k \in S PROVE k + 1 \in S
  <2>1. PICK f : Writes(k, f)
    BY <1>2
  <2> DEFINE More(g, m) == IF m < 10 THEN <<Numeral[m + 1]>>
                           ELSE g[m \div 10] \o <<Numeral[(m % 10) + 1]>>
             h == [m \in 0..k + 1 |-> IF m = k + 1 THEN More(f, m) ELSE f[m]]
  <2>2. \A m \in 0..k + 1 : m >= 10 => m \div 10 \in 0..k
    OBVIOUS
  <2>3. \A m \in 0..k : h[m] = f[m]
    OBVIOUS
  <2>4. \A m \in 0..k + 1 : h[m] = More(h, m)
    <3> SUFFICES ASSUME NEW m \in 0..k + 1 PROVE h[m] = More(h, m)
      OBVIOUS
    <3>1. More(h, m) = More(f, m)
      BY <2>2, <2>3
    <3>2. CASE m = k + 1
      BY <3>1, <3>2
    <3>3. CASE m # k + 1
      <4>1. m \in 0..k
        BY <3>3
      <4>2. f[m] = More(f, m)
        BY <2>1, <4>1
      <4> HIDE DEF More
      <4> QED
        BY <3>1, <3>3, <4>2
    <3> QED
      BY <3>2, <3>3
  <2>5. h = [m \in 0..k + 1 |-> More(h, m)]
    <3> HIDE DEF More
    <3> QED
      BY <2>4
  <2>6. Writes(k + 1, h)
    <3> HIDE DEF h
    <3> QED
      BY <2>5
  <2> HIDE DEF Writes, h
  <2> QED
    BY <2>6
<1> HIDE DEF S
<1>3. \E f : Writes(n, f)
  <2>1. \A k \in Nat : k \in S
    BY <1>1, <1>2, AllNumbers
  <2> QED
    BY <2>1 DEF S
<1> DEFINE w == CHOOSE f : Writes(n, f)
<1>4. Writes(n, w)
  BY <1>3
<1>5. Decimal(n) = w[n]
  BY DEF Decimal
<1> HIDE DEF w
<1>6. \A m \in 0..n : w[m] = IF m < 10 THEN <<Numeral[m + 1]>>
                              ELSE w[m \div 10] \o <<Numeral[(m % 10) + 1]>>
  BY <1>4
<1> HIDE DEF Writes
<1> DEFINE Reads(ds, m) == ds \in Seq(Digit) /\ ds # <<>> /\ NumberOf(10, ds) = m
           T == {k \in Nat : \A m \in 0..n : m =< k => Reads(w[m], m)}
<1>7. ASSUME NEW ds \in Seq(Digit), NEW d \in 0..9
      PROVE  /\ ds \o <<Numeral[d + 1]>> \in Seq(Digit) /\ ds \o <<Numeral[d + 1]>> # <<>>
             /\ NumberOf(10, ds \o <<Numeral[d + 1]>>) = 10 * NumberOf(10, ds) + d
  <2>1. Numeral[d + 1] \in Digit
    BY NumeralIs
  <2>2. ds \o <<Numeral[d + 1]>> = Append(ds, Numeral[d + 1])
    BY <2>1, AppendIsConcat
  <2>3. Append(ds, Numeral[d + 1]) \in Seq(Digit) /\ Append(ds, Numeral[d + 1]) # <<>>
    BY <2>1, AppendProperties
  <2>4. NumberOf(10, Append(ds, Numeral[d + 1])) = Digitwise(10, NumberOf(10, ds), Numeral[d + 1])
    BY <2>1, NumberOfAppend
  <2> QED
    BY <2>2, <2>3, <2>4, ValueOf DEF Digitwise
<1>8. ASSUME NEW d \in 0..9 PROVE Reads(<<Numeral[d + 1]>>, d)
  <2>1. <<>> \o <<Numeral[d + 1]>> = <<Numeral[d + 1]>> /\ <<>> \in Seq(Digit)
    BY NumeralIs
  <2>2. NumberOf(10, <<>> \o <<Numeral[d + 1]>>) = 10 * NumberOf(10, <<>>) + d
    BY <1>7, <2>1
  <2>3. NumberOf(10, <<>>) = 0
    BY NumberOfNothing
  <2>4. <<Numeral[d + 1]>> \in Seq(Digit) /\ <<Numeral[d + 1]>> # <<>>
    BY NumeralIs
  <2>5. NumberOf(10, <<Numeral[d + 1]>>) = d
    BY <2>1, <2>2, <2>3
  <2> QED
    BY <2>4, <2>5
<1>9. 0 \in T
  <2>1. \A m \in 0..n : m =< 0 => m = 0 /\ m < 10
    OBVIOUS
  <2> HIDE DEF Reads
  <2>2. Reads(<<Numeral[0 + 1]>>, 0)
    BY <1>8
  <2> QED
    BY <1>6, <2>1, <2>2
<1>10. ASSUME NEW k \in Nat, k \in T PROVE k + 1 \in T
  <2> SUFFICES ASSUME NEW m \in 0..n, m = k + 1 PROVE Reads(w[m], m)
    <3> HIDE DEF Reads
    <3> QED
      BY <1>10
  <2>1. CASE m < 10
    <3>1. m \in 0..9
      BY <2>1
    <3>2. w[m] = <<Numeral[m + 1]>>
      BY <1>6, <2>1, Zenon
    <3> HIDE DEF Reads
    <3> QED
      BY <1>8, <3>1, <3>2
  <2>2. CASE ~(m < 10)
    <3> DEFINE q == m \div 10
               d == m % 10
    <3>1. q \in 0..n /\ q =< k /\ d \in 0..9 /\ m = 10 * q + d
      BY <2>2
    <3>2. w[m] = w[q] \o <<Numeral[d + 1]>>
      BY <1>6, <2>2
    <3> HIDE DEF q, d
    <3>3. Reads(w[q], q)
      <4> HIDE DEF Reads
      <4> QED
        BY <1>10, <3>1
    <3> QED
      BY <1>7, <3>1, <3>2, <3>3
  <2> QED
    BY <2>1, <2>2
<1> HIDE DEF T
<1>11. n \in T
  BY <1>9, <1>10, AllNumbers
<1>12. Reads(w[n], n)
  <2> HIDE DEF Reads
  <2> QED
    BY <1>11 DEF T
<1>13. n < 10 => w[n] = <<Numeral[n + 1]>>
  <2>1. n \in 0..n
    OBVIOUS
  <2> QED
    BY <1>6, <2>1, Zenon
<1> QED
  BY <1>5, <1>12, <1>13

-----------------------------------------------------------------------------
(* Searching                                                               *)

\* A pattern is found at a place
Found(p, t, i) == \A k \in 1..Len(p) : t[i + k - 1] = p[k]

LEMMA FoundIs ==
    ASSUME NEW X, NEW p \in Seq(X), NEW t \in Seq(X), NEW i \in 1..Len(t) - Len(p) + 1
    PROVE  SubSeq(t, i, i + Len(p) - 1) = p <=> Found(p, t, i)
<1> DEFINE n == Len(p)
           s == SubSeq(t, i, i + n - 1)
<1>1. n \in Nat /\ Len(t) \in Nat /\ i \in Int /\ i + n - 1 \in Int
  BY LenProperties
<1>2. \A k \in i..i + n - 1 : t[k] \in X
  <2>1. \A k \in i..i + n - 1 : k \in 1..Len(t)
    BY <1>1
  <2> QED
    BY <2>1, ElementOfSeq
<1>3. s \in Seq(X) /\ Len(s) = n /\ \A k \in 1..n : s[k] = t[i + k - 1]
  <2>1. /\ s \in Seq(X)
        /\ Len(s) = IF i <= i + n - 1 THEN i + n - 1 - i + 1 ELSE 0
        /\ \A k \in 1..i + n - 1 - i + 1 : s[k] = t[i + k - 1]
    BY <1>1, <1>2, SubSeqProperties
  <2> HIDE DEF s, n
  <2>2. i + n - 1 - i + 1 = n /\ (i <= i + n - 1 <=> n >= 1)
    BY <1>1
  <2> QED
    BY <1>1, <2>1, <2>2
<1> HIDE DEF s
<1>4. (\A k \in 1..n : s[k] = p[k]) => s = p
  BY <1>3, SeqEqual
<1> QED
  BY <1>3, <1>4 DEF Found, s

\* std::string::find returns the first place, or npos
LEMMA FindFirst ==
    ASSUME NEW X, NEW p \in Seq(X), NEW t \in Seq(X), NEW from \in Nat \ {0},
           NEW i \in from..Len(t) - Len(p) + 1, Found(p, t, i),
           \A j \in from..i - 1 : ~Found(p, t, j)
    PROVE  Find(p, t, from) = i
<1> DEFINE places == {j \in from..Len(t) - Len(p) + 1 : SubSeq(t, j, j + Len(p) - 1) = p}
<1>1. Len(p) \in Nat /\ Len(t) \in Nat
  BY LenProperties
<1>2. \A j \in from..Len(t) - Len(p) + 1 : j \in places <=> Found(p, t, j)
  <2>1. \A j \in from..Len(t) - Len(p) + 1 : j \in 1..Len(t) - Len(p) + 1
    BY <1>1
  <2> QED
    BY <2>1, FoundIs
<1>0. \A j \in places : j \in from..Len(t) - Len(p) + 1
  OBVIOUS
<1> HIDE DEF places
<1>3. i \in places /\ \A j \in places : i <= j
  <2>1. i \in places
    BY <1>2
  <2>2. ASSUME NEW j \in places PROVE i <= j
    <3>1. j \in from..Len(t) - Len(p) + 1 /\ Found(p, t, j)
      BY <1>0, <1>2
    <3>2. j \notin from..i - 1
      BY <3>1
    <3> QED
      BY <1>1, <3>1, <3>2
  <2> QED
    BY <2>1, <2>2
<1>4. places \subseteq Nat /\ places # {}
  BY <1>0, <1>1, <1>3
<1>5. Find(p, t, from) = Min(places)
  BY <1>4 DEF Find, places
<1>6. Min(places) \in places /\ \A j \in places : Min(places) <= j
  BY <1>4, MinIn
<1>7. Min(places) \in Nat /\ i \in Nat
  BY <1>3, <1>4, <1>6
<1>8. Min(places) <= i /\ i <= Min(places)
  BY <1>3, <1>6
<1> QED
  BY <1>5, <1>7, <1>8

LEMMA FindNone ==
    ASSUME NEW X, NEW p \in Seq(X), NEW t \in Seq(X), NEW from \in Nat \ {0},
           \A j \in from..Len(t) - Len(p) + 1 : ~Found(p, t, j)
    PROVE  Find(p, t, from) = 0
<1>1. Len(p) \in Nat /\ Len(t) \in Nat
  BY LenProperties
<1>2. \A j \in from..Len(t) - Len(p) + 1 : j \in 1..Len(t) - Len(p) + 1
  BY <1>1
<1>3. \A j \in from..Len(t) - Len(p) + 1 : SubSeq(t, j, j + Len(p) - 1) # p
  BY <1>2, FoundIs
<1> QED
  BY <1>3 DEF Find

LEMMA FindSome ==
    ASSUME NEW X, NEW p \in Seq(X), NEW t \in Seq(X), NEW from \in Nat \ {0},
           NEW i \in from..Len(t) - Len(p) + 1, Found(p, t, i)
    PROVE  Find(p, t, from) # 0
<1> DEFINE places == {j \in from..Len(t) - Len(p) + 1 : SubSeq(t, j, j + Len(p) - 1) = p}
<1>1. Len(p) \in Nat /\ Len(t) \in Nat
  BY LenProperties
<1>2. i \in places
  <2>1. i \in 1..Len(t) - Len(p) + 1
    BY <1>1
  <2> QED
    BY <2>1, FoundIs
<1>3. places \subseteq Nat \ {0}
  BY <1>1
<1>4. Find(p, t, from) = Min(places)
  BY <1>2 DEF Find
<1> HIDE DEF places
<1>5. Min(places) \in places
  BY <1>2, <1>3, MinIn
<1> QED
  BY <1>3, <1>4, <1>5

\* A span is as long as items of the set go on
LEMMA SpanIs ==
    ASSUME NEW X, NEW text \in Seq(X), NEW set, "end" \notin set
    PROVE  /\ Span(set, text) \in 0..Len(text)
           /\ \A k \in 1..Span(set, text) : text[k] \in set
           /\ Span(set, text) < Len(text) => text[Span(set, text) + 1] \notin set
<1> DEFINE longer == Append(text, "end")
           I == {k \in 1..Len(longer) : longer[k] \notin set}
           m == Min(I)
<1>0. Len(text) \in Nat
  BY LenProperties
<1>1. /\ Len(longer) = Len(text) + 1
      /\ \A k \in 1..Len(text) : longer[k] = text[k]
      /\ longer[Len(text) + 1] = "end"
  BY AppendProperties
<1>2. Span(set, text) = m - 1
  <2>1. Len(text) + 1 \in I
    BY <1>0, <1>1
  <2> QED
    BY <2>1 DEF Span, SelectInSeq
<1> HIDE DEF longer
<1>3. Len(text) + 1 \in I
  BY <1>0, <1>1
<1>4. m \in I /\ m \in 1..Len(text) + 1 /\ \A k \in I : m <= k
  <2>1. I \subseteq Nat /\ I # {} /\ I \subseteq 1..Len(text) + 1
    BY <1>0, <1>1, <1>3
  <2> HIDE DEF I
  <2> QED
    BY <2>1, MinIn
<1> HIDE DEF m
<1>5. \A k \in 1..m - 1 : text[k] \in set
  <2> SUFFICES ASSUME NEW k \in 1..m - 1, text[k] \notin set PROVE FALSE
    OBVIOUS
  <2>1. k \in 1..Len(text) /\ k \in 1..Len(text) + 1 /\ k < m
    BY <1>0, <1>4
  <2>2. k \in I
    BY <1>1, <2>1
  <2> QED
    BY <1>0, <1>4, <2>1, <2>2
<1>6. m - 1 < Len(text) => text[m - 1 + 1] \notin set
  <2> SUFFICES ASSUME m - 1 < Len(text) PROVE text[m] \notin set
    BY <1>0, <1>4
  <2>1. m \in 1..Len(text)
    BY <1>0, <1>4
  <2> QED
    BY <1>1, <1>4, <2>1
<1>7. m - 1 \in 0..Len(text)
  BY <1>0, <1>4
<1> QED
  BY <1>2, <1>5, <1>6, <1>7

LEMMA SpanAt ==
    ASSUME NEW X, NEW text \in Seq(X), NEW set, "end" \notin set, NEW n \in 0..Len(text),
           \A k \in 1..n : text[k] \in set,
           n < Len(text) => text[n + 1] \notin set
    PROVE  Span(set, text) = n
<1> DEFINE m == Span(set, text)
<1>1. /\ m \in 0..Len(text)
      /\ \A k \in 1..m : text[k] \in set
      /\ m < Len(text) => text[m + 1] \notin set
  BY SpanIs
<1>2. Len(text) \in Nat
  BY LenProperties
<1> HIDE DEF m
<1>3. ~(m < n)
  <2> SUFFICES ASSUME m < n PROVE FALSE
    OBVIOUS
  <2>1. m + 1 \in 1..n /\ m < Len(text)
    BY <1>1, <1>2
  <2> QED
    BY <1>1, <2>1
<1>4. ~(n < m)
  <2> SUFFICES ASSUME n < m PROVE FALSE
    OBVIOUS
  <2>1. n + 1 \in 1..m /\ n < Len(text)
    BY <1>1, <1>2
  <2> QED
    BY <1>1, <2>1
<1>5. m = n
  BY <1>1, <1>2, <1>3, <1>4
<1> QED
  BY <1>5 DEF m

\* Digits are no white space, and neither of them is the end of a text
LEMMA DigitsApart == "end" \notin Digit /\ "end" \notin White /\ \A d \in Digit : d \notin White
  BY NumeralIs DEF White

\* What is left of a text from a place on
LEMMA RestType ==
    ASSUME NEW X, NEW text \in Seq(X), NEW p \in 1..Len(text) + 1
    PROVE  /\ Rest(text, p) \in Seq(X) /\ Len(Rest(text, p)) = Len(text) - p + 1
           /\ \A k \in 1..Len(text) - p + 1 : Rest(text, p)[k] = text[p + k - 1]
<1> DEFINE n == Len(text)
           s == SubSeq(text, p, n)
<1>1. n \in Nat /\ p \in Int
  BY LenProperties
<1>2. \A k \in p..n : text[k] \in X
  <2>1. \A k \in p..n : k \in 1..Len(text)
    BY <1>1
  <2> QED
    BY <2>1, ElementOfSeq
<1>3. /\ s \in Seq(X) /\ Len(s) = IF p <= n THEN n - p + 1 ELSE 0
      /\ \A k \in 1..n - p + 1 : s[k] = text[p + k - 1]
  BY <1>1, <1>2, SubSeqProperties
<1> HIDE DEF s, n
<1>4. (IF p <= n THEN n - p + 1 ELSE 0) = n - p + 1
  BY <1>1 DEF n
<1>5. Rest(text, p) = s
  BY DEF Rest, s, n
<1> QED
  BY <1>3, <1>4, <1>5 DEF n

\* strtol and strtoul read the digits that a text begins with
LEMMA NumberReads ==
    ASSUME NEW X, NEW text \in Seq(X), NEW ds \in Seq(Digit), ds # <<>>, NEW base,
           Len(ds) <= Len(text), \A k \in 1..Len(ds) : text[k] = ds[k],
           Len(ds) < Len(text) => text[Len(ds) + 1] \notin Digit
    PROVE  Decimals(text) = ds /\ Number(text, base) = NumberOf(base, ds)
<1> DEFINE n == Len(ds)
<1>1. n \in Nat /\ Len(text) \in Nat /\ n <= Len(text) /\ n >= 1
  <2>1. Len(ds) # 0
    BY EmptySeq
  <2> QED
    BY <2>1, LenProperties
<1>2. \A k \in 1..n : ds[k] \in Digit
  BY ElementOfSeq
<1>3. Span(White, text) = 0
  <2>1. 1 \in 1..n /\ 0 \in 0..Len(text) /\ 0 + 1 = 1 /\ 1..0 = {}
    BY <1>1
  <2>2. text[1] \notin White
    BY <1>2, <2>1, DigitsApart
  <2> QED
    BY <2>1, <2>2, DigitsApart, SpanAt
<1>4. Rest(text, 1) = text
  BY SubSeqFull DEF Rest
<1>5. Span(Digit, text) = n
  <2>1. \A k \in 1..n : text[k] \in Digit
    BY <1>2
  <2>2. n \in 0..Len(text)
    BY <1>1
  <2> QED
    BY <2>1, <2>2, DigitsApart, SpanAt
<1>6. Decimals(text) = SubSeq(text, 1, n)
  BY <1>3, <1>4, <1>5 DEF Decimals
<1>8. SubSeq(text, 1, n) = ds
  <2> DEFINE s == SubSeq(text, 1, n)
  <2>2. \A k \in 1..n : text[k] \in Digit
    BY <1>2
  <2>3. s \in Seq(Digit) /\ Len(s) = n /\ \A k \in 1..n : s[k] = text[k]
    BY <1>1, <2>2, SubSeqProperties
  <2> HIDE DEF s
  <2>4. s = ds
    BY <2>3, SeqEqual
  <2> QED
    BY <2>4 DEF s
<1>10. Decimals(text) = ds
  BY <1>6, <1>8
<1> QED
  BY <1>10 DEF Number, NumberOf

\* The digits of a text are digits
LEMMA DecimalsType == ASSUME NEW X, NEW text \in Seq(X) PROVE Decimals(text) \in Seq(Digit)
<1> DEFINE w == Span(White, text)
           t == Rest(text, w + 1)
           n == Span(Digit, t)
<1>1. w \in 0..Len(text) /\ Len(text) \in Nat
  BY SpanIs, DigitsApart, LenProperties
<1>2. t \in Seq(X)
  <2>1. w + 1 \in 1..Len(text) + 1
    BY <1>1
  <2> HIDE DEF w
  <2> QED
    BY <2>1, RestType
<1> HIDE DEF t
<1>3. n \in 0..Len(t) /\ \A k \in 1..n : t[k] \in Digit
  BY <1>2, SpanIs, DigitsApart
<1>4. n \in Int
  BY <1>3
<1> HIDE DEF n
<1>5. SubSeq(t, 1, n) \in Seq(Digit)
  BY <1>3, <1>4, SubSeqProperties
<1> QED
  BY <1>5 DEF Decimals, n, t, w

\* A number that is an int is read as it is
LEMMA AsIntIs == ASSUME NEW n \in 0..IntMax PROVE AsInt(n) = n
<1> DEFINE k == IntMax + 1
<1>1. IntMax \in Nat /\ n \in Nat /\ n <= IntMax
  BY RequestsAssumption
<1>2. k \in Nat /\ k >= 1 /\ n < k
  BY <1>1
<1>3. ~(n > LongMax)
  <2> HIDE DEF k
  <2>1. k * k >= k
    BY <1>2
  <2>2. LongMax = 2 * k * k - 1
    BY DEF LongMax, k
  <2>3. 2 * k * k = 2 * (k * k)
    BY <1>2
  <2>4. k * k \in Nat
    BY <1>2
  <2> QED
    BY <1>2, <2>1, <2>2, <2>3, <2>4
<1>4. AsInt(n) = ((n + k) % (2 * k)) - k
  <2>1. n + IntMax + 1 = n + k
    BY <1>1
  <2> QED
    BY <1>3, <2>1 DEF AsInt
<1> HIDE DEF k
<1>5. \A a, m \in Nat : a < m => a % m = a
  OBVIOUS
<1>6. (n + k) % (2 * k) = n + k
  <2>1. n + k \in Nat /\ 2 * k \in Nat /\ n + k < 2 * k
    BY <1>1, <1>2
  <2> QED
    BY <1>5, <2>1
<1> QED
  BY <1>1, <1>2, <1>4, <1>6

-----------------------------------------------------------------------------
(* What the peer writes                                                    *)

Item == Byte \cup Word

LEMMA ItemsAre ==
    /\ Digit \subseteq Byte /\ "cr" \in Byte /\ "lf" \in Byte /\ "x" \in Byte
    /\ "cr" \notin Digit /\ "lf" \notin Digit /\ "x" \notin Digit
    /\ Byte \subseteq Item /\ Word \subseteq Item
    /\ \A b \in Byte : b \notin Word
<1>1. /\ Digit \subseteq Byte /\ White \subseteq Byte /\ Byte \subseteq Item /\ Word \subseteq Item
      /\ "cr" \in White /\ "lf" \in White /\ "x" \in Byte
  BY DEF Byte, Item, White
<1>2. "cr" \notin Digit /\ "lf" \notin Digit /\ "x" \notin Digit
  BY NumeralIs
<1>3. \A d \in Digit : d \notin Word
  BY NumeralIs DEF Word
<1>4. \A d \in White \cup {"nul", "length:", "chunked", "x"} : d \notin Word
  BY DEF White, Word
<1>5. Byte = Digit \cup (White \cup {"nul", "length:", "chunked", "x"})
  BY DEF Byte
<1> QED
  BY <1>1, <1>2, <1>3, <1>4, <1>5

LEMMA LineIs ==
    ASSUME NEW X, "cr" \in X, "lf" \in X, NEW s \in Seq(X)
    PROVE  /\ Line(s) \in Seq(X) /\ Len(Line(s)) = Len(s) + 2
           /\ \A k \in 1..Len(s) : Line(s)[k] = s[k]
           /\ Line(s)[Len(s) + 1] = "cr" /\ Line(s)[Len(s) + 2] = "lf"
<1>1. <<"cr", "lf">> \in Seq(X) /\ Len(<<"cr", "lf">>) = 2
  OBVIOUS
<1>2. /\ Line(s) \in Seq(X) /\ Len(Line(s)) = Len(s) + 2
      /\ \A k \in 1..Len(s) + 2 : Line(s)[k] = IF k <= Len(s) THEN s[k] ELSE <<"cr", "lf">>[k - Len(s)]
  BY <1>1, ConcatProperties DEF Line
<1>3. Len(s) \in Nat
  BY LenProperties
<1> QED
  BY <1>2, <1>3

\* The line of the head that tells how the body is framed
Framing(r) ==
    CASE r.kind = "none"    -> <<>>
      [] r.kind = "length"  -> Line(<<"length:">> \o Decimal(Len(Data(r))))
      [] r.kind = "chunked" -> Line(<<"chunked">>)

\* A head is a request line, that line and an empty one
LEMMA HeadIs ==
    ASSUME NEW r, NEW f \in Seq(Item), Framing(r) = f
    PROVE  /\ HeadOf(r) \in Seq(Item) /\ Len(HeadOf(r)) = Len(f) + 8
           /\ HeadOf(r)[1] = "verb" /\ HeadOf(r)[2] = "uri" /\ HeadOf(r)[3] = "http"
           /\ HeadOf(r)[4] = "/1.0" /\ HeadOf(r)[5] = "cr" /\ HeadOf(r)[6] = "lf"
           /\ \A k \in 1..Len(f) : HeadOf(r)[6 + k] = f[k]
           /\ HeadOf(r)[Len(f) + 7] = "cr" /\ HeadOf(r)[Len(f) + 8] = "lf"
<1> DEFINE a == Line(<<"verb", "uri", "http", "/1.0">>)
           e == Line(<<>>)
<1>1. /\ a \in Seq(Item) /\ Len(a) = 6
      /\ a[1] = "verb" /\ a[2] = "uri" /\ a[3] = "http" /\ a[4] = "/1.0" /\ a[5] = "cr" /\ a[6] = "lf"
  <2> DEFINE w == <<"verb", "uri", "http", "/1.0">>
  <2>1. w \in Seq(Item) /\ Len(w) = 4
    BY DEF Item, Word
  <2>2. w[1] = "verb" /\ w[2] = "uri" /\ w[3] = "http" /\ w[4] = "/1.0"
    OBVIOUS
  <2>3. "cr" \in Item /\ "lf" \in Item
    BY ItemsAre
  <2> HIDE DEF w
  <2>4. /\ Line(w) \in Seq(Item) /\ Len(Line(w)) = Len(w) + 2
        /\ \A k \in 1..Len(w) : Line(w)[k] = w[k]
        /\ Line(w)[Len(w) + 1] = "cr" /\ Line(w)[Len(w) + 2] = "lf"
    BY <2>1, <2>3, LineIs
  <2>5. Line(w) \in Seq(Item) /\ Len(Line(w)) = 6 /\ (\A k \in 1..4 : Line(w)[k] = w[k])
        /\ Line(w)[5] = "cr" /\ Line(w)[6] = "lf"
    BY <2>1, <2>4
  <2> QED
    BY <2>2, <2>5 DEF w
<1>2. e \in Seq(Item) /\ Len(e) = 2 /\ e[1] = "cr" /\ e[2] = "lf"
  <2>1. <<>> \in Seq(Item) /\ Len(<<>>) = 0
    OBVIOUS
  <2>2. "cr" \in Item /\ "lf" \in Item
    BY ItemsAre
  <2>3. /\ Line(<<>>) \in Seq(Item) /\ Len(Line(<<>>)) = Len(<<>>) + 2
        /\ Line(<<>>)[Len(<<>>) + 1] = "cr" /\ Line(<<>>)[Len(<<>>) + 2] = "lf"
    BY <2>1, <2>2, LineIs
  <2> QED
    BY <2>1, <2>3
<1>3. HeadOf(r) = a \o f \o e
  BY DEF HeadOf, Framing
<1> HIDE DEF a, e
<1>4. Len(f) \in Nat
  BY LenProperties
<1> DEFINE n == Len(f)
           b == a \o f
<1>5. /\ b \in Seq(Item) /\ Len(b) = 6 + n
      /\ (\A k \in 1..6 : b[k] = a[k]) /\ \A k \in 1..n : b[6 + k] = f[k]
  <2>0. a \in Seq(Item)
    BY <1>1
  <2>1. /\ a \o f \in Seq(Item) /\ Len(a \o f) = Len(a) + Len(f)
        /\ \A k \in 1..Len(a) : (a \o f)[k] = a[k]
        /\ \A k \in Len(a) + 1..Len(a) + Len(f) : (a \o f)[k] = f[k - Len(a)]
    BY <2>0, JoinIs
  <2> QED
    BY <1>1, <1>4, <2>1
<1> HIDE DEF b, n
<1>6. /\ b \o e \in Seq(Item) /\ Len(b \o e) = 6 + n + 2
      /\ \A k \in 1..6 + n : (b \o e)[k] = b[k]
      /\ \A k \in 1..2 : (b \o e)[6 + n + k] = e[k]
  <2>0. b \in Seq(Item) /\ e \in Seq(Item)
    BY <1>2, <1>5
  <2>1. /\ b \o e \in Seq(Item) /\ Len(b \o e) = Len(b) + Len(e)
        /\ \A k \in 1..Len(b) : (b \o e)[k] = b[k]
        /\ \A k \in Len(b) + 1..Len(b) + Len(e) : (b \o e)[k] = e[k - Len(b)]
    BY <2>0, JoinIs
  <2>2. n \in Nat
    BY <1>4 DEF n
  <2> QED
    BY <1>2, <1>5, <2>1, <2>2
<1>7. HeadOf(r) = b \o e /\ n \in Nat
  BY <1>3, <1>4 DEF b, n
<1>8. \A k \in 1..6 : HeadOf(r)[k] = a[k]
  BY <1>5, <1>6, <1>7
<1>9. \A k \in 1..n : HeadOf(r)[6 + k] = f[k]
  <2> SUFFICES ASSUME NEW k \in 1..n PROVE HeadOf(r)[6 + k] = f[k]
    OBVIOUS
  <2>1. 6 + k \in 1..6 + n
    BY <1>7
  <2> QED
    BY <1>5, <1>6, <1>7, <2>1
<1>10. HeadOf(r)[n + 7] = "cr" /\ HeadOf(r)[n + 8] = "lf"
  <2>1. HeadOf(r)[6 + n + 1] = e[1] /\ HeadOf(r)[6 + n + 2] = e[2]
    BY <1>6, <1>7, SMTT(30)
  <2>2. 6 + n + 1 = n + 7 /\ 6 + n + 2 = n + 8
    BY <1>7
  <2> QED
    BY <1>2, <2>1, <2>2
<1>11. HeadOf(r) \in Seq(Item) /\ Len(HeadOf(r)) = n + 8
  BY <1>6, <1>7
<1> QED
  BY <1>1, <1>8, <1>9, <1>10, <1>11 DEF n

LEMMA NoFraming == ASSUME NEW r, r.kind = "none" PROVE Framing(r) = <<>> /\ Framing(r) \in Seq(Item)
  BY DEF Framing

LEMMA ChunkedFraming ==
    ASSUME NEW r, r.kind = "chunked"
    PROVE  /\ Framing(r) \in Seq(Item) /\ Len(Framing(r)) = 3
           /\ Framing(r)[1] = "chunked" /\ Framing(r)[2] = "cr" /\ Framing(r)[3] = "lf"
<1> DEFINE w == <<"chunked">>
<1>1. w \in Seq(Item) /\ Len(w) = 1 /\ w[1] = "chunked"
  BY DEF Item, Byte
<1>2. "cr" \in Item /\ "lf" \in Item
  BY ItemsAre
<1>3. Framing(r) = Line(w)
  BY DEF Framing
<1> HIDE DEF w
<1>4. /\ Line(w) \in Seq(Item) /\ Len(Line(w)) = Len(w) + 2
      /\ \A k \in 1..Len(w) : Line(w)[k] = w[k]
      /\ Line(w)[Len(w) + 1] = "cr" /\ Line(w)[Len(w) + 2] = "lf"
  BY <1>1, <1>2, LineIs
<1> QED
  BY <1>1, <1>3, <1>4

LEMMA LengthFraming ==
    ASSUME NEW r, r.kind = "length", NEW ds \in Seq(Digit), ds = Decimal(Len(Data(r)))
    PROVE  /\ Framing(r) \in Seq(Item) /\ Len(Framing(r)) = Len(ds) + 3
           /\ Framing(r)[1] = "length:"
           /\ \A k \in 1..Len(ds) : Framing(r)[k + 1] = ds[k]
           /\ Framing(r)[Len(ds) + 2] = "cr" /\ Framing(r)[Len(ds) + 3] = "lf"
<1> DEFINE u == <<"length:">>
           w == u \o ds
           n == Len(ds)
<1>0. Framing(r) = Line(w)
  BY DEF Framing
<1>1. u \in Seq(Item) /\ Len(u) = 1 /\ u[1] = "length:"
  BY DEF Item, Byte
<1>2. "cr" \in Item /\ "lf" \in Item
  BY ItemsAre
<1>3. ds \in Seq(Item) /\ n \in Nat
  <2>1. Digit \subseteq Item
    BY ItemsAre
  <2> QED
    BY <2>1, SeqMonotonic, LenProperties
<1> HIDE DEF u
<1>4. w \in Seq(Item) /\ Len(w) = n + 1 /\ w[1] = "length:" /\ \A k \in 1..n : w[k + 1] = ds[k]
  <2>0. u \in Seq(Item)
    BY <1>1
  <2>1. /\ u \o ds \in Seq(Item) /\ Len(u \o ds) = Len(u) + Len(ds)
        /\ \A k \in 1..Len(u) : (u \o ds)[k] = u[k]
        /\ \A k \in Len(u) + 1..Len(u) + Len(ds) : (u \o ds)[k] = ds[k - Len(u)]
    BY <1>3, <2>0, JoinIs
  <2> QED
    BY <1>1, <1>3, <2>1
<1> HIDE DEF w, n
<1>5. /\ Line(w) \in Seq(Item) /\ Len(Line(w)) = Len(w) + 2
      /\ \A k \in 1..Len(w) : Line(w)[k] = w[k]
      /\ Line(w)[Len(w) + 1] = "cr" /\ Line(w)[Len(w) + 2] = "lf"
  <2>1. w \in Seq(Item)
    BY <1>4
  <2> QED
    BY <1>2, <2>1, LineIs
<1>6. \A k \in 1..n : Line(w)[k + 1] = ds[k]
  BY <1>3, <1>4, <1>5
<1>7. Line(w)[1] = "length:" /\ Len(Line(w)) = n + 3 /\ Line(w)[n + 2] = "cr" /\ Line(w)[n + 3] = "lf"
  BY <1>3, <1>4, <1>5
<1> QED
  BY <1>0, <1>5, <1>6, <1>7 DEF n

-----------------------------------------------------------------------------
(* Sequences put together from others                                      *)

\* FlattenSeq() puts its sequences together one after another
LEMMA FlattenSteps ==
    ASSUME NEW X, NEW seqs \in Seq(Seq(X))
    PROVE  \E flat \in [0..Len(seqs) -> Seq(X)] :
               /\ flat[0] = <<>>
               /\ \A i \in 0..Len(seqs) - 1 : flat[i + 1] = flat[i] \o seqs[i + 1]
               /\ FlattenSeq(seqs) = flat[Len(seqs)]
<1> DEFINE n == Len(seqs)
           Y == Seq(X)
<1>1. n \in Nat /\ \A i \in 1..n : seqs[i] \in Y
  <2>1. seqs \in Seq(Y)
    OBVIOUS
  <2> HIDE DEF Y
  <2> QED
    BY <2>1, LenProperties, ElementOfSeq
<1>2. CASE n = 0
  <2> DEFINE flat == [i \in 0..0 |-> <<>>]
  <2>1. FlattenSeq(seqs) = <<>>
    <3>1. seqs = <<>>
      <4>1. seqs \in Seq(Y)
        OBVIOUS
      <4> HIDE DEF Y
      <4> QED
        BY <1>2, <4>1, EmptySeq
    <3> QED
      BY <3>1, <1>2 DEF FlattenSeq
  <2>2. flat \in [0..n -> Seq(X)]
    BY <1>2, EmptySeq
  <2>3. flat[0] = <<>> /\ flat[n] = <<>> /\ 0..n - 1 = {}
    BY <1>2
  <2> HIDE DEF flat
  <2> QED
    BY <2>1, <2>2, <2>3
<1>3. CASE n # 0
  <2> DEFINE Joins(k, f) == f = [i \in 1..k |-> IF i = 1 THEN seqs[i] ELSE f[i - 1] \o seqs[i]]
             S == {k \in Nat : \E f : Joins(k, f)}
  <2>1. 0 \in S
    <3>1. Joins(0, [i \in 1..0 |-> seqs[i]])
      OBVIOUS
    <3> QED
      BY <3>1
  <2>2. ASSUME NEW k \in Nat, k \in S PROVE k + 1 \in S
    <3>1. PICK f : Joins(k, f)
      BY <2>2
    <3> DEFINE More(g, i) == IF i = 1 THEN seqs[i] ELSE g[i - 1] \o seqs[i]
               h == [i \in 1..k + 1 |-> IF i = k + 1 THEN More(f, i) ELSE f[i]]
    <3>2. \A i \in 1..k : h[i] = f[i]
      OBVIOUS
    <3>3. \A i \in 1..k + 1 : i = 1 \/ i - 1 \in 1..k
      OBVIOUS
    <3>4. \A i \in 1..k + 1 : h[i] = More(h, i)
      <4> SUFFICES ASSUME NEW i \in 1..k + 1 PROVE h[i] = More(h, i)
        OBVIOUS
      <4>1. More(h, i) = More(f, i)
        BY <3>2, <3>3
      <4>2. CASE i = k + 1
        BY <4>1, <4>2
      <4>3. CASE i # k + 1
        <5>1. i \in 1..k
          BY <4>3
        <5>2. f[i] = More(f, i)
          BY <3>1, <5>1
        <5> HIDE DEF More
        <5> QED
          BY <4>1, <4>3, <5>2
      <4> QED
        BY <4>2, <4>3
    <3>5. h = [i \in 1..k + 1 |-> More(h, i)]
      <4> HIDE DEF More
      <4> QED
        BY <3>4
    <3>6. Joins(k + 1, h)
      <4> HIDE DEF h
      <4> QED
        BY <3>5
    <3> HIDE DEF Joins, h
    <3> QED
      BY <3>6
  <2> HIDE DEF S
  <2>3. \E f : Joins(n, f)
    <3>1. \A k \in Nat : k \in S
      BY <2>1, <2>2, AllNumbers
    <3> QED
      BY <1>1, <3>1 DEF S
  <2> DEFINE w == CHOOSE f : Joins(n, f)
  <2>4. Joins(n, w)
    BY <2>3
  <2>5. FlattenSeq(seqs) = w[n]
    BY <1>3 DEF FlattenSeq
  <2> HIDE DEF w
  <2>6. \A i \in 1..n : w[i] = IF i = 1 THEN seqs[i] ELSE w[i - 1] \o seqs[i]
    BY <2>4
  <2> HIDE DEF Joins
  <2> DEFINE flat == [i \in 0..n |-> IF i = 0 THEN <<>> ELSE w[i]]
  <2>7. \A i \in 0..n - 1 : flat[i + 1] = flat[i] \o seqs[i + 1]
    <3> SUFFICES ASSUME NEW i \in 0..n - 1 PROVE flat[i + 1] = flat[i] \o seqs[i + 1]
      OBVIOUS
    <3>1. i + 1 \in 1..n /\ i + 1 # 0 /\ i + 1 \in 0..n /\ i \in 0..n
      BY <1>1
    <3>2. CASE i = 0
      <4>1. seqs[1] \in Seq(X)
        BY <1>1, <3>1, <3>2
      <4>2. <<>> \o seqs[1] = seqs[1]
        BY <4>1, ConcatEmptySeq
      <4>3. flat[1] = seqs[1] /\ flat[0] = <<>>
        BY <2>6, <3>1, <3>2
      <4> QED
        BY <3>2, <4>2, <4>3, SMTT(30)
    <3>3. CASE i # 0
      <4> DEFINE j == i + 1
      <4>1. flat[j] = w[j] /\ flat[i] = w[i] /\ j # 1 /\ j - 1 = i /\ j \in 1..n
        BY <3>1, <3>3
      <4> HIDE DEF flat, j
      <4>2. w[j] = w[j - 1] \o seqs[j]
        BY <2>6, <4>1
      <4>3. flat[j] = flat[i] \o seqs[j]
        BY <4>1, <4>2
      <4> QED
        BY <4>3 DEF j
    <3> QED
      BY <3>2, <3>3
  <2>8. flat[0] = <<>> /\ flat[n] = w[n]
    BY <1>1, <1>3
  <2> DEFINE T == {k \in Nat : k <= n => flat[k] \in Seq(X)}
  <2>9. 0 \in T
    BY <2>8, EmptySeq
  <2>10. ASSUME NEW k \in Nat, k \in T PROVE k + 1 \in T
    <3> SUFFICES ASSUME k + 1 <= n PROVE flat[k + 1] \in Seq(X)
      OBVIOUS
    <3> HIDE DEF flat
    <3>1. k \in 0..n - 1 /\ k + 1 \in 1..n
      BY <1>1
    <3>2. flat[k] \in Seq(X) /\ seqs[k + 1] \in Seq(X)
      BY <1>1, <2>10, <3>1
    <3>3. flat[k] \o seqs[k + 1] \in Seq(X)
      BY <3>2, ConcatProperties
    <3> QED
      BY <2>7, <3>1, <3>3
  <2> HIDE DEF T
  <2>11. \A k \in Nat : k \in T
    BY <2>9, <2>10, AllNumbers
  <2>12. flat \in [0..n -> Seq(X)]
    <3>1. flat = [i \in 0..n |-> flat[i]]
      OBVIOUS
    <3> HIDE DEF flat
    <3>2. \A k \in 0..n : flat[k] \in Seq(X)
      BY <1>1, <2>11 DEF T
    <3> QED
      BY <3>1, <3>2
  <2> HIDE DEF flat
  <2> QED
    BY <2>5, <2>7, <2>8, <2>12
<1> QED
  BY <1>2, <1>3

-----------------------------------------------------------------------------
(* Reading a head                                                          *)

LEMMA RequestIs ==
    ASSUME NEW r \in Requests
    PROVE  /\ r.kind \in {"none", "length", "chunked"} /\ r.chunks \in Seq(Seq(Byte))
           /\ r.kind = "none" => r.chunks = <<>>
           /\ \A i \in DOMAIN r.chunks : Len(r.chunks[i]) \in 1..9
           /\ Data(r) \in Seq(Byte) /\ Len(Data(r)) \in Nat
<1>1. r.kind \in {"none", "length", "chunked"} /\ r.chunks \in Seq(Seq(Byte))
  BY RequestsAssumption DEF Request
<1>2. Data(r) \in Seq(Byte)
  <2> DEFINE cs == r.chunks
  <2>1. cs \in Seq(Seq(Byte))
    BY <1>1
  <2> HIDE DEF cs
  <2>2. PICK flat \in [0..Len(cs) -> Seq(Byte)] : FlattenSeq(cs) = flat[Len(cs)]
    BY <2>1, FlattenSteps
  <2>3. Len(cs) \in 0..Len(cs)
    <3> DEFINE Y == Seq(Byte)
    <3>1. cs \in Seq(Y)
      BY <2>1
    <3> HIDE DEF Y
    <3>2. Len(cs) \in Nat
      BY <3>1, LenProperties
    <3> QED
      BY <3>2
  <2> QED
    BY <2>2, <2>3 DEF Data, cs
<1>3. Len(Data(r)) \in Nat
  BY <1>2, LenProperties
<1> QED
  BY <1>1, <1>2, <1>3, RequestsAssumption

\* Where the blank line of a head is, and the words in its second line
LEMMA HeadItems ==
    ASSUME NEW r \in Requests, NEW h, h = HeadOf(r), NEW n, n = Len(h),
           NEW ds, ds = Decimal(Len(Data(r)))
    PROVE  /\ h \in Seq(Item) /\ n \in Nat /\ n >= 8
           /\ h[1] = "verb" /\ h[2] = "uri" /\ h[3] = "http" /\ h[4] = "/1.0"
           /\ h[n - 3] = "cr" /\ h[n - 2] = "lf" /\ h[n - 1] = "cr" /\ h[n] = "lf"
           /\ \A j \in 1..n - 4 : ~(h[j] = "cr" /\ h[j + 2] = "cr")
           /\ r.kind = "length" => /\ \A j \in 1..6 : h[j] # "length:"
                                   /\ h[7] = "length:" /\ n = Len(ds) + 11
                                   /\ \A k \in 1..Len(ds) : h[k + 7] = ds[k]
                                   /\ h[Len(ds) + 8] = "cr"
           /\ r.kind = "chunked" => n >= 11 /\ h[7] = "chunked"
           /\ r.kind # "length" => \A j \in 1..n : h[j] # "length:"
           /\ r.kind # "chunked" => \A j \in 1..n : h[j] # "chunked"
<1> DEFINE f == Framing(r)
<1>1. ds \in Seq(Digit) /\ Len(ds) \in Nat
  BY RequestIs, DecimalReads, LenProperties
<1>2. ASSUME f \in Seq(Item)
      PROVE  /\ h \in Seq(Item) /\ n \in Nat /\ n >= 8 /\ n = Len(f) + 8
             /\ h[1] = "verb" /\ h[2] = "uri" /\ h[3] = "http" /\ h[4] = "/1.0"
             /\ h[5] = "cr" /\ h[6] = "lf"
             /\ \A k \in 1..Len(f) : h[6 + k] = f[k]
             /\ h[n - 1] = "cr" /\ h[n] = "lf"
  <2> DEFINE m == Len(f)
  <2>1. m \in Nat
    BY <1>2, LenProperties
  <2>2. /\ h \in Seq(Item) /\ n = m + 8
        /\ h[1] = "verb" /\ h[2] = "uri" /\ h[3] = "http" /\ h[4] = "/1.0"
        /\ h[5] = "cr" /\ h[6] = "lf"
        /\ \A k \in 1..m : h[6 + k] = f[k]
        /\ h[m + 7] = "cr" /\ h[m + 8] = "lf"
    BY <1>2, HeadIs
  <2>3. n \in Nat /\ n >= 8 /\ n - 1 = m + 7
    BY <2>1, <2>2
  <2> HIDE DEF m
  <2> QED
    BY <2>2, <2>3 DEF m
<1>3. CASE r.kind = "none"
  <2>1. f = <<>> /\ f \in Seq(Item) /\ Len(f) = 0
    BY <1>3, NoFraming
  <2> HIDE DEF f
  <2>2. n = 8
    <3>1. n = Len(f) + 8
      BY <1>2, <2>1
    <3> QED
      BY <2>1, <3>1
  <2>3. \A j \in 1..8 : j \in {1, 2, 3, 4, 5, 6, 7, 8}
    OBVIOUS
  <2>4. \A j \in 1..n : h[j] # "length:" /\ h[j] # "chunked"
    BY <1>2, <2>1, <2>2, <2>3
  <2>5. h[n - 3] = "cr" /\ h[n - 2] = "lf"
    BY <1>2, <2>1, <2>2
  <2>6. \A j \in 1..n - 4 : h[j] # "cr"
    BY <1>2, <2>1, <2>2, <2>3
  <2> QED
    BY <1>2, <1>3, <2>1, <2>4, <2>5, <2>6
<1>4. CASE r.kind = "chunked"
  <2>1. f \in Seq(Item) /\ Len(f) = 3 /\ f[1] = "chunked" /\ f[2] = "cr" /\ f[3] = "lf"
    BY <1>4, ChunkedFraming
  <2> HIDE DEF f
  <2>2. n = 11 /\ h[6 + 1] = f[1] /\ h[6 + 2] = f[2] /\ h[6 + 3] = f[3]
    <3>1. n = Len(f) + 8 /\ \A k \in 1..Len(f) : h[6 + k] = f[k]
      BY <1>2, <2>1
    <3>2. 1 \in 1..Len(f) /\ 2 \in 1..Len(f) /\ 3 \in 1..Len(f)
      BY <2>1
    <3> QED
      BY <2>1, <3>1, <3>2
  <2>3. h[7] = "chunked" /\ h[8] = "cr" /\ h[9] = "lf"
    BY <2>1, <2>2
  <2>4. \A j \in 1..11 : j \in {1, 2, 3, 4, 5, 6, 7, 8, 9, 10, 11}
    OBVIOUS
  <2>5. h[10] = "cr" /\ h[11] = "lf"
    BY <1>2, <2>1, <2>2
  <2>6. \A j \in 1..n : h[j] # "length:"
    BY <1>2, <2>1, <2>2, <2>3, <2>4, <2>5
  <2>7. h[n - 3] = "cr" /\ h[n - 2] = "lf"
    BY <2>2, <2>3
  <2>8. \A j \in 1..n - 4 : j \in {1, 2, 3, 4, 5, 6, 7}
    BY <2>2
  <2>9. \A j \in 1..n - 4 : ~(h[j] = "cr" /\ h[j + 2] = "cr")
    BY <1>2, <2>1, <2>3, <2>8, SMTT(30)
  <2> QED
    BY <1>2, <1>4, <2>1, <2>2, <2>3, <2>6, <2>7, <2>9
<1>5. CASE r.kind = "length"
  <2> DEFINE d == Len(ds)
  <2>1. /\ f \in Seq(Item) /\ Len(f) = d + 3 /\ f[1] = "length:"
        /\ \A k \in 1..d : f[k + 1] = ds[k]
        /\ f[d + 2] = "cr" /\ f[d + 3] = "lf"
    BY <1>1, <1>5, LengthFraming
  <2>2. d \in Nat /\ \A k \in 1..d : ds[k] \in Digit
    BY <1>1, ElementOfSeq
  <2> HIDE DEF f, d
  <2>3. n = d + 11 /\ \A k \in 1..d + 3 : h[6 + k] = f[k]
    BY <1>2, <2>1, <2>2
  <2>4. h[7] = "length:" /\ h[d + 8] = "cr" /\ h[d + 9] = "lf"
    <3>1. h[6 + 1] = f[1] /\ h[6 + (d + 2)] = f[d + 2] /\ h[6 + (d + 3)] = f[d + 3]
      BY <2>2, <2>3
    <3>2. 6 + (d + 2) = d + 8 /\ 6 + (d + 3) = d + 9 /\ 6 + 1 = 7
      BY <2>2
    <3> QED
      BY <2>1, <3>1, <3>2
  <2>5. \A k \in 1..d : h[k + 7] = ds[k]
    <3> SUFFICES ASSUME NEW k \in 1..d PROVE h[k + 7] = ds[k]
      OBVIOUS
    <3>1. k + 1 \in 1..d + 3 /\ 6 + (k + 1) = k + 7
      BY <2>2
    <3> QED
      BY <2>1, <2>3, <3>1
  <2>6. \A j \in 8..d + 7 : h[j] \in Digit
    <3> SUFFICES ASSUME NEW j \in 8..d + 7 PROVE h[j] \in Digit
      OBVIOUS
    <3>1. j - 7 \in 1..d /\ (j - 7) + 7 = j
      BY <2>2
    <3> QED
      BY <2>2, <2>5, <3>1
  <2>7. h[d + 10] = "cr" /\ h[d + 11] = "lf"
    <3>1. n - 1 = d + 10
      BY <2>2, <2>3
    <3> QED
      BY <1>2, <2>1, <2>3, <3>1
  <2>8. \A j \in 1..n : j \in {1, 2, 3, 4, 5, 6, 7} \/ j \in 8..d + 7 \/ j \in {d + 8, d + 9, d + 10, d + 11}
    BY <2>2, <2>3
  <2>9. \A j \in 1..n : h[j] # "chunked"
    <3>1. "chunked" \notin Digit
      BY NumeralIs
    <3> QED
      BY <1>2, <2>1, <2>4, <2>6, <2>7, <2>8, <3>1
  <2>10. \A j \in 1..6 : h[j] # "length:"
    <3>1. \A j \in 1..6 : j \in {1, 2, 3, 4, 5, 6}
      OBVIOUS
    <3> QED
      BY <1>2, <2>1, <3>1
  <2>11. h[n - 3] = "cr" /\ h[n - 2] = "lf"
    <3>1. n - 3 = d + 8 /\ n - 2 = d + 9
      BY <2>2, <2>3
    <3> QED
      BY <2>4, <3>1
  <2>12. \A j \in 1..n - 4 : ~(h[j] = "cr" /\ h[j + 2] = "cr")
    <3> SUFFICES ASSUME NEW j \in 1..n - 4, h[j] = "cr" PROVE h[j + 2] # "cr"
      OBVIOUS
    <3>1. j \in {1, 2, 3, 4, 5, 6, 7} \/ j \in 8..d + 7
      BY <2>2, <2>3
    <3>2. "cr" \notin Digit
      BY NumeralIs
    <3>3. j = 5
      BY <1>2, <2>1, <2>4, <2>6, <3>1, <3>2
    <3> QED
      BY <2>4, <3>3
  <2> QED
    BY <1>2, <1>5, <2>1, <2>3, <2>4, <2>5, <2>9, <2>10, <2>11, <2>12 DEF d
<1> QED
  BY <1>3, <1>4, <1>5, RequestIs

\* A text that begins with the whole head of a request, and goes on with bytes
HeadThenBytes(b, r) ==
    LET h == HeadOf(r)
    IN /\ b \in Seq(Item) /\ Len(h) <= Len(b)
       /\ \A k \in 1..Len(h) : b[k] = h[k]
       /\ \A k \in Len(h) + 1..Len(b) : b[k] \in Byte

LEMMA PatternsAre ==
    /\ Blank \in Seq(Item) /\ Len(Blank) = 4
    /\ Blank[1] = "cr" /\ Blank[2] = "lf" /\ Blank[3] = "cr" /\ Blank[4] = "lf"
    /\ Crlf \in Seq(Item) /\ Len(Crlf) = 2 /\ Crlf[1] = "cr" /\ Crlf[2] = "lf"
    /\ <<"length:">> \in Seq(Item) /\ Len(<<"length:">>) = 1 /\ <<"length:">>[1] = "length:"
    /\ <<"chunked">> \in Seq(Item) /\ Len(<<"chunked">>) = 1 /\ <<"chunked">>[1] = "chunked"
<1>1. "cr" \in Item /\ "lf" \in Item /\ "length:" \in Item /\ "chunked" \in Item
  BY DEF Item, Byte, White
<1>2. Crlf \in Seq(Item) /\ Len(Crlf) = 2 /\ Crlf[1] = "cr" /\ Crlf[2] = "lf"
  BY <1>1 DEF Crlf
<1>3. /\ Blank \in Seq(Item) /\ Len(Blank) = Len(Crlf) + Len(Crlf)
      /\ \A k \in 1..Len(Crlf) : Blank[k] = Crlf[k]
      /\ \A k \in Len(Crlf) + 1..Len(Crlf) + Len(Crlf) : Blank[k] = Crlf[k - Len(Crlf)]
  <2>1. Crlf \in Seq(Item)
    BY <1>2
  <2> QED
    BY <2>1, JoinIs DEF Blank
<1>4. Len(Blank) = 4 /\ (\A k \in 1..2 : Blank[k] = Crlf[k]) /\ \A k \in 3..4 : Blank[k] = Crlf[k - 2]
  BY <1>2, <1>3
<1>5. Blank[1] = "cr" /\ Blank[2] = "lf" /\ Blank[3] = "cr" /\ Blank[4] = "lf"
  BY <1>2, <1>4
<1> QED
  BY <1>1, <1>2, <1>3, <1>4, <1>5

\* The blank line is found where the head ends
LEMMA BlankFound ==
    ASSUME NEW r \in Requests, NEW b, HeadThenBytes(b, r)
    PROVE  HeadEnds(b) /\ BodyAt(b) = Len(HeadOf(r)) + 1
<1> DEFINE h == HeadOf(r)
           n == Len(h)
<1>1. /\ n \in Nat /\ n >= 8
      /\ h[n - 3] = "cr" /\ h[n - 2] = "lf" /\ h[n - 1] = "cr" /\ h[n] = "lf"
      /\ \A j \in 1..n - 4 : ~(h[j] = "cr" /\ h[j + 2] = "cr")
  BY HeadItems, SMTT(30)
<1>2. b \in Seq(Item) /\ n <= Len(b) /\ \A k \in 1..n : b[k] = h[k]
  BY DEF HeadThenBytes
<1>3. Len(b) \in Nat
  BY <1>2, LenProperties
<1> HIDE DEF n, h
<1>4. Found(Blank, b, n - 3)
  <2> SUFFICES ASSUME NEW k \in 1..4 PROVE b[n - 3 + k - 1] = Blank[k]
    BY PatternsAre DEF Found
  <2>1. k \in {1, 2, 3, 4}
    OBVIOUS
  <2>2. n - 3 + 1 - 1 = n - 3 /\ n - 3 + 2 - 1 = n - 2 /\ n - 3 + 3 - 1 = n - 1 /\ n - 3 + 4 - 1 = n
    BY <1>1
  <2>3. n - 3 \in 1..n /\ n - 2 \in 1..n /\ n - 1 \in 1..n /\ n \in 1..n
    BY <1>1
  <2> QED
    BY <1>1, <1>2, <2>1, <2>2, <2>3, PatternsAre
<1>5. ASSUME NEW j \in 1..n - 3 - 1 PROVE ~Found(Blank, b, j)
  <2>1. j \in 1..n - 4 /\ j \in 1..n /\ j + 2 \in 1..n
    BY <1>1
  <2>2. Found(Blank, b, j) => b[j] = "cr" /\ b[j + 2] = "cr"
    <3> SUFFICES ASSUME Found(Blank, b, j) PROVE b[j] = "cr" /\ b[j + 2] = "cr"
      OBVIOUS
    <3>1. \A k \in 1..4 : b[j + k - 1] = Blank[k]
      BY PatternsAre DEF Found
    <3>2. b[j + 1 - 1] = Blank[1] /\ b[j + 3 - 1] = Blank[3]
      BY <3>1
    <3>3. j + 1 - 1 = j /\ j + 3 - 1 = j + 2
      OBVIOUS
    <3> QED
      BY <3>2, <3>3, PatternsAre
  <2> QED
    BY <1>1, <1>2, <2>1, <2>2
<1>6. Find(Blank, b, 1) = n - 3
  <2>1. Blank \in Seq(Item) /\ n - 3 \in 1..Len(b) - Len(Blank) + 1 /\ 1 \in Nat \ {0}
    BY <1>1, <1>2, <1>3, PatternsAre
  <2> QED
    BY <1>2, <1>4, <1>5, <2>1, FindFirst
<1> QED
  BY <1>1, <1>6 DEF HeadEnds, BodyAt, n, h

\* A word is found where it stands
LEMMA WordFound ==
    ASSUME NEW w, NEW b \in Seq(Item), <<w>> \in Seq(Item), NEW i \in 1..Len(b), b[i] = w,
           \A j \in 1..i - 1 : b[j] # w
    PROVE  Find(<<w>>, b, 1) = i
<1> DEFINE p == <<w>>
<1>1. Len(p) = 1 /\ p[1] = w /\ Len(b) \in Nat
  BY LenProperties
<1> HIDE DEF p
<1>2. ASSUME NEW j \in 1..Len(b) PROVE Found(p, b, j) <=> b[j] = w
  <2>1. \A k \in 1..1 : k = 1
    OBVIOUS
  <2>2. j + 1 - 1 = j
    BY <1>1
  <2> QED
    BY <1>1, <2>1, <2>2 DEF Found
<1>3. i \in 1..Len(b) - Len(p) + 1 /\ \A j \in 1..i - 1 : j \in 1..Len(b)
  BY <1>1
<1>4. Found(p, b, i) /\ \A j \in 1..i - 1 : ~Found(p, b, j)
  BY <1>2, <1>3
<1>5. p \in Seq(Item) /\ 1 \in Nat \ {0}
  BY DEF p
<1>6. Find(p, b, 1) = i
  BY <1>3, <1>4, <1>5, FindFirst
<1> QED
  BY <1>6 DEF p

LEMMA WordNotFound ==
    ASSUME NEW w, NEW b \in Seq(Item), <<w>> \in Seq(Item), \A j \in 1..Len(b) : b[j] # w
    PROVE  Find(<<w>>, b, 1) = 0
<1> DEFINE p == <<w>>
<1>1. Len(p) = 1 /\ p[1] = w /\ Len(b) \in Nat
  BY LenProperties
<1> HIDE DEF p
<1>2. ASSUME NEW j \in 1..Len(b) - Len(p) + 1 PROVE ~Found(p, b, j)
  <2>1. j \in 1..Len(b) /\ j + 1 - 1 = j /\ 1 \in 1..Len(p)
    BY <1>1
  <2> QED
    BY <1>1, <2>1 DEF Found
<1>3. p \in Seq(Item) /\ 1 \in Nat \ {0}
  BY DEF p
<1>4. Find(p, b, 1) = 0
  BY <1>2, <1>3, FindNone
<1> QED
  BY <1>4 DEF p

\* What find() returns is a place where the pattern stands
LEMMA FindFinds ==
    ASSUME NEW X, NEW p \in Seq(X), NEW t \in Seq(X), NEW from \in Nat \ {0}, Find(p, t, from) # 0
    PROVE  Find(p, t, from) \in from..Len(t) - Len(p) + 1 /\ Found(p, t, Find(p, t, from))
<1> DEFINE places == {i \in from..Len(t) - Len(p) + 1 : SubSeq(t, i, i + Len(p) - 1) = p}
           m == Min(places)
<1>1. Len(p) \in Nat /\ Len(t) \in Nat
  BY LenProperties
<1>2. places # {} /\ Find(p, t, from) = m
  BY DEF Find
<1>3. places \subseteq Nat
  BY <1>1
<1>4. m \in places
  <2> HIDE DEF places
  <2> QED
    BY <1>2, <1>3, MinIn
<1> HIDE DEF m
<1>5. m \in from..Len(t) - Len(p) + 1 /\ SubSeq(t, m, m + Len(p) - 1) = p
  BY <1>4
<1>6. m \in 1..Len(t) - Len(p) + 1
  BY <1>1, <1>5
<1>7. Found(p, t, m)
  BY <1>5, <1>6, FoundIs
<1> QED
  BY <1>2, <1>5, <1>7

\* What the head says of the body is read from it.  Names in the body are found too,
\* behind those in the head.
HeadSays(b, r) ==
    LET n == Len(HeadOf(r))
    IN /\ r.kind = "chunked" => Chunked(b)
       /\ r.kind = "length" => /\ HasLength(b) /\ Declares(b)
                               /\ Number(Value(b), 10) = Len(Data(r)) /\ Decimals(Value(b)) # <<>>
       /\ r.kind # "length" => ~Declares(b)
       /\ r.kind # "chunked" /\ (\A k \in n + 1..Len(b) : b[k] # "chunked") => ~Chunked(b)
       /\ r.kind # "length" /\ (\A k \in n + 1..Len(b) : b[k] # "length:") => ~HasLength(b)

LEMMA HeadRead ==
    ASSUME NEW r \in Requests, NEW b, HeadThenBytes(b, r)
    PROVE  HeadSays(b, r)
<1> DEFINE h == HeadOf(r)
           n == Len(h)
<1>0. /\ n \in Nat /\ n >= 8
      /\ h[n - 3] = "cr" /\ h[n - 2] = "lf" /\ h[n - 1] = "cr" /\ h[n] = "lf"
      /\ \A j \in 1..n - 4 : ~(h[j] = "cr" /\ h[j + 2] = "cr")
  BY HeadItems, SMTT(30)
<1> DEFINE ds == Decimal(Len(Data(r)))
           m == Len(b)
<1>1. /\ n \in Nat /\ n >= 8
      /\ r.kind = "length" => /\ \A j \in 1..6 : h[j] # "length:"
                              /\ h[7] = "length:" /\ n = Len(ds) + 11
                              /\ \A k \in 1..Len(ds) : h[k + 7] = ds[k]
                              /\ h[Len(ds) + 8] = "cr"
      /\ r.kind = "chunked" => n >= 11 /\ h[7] = "chunked"
      /\ r.kind # "length" => \A j \in 1..n : h[j] # "length:"
      /\ r.kind # "chunked" => \A j \in 1..n : h[j] # "chunked"
  BY HeadItems, SMTT(30)
<1>2. b \in Seq(Item) /\ n <= m /\ \A k \in 1..n : b[k] = h[k]
  BY DEF HeadThenBytes
<1>3. m \in Nat
  BY <1>2, LenProperties
<1>4. ds \in Seq(Digit) /\ ds # <<>> /\ NumberOf(10, ds) = Len(Data(r)) /\ Len(ds) \in Nat
  BY RequestIs, DecimalReads, LenProperties
<1>5. \A j \in 1..m : j \in 1..n \/ j \in n + 1..m
  BY <1>1, <1>3
<1>6. HeadEnds(b) /\ BodyAt(b) = n + 1
  BY BlankFound
<1> HIDE DEF h, n, ds
<1>7. ASSUME r.kind # "chunked", \A k \in n + 1..m : b[k] # "chunked" PROVE ~Chunked(b)
  <2>1. \A j \in 1..m : b[j] # "chunked"
    BY <1>1, <1>2, <1>5, <1>7
  <2>2. Find(<<"chunked">>, b, 1) = 0
    BY <1>2, <2>1, PatternsAre, WordNotFound
  <2> QED
    BY <2>2 DEF Chunked
<1>8. ASSUME r.kind # "length", \A k \in n + 1..m : b[k] # "length:" PROVE ~HasLength(b)
  <2>1. \A j \in 1..m : b[j] # "length:"
    BY <1>1, <1>2, <1>5, <1>8
  <2>2. Find(<<"length:">>, b, 1) = 0
    BY <1>2, <2>1, PatternsAre, WordNotFound
  <2> QED
    BY <2>2 DEF HasLength
<1>9. ASSUME r.kind = "length"
      PROVE  /\ HasLength(b) /\ Declares(b)
             /\ Number(Value(b), 10) = Len(Data(r)) /\ Decimals(Value(b)) # <<>>
  <2>1. Find(<<"length:">>, b, 1) = 7
    <3>1. 7 \in 1..m /\ 7 \in 1..n /\ (\A j \in 1..7 - 1 : j \in 1..6 /\ j \in 1..n)
      BY <1>1, <1>2, <1>3
    <3>2. b[7] = "length:" /\ \A j \in 1..7 - 1 : b[j] # "length:"
      BY <1>1, <1>2, <1>9, <3>1
    <3> QED
      BY <1>2, <3>1, <3>2, PatternsAre, WordFound
  <2>2. HasLength(b) /\ LengthAt(b) = 8
    BY <2>1 DEF HasLength, LengthAt
  <2>3. Declares(b)
    BY <1>1, <1>6, <2>2 DEF Declares
  <2> DEFINE d == Len(ds)
             e == d + 8
  <2>4. n = d + 11 /\ d \in Nat /\ d >= 1
    <3>1. d # 0
      BY <1>4, EmptySeq
    <3> QED
      BY <1>1, <1>4, <1>9, <3>1
  <2>5. (\A k \in 1..d : b[k + 7] = ds[k]) /\ b[d + 8] = "cr" /\ b[d + 9] = "lf"
    <3>1. \A k \in 1..d : h[k + 7] = ds[k] /\ k + 7 \in 1..n
      BY <1>1, <1>9, <2>4
    <3>2. h[d + 8] = "cr" /\ h[n - 2] = "lf" /\ n - 2 = d + 9
      BY <1>0, <1>1, <1>9, <2>4
    <3>3. d + 8 \in 1..n /\ d + 9 \in 1..n
      BY <2>4
    <3> HIDE DEF d
    <3> QED
      BY <1>2, <3>1, <3>2, <3>3
  <2>6. Find(Crlf, b, 8) = e
    <3>1. Crlf \in Seq(Item) /\ Len(Crlf) = 2 /\ Crlf[1] = "cr" /\ Crlf[2] = "lf"
      BY PatternsAre
    <3> HIDE DEF d
    <3>2. Found(Crlf, b, e)
      <4>1. \A k \in 1..2 : (k = 1 /\ e + k - 1 = d + 8) \/ (k = 2 /\ e + k - 1 = d + 9)
        BY <2>4
      <4> QED
        BY <2>5, <3>1, <4>1 DEF Found
    <3>3. e \in 8..m - 2 + 1
      BY <1>2, <1>3, <2>4
    <3>4. ASSUME NEW j \in 8..e - 1 PROVE ~Found(Crlf, b, j)
      <4>1. j - 7 \in 1..d /\ (j - 7) + 7 = j /\ j + 1 - 1 = j
        BY <2>4
      <4>2. ds[j - 7] \in Digit
        <5> DEFINE i == j - 7
        <5>1. i \in 1..Len(ds)
          BY <4>1 DEF d
        <5> HIDE DEF i
        <5>2. ds[i] \in Digit
          BY <1>4, <5>1, ElementOfSeq
        <5> QED
          BY <5>2 DEF i
      <4>3. b[j] # "cr"
        BY <2>5, <4>1, <4>2, ItemsAre
      <4>4. 1 \in 1..Len(Crlf)
        BY <3>1
      <4> QED
        BY <3>1, <4>1, <4>3, <4>4 DEF Found
    <3> HIDE DEF e
    <3>5. e \in 8..Len(b) - Len(Crlf) + 1
      BY <3>1, <3>3
    <3>6. Crlf \in Seq(Item) /\ b \in Seq(Item) /\ 8 \in Nat \ {0}
      BY <1>2, <3>1
    <3> QED
      BY <3>2, <3>4, <3>5, <3>6, FindFirst
  <2>7. Value(b) = SubSeq(b, 8, d + 7)
    <3>1. e # 0 /\ e - 1 = d + 7
      BY <2>4
    <3> QED
      BY <2>2, <2>6, <3>1 DEF Value
  <2>8. SubSeq(b, 8, d + 7) = ds
    <3> DEFINE s == SubSeq(b, 8, d + 7)
    <3>1. \A k \in 8..d + 7 : b[k] \in Item
      <4>1. \A k \in 8..d + 7 : k \in 1..m
        BY <1>2, <1>3, <2>4
      <4> QED
        BY <1>2, <4>1, ElementOfSeq
    <3>2. /\ s \in Seq(Item) /\ Len(s) = IF 8 <= d + 7 THEN d + 7 - 8 + 1 ELSE 0
          /\ \A k \in 1..d + 7 - 8 + 1 : s[k] = b[8 + k - 1]
      <4>1. 8 \in Int /\ d + 7 \in Int
        BY <2>4
      <4> QED
        BY <3>1, <4>1, SubSeqProperties
    <3> HIDE DEF s
    <3>3. 8 <= d + 7 /\ d + 7 - 8 + 1 = d /\ \A k \in 1..d : 8 + k - 1 = k + 7
      BY <2>4
    <3>4. Len(s) = d /\ \A k \in 1..d : s[k] = ds[k]
      BY <2>5, <3>2, <3>3
    <3>5. ds \in Seq(Item)
      <4>1. Digit \subseteq Item
        BY ItemsAre
      <4> QED
        BY <1>4, <4>1, SeqMonotonic
    <3>6. s = ds
      BY <3>2, <3>4, <3>5, SeqEqual
    <3> QED
      BY <3>6 DEF s
  <2>9. Decimals(ds) = ds /\ Number(ds, 10) = NumberOf(10, ds)
    BY <1>4, NumberReads
  <2> QED
    BY <1>4, <2>2, <2>3, <2>7, <2>8, <2>9
<1>10. ASSUME r.kind = "chunked" PROVE Chunked(b)
  <2> DEFINE p == <<"chunked">>
  <2>1. p \in Seq(Item) /\ Len(p) = 1 /\ p[1] = "chunked"
    BY PatternsAre
  <2> HIDE DEF p
  <2>2. 7 \in 1..Len(b) - Len(p) + 1 /\ 7 \in 1..n
    BY <1>1, <1>2, <1>3, <1>10, <2>1
  <2>3. b[7] = "chunked"
    BY <1>1, <1>2, <1>10, <2>2
  <2>4. Found(p, b, 7)
    <3>1. \A k \in 1..1 : k = 1 /\ 7 + k - 1 = 7
      OBVIOUS
    <3> QED
      BY <2>1, <2>3, <3>1 DEF Found
  <2>5. p \in Seq(Item) /\ b \in Seq(Item) /\ 1 \in Nat \ {0} /\ 7 \in 1..Len(b) - Len(p) + 1
    BY <1>2, <2>1, <2>2
  <2>6. Find(p, b, 1) # 0
    BY <2>4, <2>5, FindSome
  <2> QED
    BY <2>6 DEF Chunked, p
<1>11. ASSUME r.kind # "length" PROVE ~Declares(b)
  <2> SUFFICES ASSUME HasLength(b) PROVE ~(LengthAt(b) < BodyAt(b))
    BY <1>6 DEF Declares
  <2> DEFINE p == <<"length:">>
             i == Find(p, b, 1)
  <2>1. p \in Seq(Item) /\ Len(p) = 1 /\ p[1] = "length:" /\ 1 \in Nat \ {0}
    BY PatternsAre
  <2>2. i # 0
    BY DEF HasLength
  <2>3. i \in 1..Len(b) - Len(p) + 1 /\ Found(p, b, i)
    <3> HIDE DEF p
    <3> QED
      BY <1>2, <2>1, <2>2, FindFinds
  <2> HIDE DEF p
  <2>4. LengthAt(b) = i + 1
    BY DEF LengthAt, p
  <2> HIDE DEF i
  <2>5. i \in 1..m /\ b[i] = "length:"
    <3>1. 1 \in 1..Len(p) /\ i + 1 - 1 = i /\ i \in 1..m
      BY <1>3, <2>1, <2>3
    <3> QED
      BY <2>1, <2>3, <3>1 DEF Found
  <2>6. i \notin 1..n
    BY <1>1, <1>2, <1>11, <2>5
  <2> QED
    BY <1>1, <1>3, <1>6, <2>4, <2>5, <2>6
<1> QED
  BY <1>7, <1>8, <1>9, <1>10, <1>11 DEF HeadSays, n, h

-----------------------------------------------------------------------------
(* The body on the wire                                                    *)

\* What has been put together stays when more is added
LEMMA FlattenGrows ==
    ASSUME NEW X, NEW n \in Nat, NEW seqs \in [1..n -> Seq(X)], NEW flat \in [0..n -> Seq(X)],
           \A i \in 0..n - 1 : flat[i + 1] = flat[i] \o seqs[i + 1],
           NEW j \in 0..n
    PROVE  /\ Len(flat[j]) \in Nat /\ Len(flat[n]) \in Nat /\ Len(flat[j]) <= Len(flat[n])
           /\ \A i \in 1..Len(flat[j]) : flat[n][i] = flat[j][i]
<1> DEFINE S == {l \in Nat : l + j <= n =>
                     /\ Len(flat[j]) <= Len(flat[l + j])
                     /\ \A i \in 1..Len(flat[j]) : flat[l + j][i] = flat[j][i]}
<1>1. \A l \in 0..n : Len(flat[l]) \in Nat
  BY LenProperties
<1>2. 0 \in S
  <2>1. 0 + j = j /\ Len(flat[j]) \in Nat
    BY <1>1
  <2> QED
    BY <2>1
<1>3. ASSUME NEW l \in Nat, l \in S PROVE l + 1 \in S
  <2> SUFFICES ASSUME l + 1 + j <= n
               PROVE  /\ Len(flat[j]) <= Len(flat[l + 1 + j])
                      /\ \A i \in 1..Len(flat[j]) : flat[l + 1 + j][i] = flat[j][i]
    OBVIOUS
  <2> DEFINE a == l + j
             s == flat[a]
             t == seqs[a + 1]
  <2>1. a \in 0..n - 1 /\ a \in 0..n /\ a + 1 \in 1..n /\ a + 1 = l + 1 + j
    OBVIOUS
  <2>2. s \in Seq(X) /\ t \in Seq(X)
    BY <2>1
  <2>3. flat[l + 1 + j] = s \o t
    BY <2>1
  <2>4. Len(flat[j]) <= Len(s) /\ \A i \in 1..Len(flat[j]) : s[i] = flat[j][i]
    BY <1>3, <2>1
  <2> HIDE DEF s, t, a
  <2>5. /\ s \o t \in Seq(X) /\ Len(s \o t) = Len(s) + Len(t)
        /\ \A k \in 1..Len(s) : (s \o t)[k] = s[k]
    BY <2>2, JoinIs
  <2>6. Len(s) \in Nat /\ Len(t) \in Nat /\ Len(flat[j]) \in Nat
    BY <1>1, <2>2, LenProperties
  <2> QED
    BY <2>3, <2>4, <2>5, <2>6
<1> HIDE DEF S
<1>4. n - j \in S
  <2>1. \A l \in Nat : l \in S
    BY <1>2, <1>3, AllNumbers
  <2>2. n - j \in Nat
    OBVIOUS
  <2> QED
    BY <2>1, <2>2
<1>5. n - j + j = n /\ n \in 0..n /\ n <= n
  OBVIOUS
<1> QED
  BY <1>1, <1>4, <1>5 DEF S

\* A chunk is a line with the number of its bytes, and a line with them
LEMMA ChunkIs ==
    ASSUME NEW c \in Seq(Byte), NEW s \in 1..9, s = Len(c)
    PROVE  /\ ChunkOf(c) \in Seq(Byte) /\ Len(ChunkOf(c)) = s + 5
           /\ ChunkOf(c)[1] = Numeral[s + 1] /\ ChunkOf(c)[2] = "cr" /\ ChunkOf(c)[3] = "lf"
           /\ \A k \in 1..s : ChunkOf(c)[k + 3] = c[k]
           /\ ChunkOf(c)[s + 4] = "cr" /\ ChunkOf(c)[s + 5] = "lf"
<1> DEFINE d == <<Numeral[s + 1]>>
           a == Line(d)
           b == Line(c)
<1>1. d \in Seq(Byte) /\ Len(d) = 1 /\ d[1] = Numeral[s + 1] /\ Decimal(s) = d
  <2>1. s \in Nat /\ s < 10 /\ s \in 0..9
    <3>1. \A n \in 1..9 : n \in Nat /\ n < 10 /\ n \in 0..9
      OBVIOUS
    <3> QED
      BY <3>1, Zenon
  <2>2. Decimal(s) = d
    BY <2>1, DecimalReads
  <2>3. Numeral[s + 1] \in Byte
    BY <2>1, NumeralIs, ItemsAre
  <2> QED
    BY <2>2, <2>3
<1>2. "cr" \in Byte /\ "lf" \in Byte
  BY ItemsAre
<1>3. ChunkOf(c) = a \o b
  BY <1>1 DEF ChunkOf
<1> HIDE DEF d
<1>4. a \in Seq(Byte) /\ Len(a) = 3 /\ a[1] = Numeral[s + 1] /\ a[2] = "cr" /\ a[3] = "lf"
  <2>0. d \in Seq(Byte)
    BY <1>1
  <2>1. /\ Line(d) \in Seq(Byte) /\ Len(Line(d)) = Len(d) + 2
        /\ \A k \in 1..Len(d) : Line(d)[k] = d[k]
        /\ Line(d)[Len(d) + 1] = "cr" /\ Line(d)[Len(d) + 2] = "lf"
    BY <1>2, <2>0, LineIs
  <2> QED
    BY <1>1, <2>1
<1>5. /\ b \in Seq(Byte) /\ Len(b) = s + 2
      /\ \A k \in 1..s : b[k] = c[k]
      /\ b[s + 1] = "cr" /\ b[s + 2] = "lf"
  BY <1>2, LineIs
<1> HIDE DEF a, b
<1>6. /\ a \o b \in Seq(Byte) /\ Len(a \o b) = Len(a) + Len(b)
      /\ \A k \in 1..Len(a) : (a \o b)[k] = a[k]
      /\ \A k \in Len(a) + 1..Len(a) + Len(b) : (a \o b)[k] = b[k - Len(a)]
  <2>1. a \in Seq(Byte) /\ b \in Seq(Byte)
    BY <1>4, <1>5
  <2> QED
    BY <2>1, JoinIs
<1>7. /\ Len(a \o b) = s + 5
      /\ \A k \in 1..3 : (a \o b)[k] = a[k]
      /\ \A k \in 4..s + 5 : (a \o b)[k] = b[k - 3]
  BY <1>4, <1>5, <1>6
<1>8. \A k \in 1..s : (a \o b)[k + 3] = c[k]
  <2> SUFFICES ASSUME NEW k \in 1..s PROVE (a \o b)[k + 3] = c[k]
    OBVIOUS
  <2>1. k + 3 \in 4..s + 5 /\ k + 3 - 3 = k
    OBVIOUS
  <2> QED
    BY <1>5, <1>7, <2>1
<1>9. (a \o b)[s + 4] = "cr" /\ (a \o b)[s + 5] = "lf"
  <2>1. s + 4 \in 4..s + 5 /\ s + 5 \in 4..s + 5 /\ s + 4 - 3 = s + 1 /\ s + 5 - 3 = s + 2
    OBVIOUS
  <2> QED
    BY <1>5, <1>7, <2>1
<1> QED
  BY <1>3, <1>4, <1>6, <1>7, <1>8, <1>9

\* Where the chunks of a body are on the wire, and the data up to each
ChunksAt(r, at, upto) ==
    LET cs == r.chunks
        n == Len(cs)
        B == BodyOf(r)
    IN /\ at \in [0..n -> Nat] /\ upto \in [0..n -> Seq(Byte)]
       /\ at[0] = 0 /\ upto[0] = <<>> /\ upto[n] = Data(r)
       /\ \A j \in 0..n - 1 :
              LET s == Len(cs[j + 1])
              IN /\ s \in 1..9 /\ cs[j + 1] \in Seq(Byte)
                 /\ upto[j + 1] = upto[j] \o cs[j + 1]
                 /\ at[j + 1] = at[j] + s + 5 /\ at[j + 1] <= at[n]
                 /\ B[at[j] + 1] = Numeral[s + 1] /\ B[at[j] + 2] = "cr" /\ B[at[j] + 3] = "lf"
                 /\ \A k \in 1..s : B[at[j] + 3 + k] = cs[j + 1][k]
                 /\ B[at[j] + s + 4] = "cr" /\ B[at[j] + s + 5] = "lf"
       /\ B \in Seq(Byte) /\ Len(B) = at[n] + 5
       /\ B[at[n] + 1] = "0" /\ B[at[n] + 2] = "cr" /\ B[at[n] + 3] = "lf"
       /\ B[at[n] + 4] = "cr" /\ B[at[n] + 5] = "lf"

LEMMA ChunksLaid ==
    ASSUME NEW r \in Requests, r.kind = "chunked"
    PROVE  \E at, upto : ChunksAt(r, at, upto)
<1> DEFINE cs == r.chunks
           n == Len(cs)
           B == BodyOf(r)
           Y == Seq(Byte)
<1>1. /\ n \in Nat /\ DOMAIN cs = 1..n /\ cs \in [1..n -> Y]
      /\ \A j \in 1..n : cs[j] \in Y /\ Len(cs[j]) \in 1..9
  <2>1. cs \in Seq(Y) /\ \A j \in DOMAIN cs : Len(cs[j]) \in 1..9
    BY RequestIs
  <2> HIDE DEF Y
  <2>2. n \in Nat /\ DOMAIN cs = 1..n /\ cs \in [1..n -> Y]
    BY <2>1, LenProperties
  <2> HIDE DEF cs, n
  <2> QED
    BY <2>1, <2>2
<1> DEFINE enc == [j \in DOMAIN cs |-> ChunkOf(cs[j])]
<1>2. enc \in [1..n -> Y] /\ enc \in Seq(Y) /\ Len(enc) = n /\ \A j \in 1..n : enc[j] = ChunkOf(cs[j])
  <2>1. \A j \in 1..n : ChunkOf(cs[j]) \in Y
    BY <1>1, ChunkIs
  <2>2. enc \in [1..n -> Y] /\ \A j \in 1..n : enc[j] = ChunkOf(cs[j])
    <3> HIDE DEF Y, cs, n
    <3> QED
      BY <1>1, <2>1
  <2> HIDE DEF Y, enc, cs, n
  <2>3. enc \in Seq(Y) /\ Len(enc) = n
    BY <1>1, <2>2
  <2> QED
    BY <2>2, <2>3
<1>3. PICK upto \in [0..n -> Y] :
          /\ upto[0] = <<>>
          /\ \A j \in 0..n - 1 : upto[j + 1] = upto[j] \o cs[j + 1]
          /\ FlattenSeq(cs) = upto[n]
  <2>1. cs \in Seq(Seq(Byte))
    BY RequestIs
  <2> QED
    BY <2>1, FlattenSteps
<1>4. PICK flat \in [0..n -> Y] :
          /\ flat[0] = <<>>
          /\ \A j \in 0..n - 1 : flat[j + 1] = flat[j] \o enc[j + 1]
          /\ FlattenSeq(enc) = flat[n]
  <2> HIDE DEF enc
  <2>1. enc \in Seq(Seq(Byte)) /\ Len(enc) = n
    BY <1>2
  <2> HIDE DEF n, cs
  <2> QED
    BY <2>1, FlattenSteps
<1> DEFINE z == Line(<<"0">>)
           e == Line(<<>>)
           at == [j \in 0..n |-> Len(flat[j])]
<1>5. z \in Y /\ Len(z) = 3 /\ z[1] = "0" /\ z[2] = "cr" /\ z[3] = "lf"
  <2> DEFINE d == <<"0">>
  <2>1. d \in Seq(Byte) /\ Len(d) = 1 /\ d[1] = "0" /\ "cr" \in Byte /\ "lf" \in Byte
    BY NumeralIs, ItemsAre
  <2> HIDE DEF d
  <2>2. d \in Seq(Byte) /\ "cr" \in Byte /\ "lf" \in Byte
    BY <2>1
  <2>3. /\ Line(d) \in Seq(Byte) /\ Len(Line(d)) = Len(d) + 2
        /\ \A k \in 1..Len(d) : Line(d)[k] = d[k]
        /\ Line(d)[Len(d) + 1] = "cr" /\ Line(d)[Len(d) + 2] = "lf"
    BY <2>2, LineIs
  <2>4. Line(d) \in Seq(Byte) /\ Len(Line(d)) = 3 /\ Line(d)[1] = "0" /\ Line(d)[2] = "cr" /\ Line(d)[3] = "lf"
    BY <2>1, <2>3
  <2> QED
    BY <2>4 DEF d
<1>6. e \in Y /\ Len(e) = 2 /\ e[1] = "cr" /\ e[2] = "lf"
  <2>1. <<>> \in Seq(Byte) /\ Len(<<>>) = 0 /\ "cr" \in Byte /\ "lf" \in Byte
    BY ItemsAre
  <2>2. /\ Line(<<>>) \in Seq(Byte) /\ Len(Line(<<>>)) = Len(<<>>) + 2
        /\ Line(<<>>)[Len(<<>>) + 1] = "cr" /\ Line(<<>>)[Len(<<>>) + 2] = "lf"
    BY <2>1, LineIs
  <2> QED
    BY <2>1, <2>2
<1>7. B = (flat[n] \o z) \o e
  BY <1>4 DEF BodyOf
<1>8. \A j \in 0..n : /\ flat[j] \in Seq(Byte) /\ Len(flat[j]) \in Nat /\ Len(flat[j]) <= Len(flat[n])
                      /\ \A k \in 1..Len(flat[j]) : flat[n][k] = flat[j][k]
  <2> SUFFICES ASSUME NEW j \in 0..n
               PROVE  /\ flat[j] \in Seq(Byte) /\ Len(flat[j]) \in Nat /\ Len(flat[j]) <= Len(flat[n])
                      /\ \A k \in 1..Len(flat[j]) : flat[n][k] = flat[j][k]
    OBVIOUS
  <2>1. flat \in [0..n -> Seq(Byte)] /\ enc \in [1..n -> Seq(Byte)]
    BY <1>2
  <2>2. \A i \in 0..n - 1 : flat[i + 1] = flat[i] \o enc[i + 1]
    BY <1>4
  <2> HIDE DEF n, enc
  <2>3. n \in Nat
    BY <1>1 DEF n
  <2>4. /\ Len(flat[j]) \in Nat /\ Len(flat[n]) \in Nat /\ Len(flat[j]) <= Len(flat[n])
        /\ \A k \in 1..Len(flat[j]) : flat[n][k] = flat[j][k]
    BY <2>1, <2>2, <2>3, FlattenGrows, ZenonT(60)
  <2>5. flat[j] \in Seq(Byte)
    BY <2>1, Zenon
  <2> QED
    BY <2>4, <2>5
<1> HIDE DEF B, enc, z, e
<1>9. flat[n] \in Seq(Byte) /\ Len(flat[n]) \in Nat /\ n \in 0..n
  <2>0. n \in Nat
    BY <1>1
  <2> HIDE DEF n
  <2>1. n \in 0..n
    BY <2>0
  <2> QED
    BY <1>8, <2>1
<1> HIDE DEF n
<1> DEFINE m == Len(flat[n])
<1>10. /\ B \in Seq(Byte) /\ Len(B) = m + 5
       /\ \A k \in 1..m : B[k] = flat[n][k]
       /\ B[m + 1] = "0" /\ B[m + 2] = "cr" /\ B[m + 3] = "lf"
       /\ B[m + 4] = "cr" /\ B[m + 5] = "lf"
  <2> DEFINE a == flat[n]
             b == a \o z
  <2>1. a \in Seq(Byte) /\ z \in Seq(Byte) /\ e \in Seq(Byte)
    BY <1>5, <1>6, <1>9
  <2> HIDE DEF a
  <2>2. /\ b \in Seq(Byte) /\ Len(b) = Len(a) + Len(z)
        /\ \A k \in 1..Len(a) : b[k] = a[k]
        /\ \A k \in Len(a) + 1..Len(a) + Len(z) : b[k] = z[k - Len(a)]
    BY <2>1, JoinIs
  <2> HIDE DEF b
  <2>3. b \in Seq(Byte)
    BY <2>2
  <2>4. /\ b \o e \in Seq(Byte) /\ Len(b \o e) = Len(b) + Len(e)
        /\ \A k \in 1..Len(b) : (b \o e)[k] = b[k]
        /\ \A k \in Len(b) + 1..Len(b) + Len(e) : (b \o e)[k] = e[k - Len(b)]
    BY <2>1, <2>3, JoinIs
  <2>5. Len(a) \in Nat
    BY <1>9 DEF a
  <2>6. /\ Len(b) = Len(a) + 3
        /\ \A k \in 1..3 : b[Len(a) + k] = z[k]
    <3>1. Len(z) = 3 /\ Len(b) = Len(a) + 3
      BY <1>5, <2>2
    <3> SUFFICES ASSUME NEW k \in 1..3 PROVE b[Len(a) + k] = z[k]
      BY <3>1
    <3>2. Len(a) + k \in Len(a) + 1..Len(a) + Len(z) /\ Len(a) + k - Len(a) = k
      BY <2>5, <3>1
    <3> QED
      BY <2>2, <3>2
  <2>7. /\ Len(b \o e) = Len(a) + 5
        /\ \A k \in 1..Len(a) + 3 : (b \o e)[k] = b[k]
        /\ (b \o e)[Len(a) + 4] = e[1] /\ (b \o e)[Len(a) + 5] = e[2]
    BY <1>6, <2>4, <2>5, <2>6
  <2>8. b[Len(a) + 1] = "0" /\ b[Len(a) + 2] = "cr" /\ b[Len(a) + 3] = "lf"
    BY <1>5, <2>6
  <2>9. B = b \o e
    BY <1>7 DEF a, b
  <2>10. \A k \in 1..3 : Len(a) + k \in 1..Len(a) + 3
    BY <2>5
  <2>11. (b \o e)[Len(a) + 1] = "0" /\ (b \o e)[Len(a) + 2] = "cr" /\ (b \o e)[Len(a) + 3] = "lf"
    <3>1. 1 \in 1..3 /\ 2 \in 1..3 /\ 3 \in 1..3
      OBVIOUS
    <3> QED
      BY <2>7, <2>8, <2>10, <3>1
  <2>12. \A k \in 1..Len(a) : (b \o e)[k] = a[k]
    <3> SUFFICES ASSUME NEW k \in 1..Len(a) PROVE (b \o e)[k] = a[k]
      OBVIOUS
    <3>1. k \in 1..Len(a) + 3
      BY <2>5
    <3> QED
      BY <2>2, <2>7, <3>1
  <2>13. /\ B \in Seq(Byte) /\ Len(B) = Len(a) + 5
         /\ \A k \in 1..Len(a) : B[k] = a[k]
         /\ B[Len(a) + 1] = "0" /\ B[Len(a) + 2] = "cr" /\ B[Len(a) + 3] = "lf"
         /\ B[Len(a) + 4] = "cr" /\ B[Len(a) + 5] = "lf"
    BY <1>6, <2>4, <2>7, <2>9, <2>11, <2>12
  <2> QED
    BY <2>13 DEF a
<1>11. ASSUME NEW j \in 0..n - 1
       PROVE  LET s == Len(cs[j + 1])
              IN /\ s \in 1..9 /\ cs[j + 1] \in Seq(Byte)
                 /\ upto[j + 1] = upto[j] \o cs[j + 1]
                 /\ at[j + 1] = at[j] + s + 5 /\ at[j + 1] <= at[n]
                 /\ B[at[j] + 1] = Numeral[s + 1] /\ B[at[j] + 2] = "cr" /\ B[at[j] + 3] = "lf"
                 /\ \A k \in 1..s : B[at[j] + 3 + k] = cs[j + 1][k]
                 /\ B[at[j] + s + 4] = "cr" /\ B[at[j] + s + 5] = "lf"
  <2> DEFINE c == cs[j + 1]
             s == Len(c)
             x == ChunkOf(c)
             a == flat[j]
  <2>1. j \in 0..n /\ j + 1 \in 0..n /\ j + 1 \in 1..n
    BY <1>1 DEF n
  <2>2. c \in Seq(Byte) /\ s \in 1..9
    BY <1>1, <2>1 DEF n
  <2>3. /\ x \in Seq(Byte) /\ Len(x) = s + 5
        /\ x[1] = Numeral[s + 1] /\ x[2] = "cr" /\ x[3] = "lf"
        /\ \A k \in 1..s : x[k + 3] = c[k]
        /\ x[s + 4] = "cr" /\ x[s + 5] = "lf"
    BY <2>2, ChunkIs
  <2>4. flat[j + 1] = a \o x
    BY <1>2, <1>4, <2>1
  <2>5. a \in Seq(Byte) /\ Len(a) \in Nat
    BY <1>8, <2>1
  <2>6. upto[j + 1] = upto[j] \o c
    BY <1>3 DEF n
  <2>7. /\ at[j] = Len(a) /\ at[j + 1] = Len(a \o x) /\ at[n] = m
        /\ Len(a \o x) <= m /\ \A k \in 1..Len(a \o x) : flat[n][k] = (a \o x)[k]
    BY <1>8, <1>9, <2>1, <2>4
  <2> HIDE DEF x, a, m, at, s
  <2>8. /\ a \o x \in Seq(Byte) /\ Len(a \o x) = Len(a) + Len(x)
        /\ \A k \in Len(a) + 1..Len(a) + Len(x) : (a \o x)[k] = x[k - Len(a)]
    <3>1. x \in Seq(Byte)
      BY <2>3
    <3> QED
      BY <2>5, <3>1, JoinIs
  <2>9. s \in Nat /\ s >= 1 /\ m \in Nat
    BY <1>9, <2>2 DEF m
  <2>10. \A k \in 1..s + 5 : B[Len(a) + k] = x[k]
    <3> SUFFICES ASSUME NEW k \in 1..s + 5 PROVE B[Len(a) + k] = x[k]
      OBVIOUS
    <3>1. Len(a) + k \in Len(a) + 1..Len(a) + Len(x) /\ Len(a) + k - Len(a) = k
      BY <2>3, <2>5, <2>9
    <3>2. Len(a) + k \in 1..Len(a \o x) /\ Len(a) + k \in 1..m
      BY <2>3, <2>5, <2>7, <2>8, <2>9
    <3>3. B[Len(a) + k] = flat[n][Len(a) + k]
      <4>1. \A i \in 1..m : B[i] = flat[n][i]
        BY <1>10 DEF m
      <4> QED
        BY <3>2, <4>1, Zenon
    <3>4. flat[n][Len(a) + k] = (a \o x)[Len(a) + k]
      <4> DEFINE q == Len(a) + k
      <4>1. q \in 1..Len(a \o x)
        BY <3>2
      <4>2. \A i \in 1..Len(a \o x) : flat[n][i] = (a \o x)[i]
        BY <2>7
      <4> HIDE DEF q
      <4>3. flat[n][q] = (a \o x)[q]
        BY <4>1, <4>2
      <4> QED
        BY <4>3 DEF q
    <3>5. (a \o x)[Len(a) + k] = x[k]
      <4> DEFINE q == Len(a) + k
      <4>1. q \in Len(a) + 1..Len(a) + Len(x) /\ q - Len(a) = k
        BY <3>1
      <4>2. \A i \in Len(a) + 1..Len(a) + Len(x) : (a \o x)[i] = x[i - Len(a)]
        BY <2>8
      <4> HIDE DEF q
      <4>3. (a \o x)[q] = x[q - Len(a)]
        BY <4>1, <4>2
      <4> QED
        BY <4>1, <4>3 DEF q
    <3> QED
      BY <3>3, <3>4, <3>5
  <2>11. at[j + 1] = Len(a) + s + 5 /\ at[j + 1] <= at[n]
    BY <2>3, <2>5, <2>7, <2>8, <2>9
  <2>12. B[Len(a) + 1] = Numeral[s + 1] /\ B[Len(a) + 2] = "cr" /\ B[Len(a) + 3] = "lf"
    <3>1. 1 \in 1..s + 5 /\ 2 \in 1..s + 5 /\ 3 \in 1..s + 5
      BY <2>9
    <3> QED
      BY <2>3, <2>10, <3>1
  <2>13. \A k \in 1..s : B[Len(a) + 3 + k] = c[k]
    <3> SUFFICES ASSUME NEW k \in 1..s PROVE B[Len(a) + 3 + k] = c[k]
      OBVIOUS
    <3>1. k + 3 \in 1..s + 5 /\ Len(a) + (k + 3) = Len(a) + 3 + k
      BY <2>5, <2>9
    <3>2. B[Len(a) + (k + 3)] = x[k + 3]
      BY <2>10, <3>1
    <3> QED
      BY <2>3, <3>1, <3>2
  <2>14. B[Len(a) + s + 4] = "cr" /\ B[Len(a) + s + 5] = "lf"
    <3>1. s + 4 \in 1..s + 5 /\ s + 5 \in 1..s + 5
          /\ Len(a) + (s + 4) = Len(a) + s + 4 /\ Len(a) + (s + 5) = Len(a) + s + 5
      BY <2>5, <2>9
    <3>2. B[Len(a) + (s + 4)] = x[s + 4] /\ B[Len(a) + (s + 5)] = x[s + 5]
      BY <2>10, <3>1
    <3> QED
      BY <2>3, <3>1, <3>2
  <2> QED
    BY <2>2, <2>6, <2>7, <2>11, <2>12, <2>13, <2>14 DEF s
<1>12. at \in [0..n -> Nat] /\ at[0] = 0 /\ at[n] = m
  <2>1. Len(flat[0]) = 0 /\ 0 \in 0..n
    BY <1>1, <1>4 DEF n
  <2> QED
    BY <1>8, <1>9, <2>1
<1>13. upto \in [0..n -> Seq(Byte)] /\ upto[0] = <<>> /\ upto[n] = Data(r)
  BY <1>3 DEF n, Data
<1> HIDE DEF at, m, cs
<1>14. ChunksAt(r, at, upto)
  BY <1>10, <1>11, <1>12, <1>13 DEF ChunksAt, B, n, cs
<1> QED
  BY <1>14

-----------------------------------------------------------------------------
(* What has come of a request                                              *)

LEMMA BodyIs ==
    ASSUME NEW r \in Requests
    PROVE  /\ BodyOf(r) \in Seq(Byte) /\ Len(BodyOf(r)) \in Nat
           /\ r.kind # "chunked" => BodyOf(r) = Data(r)
           /\ r.kind = "none" => Data(r) = <<>>
<1>3. ASSUME r.kind = "none" PROVE Data(r) = <<>>
  <2>1. r.chunks = <<>> /\ r.chunks \in Seq(Seq(Byte)) /\ Len(r.chunks) = 0
    BY <1>3, RequestIs
  <2>2. PICK flat : flat[0] = <<>> /\ FlattenSeq(r.chunks) = flat[Len(r.chunks)]
    <3>1. r.chunks \in Seq(Seq(Byte))
      BY <2>1
    <3> QED
      BY <3>1, FlattenSteps, Zenon
  <2> QED
    BY <2>1, <2>2 DEF Data
<1>1. CASE r.kind # "chunked"
  <2>1. BodyOf(r) = Data(r)
    BY <1>1 DEF BodyOf
  <2>2. Data(r) \in Seq(Byte) /\ Len(Data(r)) \in Nat
    BY RequestIs
  <2> QED
    BY <1>1, <1>3, <2>1, <2>2
<1>2. CASE r.kind = "chunked"
  <2>1. PICK at, upto : ChunksAt(r, at, upto)
    BY <1>2, ChunksLaid
  <2>2. BodyOf(r) \in Seq(Byte)
    BY <2>1 DEF ChunksAt
  <2> QED
    BY <1>2, <2>2, LenProperties
<1> QED
  BY <1>1, <1>2

LEMMA WireIs ==
    ASSUME NEW r \in Requests, NEW h, h = HeadOf(r), NEW n, n = Len(h), NEW B, B = BodyOf(r)
    PROVE  /\ n \in Nat /\ n >= 8 /\ h \in Seq(Item)
           /\ Wire(r) \in Seq(Item) /\ Len(B) \in Nat /\ Len(Wire(r)) = n + Len(B)
           /\ \A k \in 1..n : Wire(r)[k] = h[k]
           /\ \A k \in 1..Len(B) : Wire(r)[n + k] = B[k]
           /\ \A k \in 1..Len(B) : B[k] \in Byte
<1>1. h \in Seq(Item) /\ n \in Nat /\ n >= 8
  BY HeadItems
<1>2. B \in Seq(Byte) /\ Len(B) \in Nat
  BY BodyIs
<1>3. B \in Seq(Item) /\ \A k \in 1..Len(B) : B[k] \in Byte
  <2>1. \A k \in 1..Len(B) : B[k] \in Byte
    BY <1>2, ElementOfSeq
  <2>2. \A k \in 1..Len(B) : B[k] \in Item
    BY <2>1, ItemsAre
  <2>3. B \in [1..Len(B) -> Byte]
    BY <1>2, LenProperties
  <2>4. B \in [1..Len(B) -> Item]
    BY <2>2, <2>3
  <2> QED
    BY <1>2, <2>1, <2>4
<1>4. Wire(r) = h \o B
  BY DEF Wire
<1>5. /\ h \o B \in Seq(Item) /\ Len(h \o B) = Len(h) + Len(B)
      /\ \A k \in 1..Len(h) : (h \o B)[k] = h[k]
      /\ \A k \in Len(h) + 1..Len(h) + Len(B) : (h \o B)[k] = B[k - Len(h)]
  <2>1. h \in Seq(Item) /\ B \in Seq(Item)
    BY <1>1, <1>3
  <2> QED
    BY <2>1, JoinIs
<1>6. ASSUME NEW k \in 1..Len(B) PROVE (h \o B)[n + k] = B[k]
  <2>1. n + k \in n + 1..n + Len(B) /\ n + k - n = k
    BY <1>1, <1>2
  <2> QED
    BY <1>5, <2>1
<1> QED
  BY <1>1, <1>2, <1>3, <1>4, <1>5, <1>6

\* The first m items of a request are its head, of h items, and of its body what
\* is then left
BeginsWith(b, m, h, r) ==
    /\ HeadThenBytes(b, r) /\ Len(b) = m /\ h \in Nat /\ m \in Nat
    /\ Len(Wire(r)) = h + Len(BodyOf(r)) /\ m - h <= Len(BodyOf(r))
    /\ BodyAt(b) = h + 1
    /\ Len(b) - BodyAt(b) + 1 = m - h /\ BodyLen(b) = m - h
    /\ Rest(b, BodyAt(b)) = SubSeq(BodyOf(r), 1, m - h)

LEMMA PrefixIs ==
    ASSUME NEW r \in Requests, NEW h, h = Len(HeadOf(r)),
           NEW m \in h..Len(Wire(r)), NEW b, b = SubSeq(Wire(r), 1, m)
    PROVE  BeginsWith(b, m, h, r)
<1> DEFINE w == Wire(r)
           B == BodyOf(r)
<1>1. /\ h \in Nat /\ h >= 8 /\ HeadOf(r) \in Seq(Item)
      /\ w \in Seq(Item) /\ Len(B) \in Nat /\ Len(w) = h + Len(B)
      /\ \A k \in 1..h : w[k] = HeadOf(r)[k]
      /\ \A k \in 1..Len(B) : w[h + k] = B[k]
      /\ \A k \in 1..Len(B) : B[k] \in Byte
  <2> DEFINE x == HeadOf(r)
             n == Len(x)
  <2>1. /\ n \in Nat /\ n >= 8 /\ x \in Seq(Item)
        /\ w \in Seq(Item) /\ Len(B) \in Nat /\ Len(w) = n + Len(B)
        /\ \A k \in 1..n : w[k] = x[k]
        /\ \A k \in 1..Len(B) : w[n + k] = B[k]
        /\ \A k \in 1..Len(B) : B[k] \in Byte
    BY WireIs
  <2> QED
    BY <2>1
<1>2. B \in Seq(Byte)
  BY BodyIs
<1> HIDE DEF w, B
<1>3. m \in Nat /\ m <= Len(w) /\ h <= m /\ Len(w) \in Nat
  BY <1>1 DEF w
<1>4. b \in Seq(Item) /\ Len(b) = m /\ \A k \in 1..m : b[k] = w[k]
  <2>1. \A k \in 1..m : w[k] \in Item
    BY <1>1, <1>3, ElementOfSeq
  <2>2. m \in Int /\ 1 \in Int
    BY <1>3
  <2>3. /\ SubSeq(w, 1, m) \in Seq(Item)
        /\ Len(SubSeq(w, 1, m)) = IF 1 <= m THEN m - 1 + 1 ELSE 0
        /\ \A k \in 1..m - 1 + 1 : SubSeq(w, 1, m)[k] = w[1 + k - 1]
    BY <2>1, <2>2, SubSeqProperties
  <2>4. b = SubSeq(w, 1, m)
    BY DEF w
  <2>5. m - 1 + 1 = m /\ 1 <= m /\ \A k \in 1..m : 1 + k - 1 = k
    BY <1>1, <1>3
  <2> QED
    BY <2>3, <2>4, <2>5
<1>5. \A k \in 1..m - h : h + k \in 1..m /\ k \in 1..Len(B) /\ b[h + k] = B[k]
  <2> SUFFICES ASSUME NEW k \in 1..m - h PROVE h + k \in 1..m /\ k \in 1..Len(B) /\ b[h + k] = B[k]
    OBVIOUS
  <2>1. h + k \in 1..m /\ k \in 1..Len(B)
    BY <1>1, <1>3
  <2> QED
    BY <1>1, <1>4, <2>1
<1>6. HeadThenBytes(b, r)
  <2>1. \A k \in 1..h : b[k] = HeadOf(r)[k]
    BY <1>1, <1>3, <1>4
  <2>2. ASSUME NEW k \in h + 1..m PROVE b[k] \in Byte
    <3>1. k - h \in 1..m - h /\ h + (k - h) = k
      BY <1>1, <1>3
    <3>2. \A i \in 1..m - h : b[h + i] \in Byte
      BY <1>1, <1>5, Zenon
    <3>3. b[h + (k - h)] \in Byte
      BY <3>1, <3>2, Zenon
    <3> QED
      BY <3>1, <3>3
  <2>3. h <= Len(b) /\ Len(b) = m
    BY <1>3, <1>4
  <2> QED
    BY <1>4, <2>1, <2>2, <2>3 DEF HeadThenBytes
<1>7. HeadEnds(b) /\ BodyAt(b) = h + 1
  BY <1>6, BlankFound
<1>8. Len(b) - BodyAt(b) + 1 = m - h
  BY <1>1, <1>3, <1>4, <1>7
<1>9. Rest(b, BodyAt(b)) = SubSeq(B, 1, m - h)
  <2>1. SubSeq(b, h + 1, m) = SubSeq(B, 1, m - h)
    <3>0. B \in Seq(Item)
      <4>1. \A k \in 1..Len(B) : B[k] \in Item
        BY <1>1, ItemsAre
      <4>2. B \in [1..Len(B) -> Byte]
        BY <1>2, LenProperties
      <4> QED
        BY <1>1, <4>1, <4>2
    <3>1. m = h + (m - h) /\ m - h \in Int /\ 1 \in Int /\ h + 1 = h + 1
      BY <1>1, <1>3
    <3>2. \A k \in 1..m - h : k \in 1..Len(B) /\ h + k \in 1..Len(b) /\ b[h + k] = B[k]
      BY <1>4, <1>5
    <3> QED
      BY <1>1, <1>4, <3>0, <3>1, <3>2, SubSeqSame
  <2> QED
    BY <1>4, <1>7, <2>1 DEF Rest
<1> QED
  BY <1>1, <1>3, <1>4, <1>6, <1>7, <1>8, <1>9 DEF w, B, BodyLen, BeginsWith

\* A segment goes on where the last one ended
LEMMA ReadIs ==
    ASSUME request \in Requests, taken \in 0..Len(Wire(request)),
           buffer = SubSeq(Wire(request), 1, taken),
           NEW n \in Nat, taken + n <= Len(Wire(request))
    PROVE  Read(n) = SubSeq(Wire(request), 1, taken + n)
<1> DEFINE w == Wire(request)
<1>1. w \in Seq(Item)
  BY WireIs
<1>2. Len(w) \in Nat
  BY <1>1, LenProperties
<1> HIDE DEF w
<1>3. 1 \in 1..Len(w) + 1 /\ taken \in 1 - 1..Len(w) /\ taken + n \in taken..Len(w)
  BY <1>2 DEF w
<1>4. SubSeq(w, 1, taken) \o SubSeq(w, taken + 1, taken + n) = SubSeq(w, 1, taken + n)
  BY <1>1, <1>3, ConcatAdjacentSubSeq
<1> QED
  BY <1>4 DEF Read, w

\* A text that begins with the head is a request of a known version, malformed only
\* if its length is no int
LEMMA WellFormed ==
    ASSUME NEW r \in Requests, NEW b, HeadThenBytes(b, r)
    PROVE  /\ ~Foreign(b) /\ ~Unsupported(b)
           /\ Malformed(b) <=> r.kind = "length" /\ Len(Data(r)) > IntMax
<1>1. b \in Seq(Item) /\ Len(b) >= 8 /\ b[1] = "verb" /\ b[2] = "uri" /\ b[3] = "http" /\ b[4] = "/1.0"
  <2>1. /\ Len(HeadOf(r)) \in Nat /\ Len(HeadOf(r)) >= 8
        /\ HeadOf(r)[1] = "verb" /\ HeadOf(r)[2] = "uri" /\ HeadOf(r)[3] = "http" /\ HeadOf(r)[4] = "/1.0"
    BY HeadItems
  <2>2. b \in Seq(Item) /\ Len(HeadOf(r)) <= Len(b) /\ \A k \in 1..Len(HeadOf(r)) : b[k] = HeadOf(r)[k]
    BY DEF HeadThenBytes
  <2>3. Len(b) \in Nat
    BY <2>2, LenProperties
  <2>4. 1 \in 1..Len(HeadOf(r)) /\ 2 \in 1..Len(HeadOf(r)) /\ 3 \in 1..Len(HeadOf(r)) /\ 4 \in 1..Len(HeadOf(r))
    BY <2>1
  <2> QED
    BY <2>1, <2>2, <2>3, <2>4
<1>2. IsPrefix(<<"verb", "uri", "http">>, b)
  <2> DEFINE p == <<"verb", "uri", "http">>
  <2>1. p \in Seq(Item) /\ Len(p) = 3 /\ p[1] = "verb" /\ p[2] = "uri" /\ p[3] = "http"
    BY DEF Item, Word
  <2> HIDE DEF p
  <2>2. SubSeq(p, 1, 3) = SubSeq(b, 1, 3)
    <3>1. \A k \in 1..3 : k \in 1..Len(b) /\ 0 + k \in 1..Len(p) /\ p[0 + k] = b[k]
      <4>1. \A k \in 1..3 : k \in {1, 2, 3} /\ 0 + k = k
        OBVIOUS
      <4>2. 1 \in 1..Len(b) /\ 2 \in 1..Len(b) /\ 3 \in 1..Len(b) /\ Len(b) \in Nat
        BY <1>1, LenProperties
      <4> QED
        BY <1>1, <2>1, <4>1, <4>2
    <3>2. 0 \in Nat /\ 1 \in Int /\ 3 \in Int /\ 1 = 0 + 1 /\ 3 = 0 + 3
      OBVIOUS
    <3> QED
      BY <1>1, <2>1, <3>1, <3>2, SubSeqSame
  <2>3. Len(p) <= Len(b)
    BY <1>1, <2>1, LenProperties
  <2>4. IsPrefix(p, b)
    BY <2>1, <2>2, <2>3 DEF IsPrefix
  <2> QED
    BY <2>4 DEF p
<1>3. IsPrefix(<<"verb", "uri", "http", "/1.0">>, b)
  <2> DEFINE p == <<"verb", "uri", "http", "/1.0">>
  <2>1. p \in Seq(Item) /\ Len(p) = 4 /\ p[1] = "verb" /\ p[2] = "uri" /\ p[3] = "http" /\ p[4] = "/1.0"
    BY DEF Item, Word
  <2> HIDE DEF p
  <2>2. SubSeq(p, 1, 4) = SubSeq(b, 1, 4)
    <3>1. \A k \in 1..4 : k \in 1..Len(b) /\ 0 + k \in 1..Len(p) /\ p[0 + k] = b[k]
      <4>1. \A k \in 1..4 : k \in {1, 2, 3, 4} /\ 0 + k = k
        OBVIOUS
      <4>2. 1 \in 1..Len(b) /\ 2 \in 1..Len(b) /\ 3 \in 1..Len(b) /\ 4 \in 1..Len(b) /\ Len(b) \in Nat
        BY <1>1, LenProperties
      <4> QED
        BY <1>1, <2>1, <4>1, <4>2
    <3>2. 0 \in Nat /\ 1 \in Int /\ 4 \in Int /\ 1 = 0 + 1 /\ 4 = 0 + 4
      OBVIOUS
    <3> QED
      BY <1>1, <2>1, <3>1, <3>2, SubSeqSame
  <2>3. Len(p) <= Len(b)
    BY <1>1, <2>1, LenProperties
  <2>4. IsPrefix(p, b)
    BY <2>1, <2>2, <2>3 DEF IsPrefix
  <2> QED
    BY <2>4 DEF p
<1>4. IsPrefix(<<"verb">>, b)
  <2> DEFINE p == <<"verb">>
  <2>1. p \in Seq(Item) /\ Len(p) = 1 /\ p[1] = "verb"
    BY DEF Item, Word
  <2> HIDE DEF p
  <2>2. SubSeq(p, 1, 1) = SubSeq(b, 1, 1)
    <3>1. \A k \in 1..1 : k \in 1..Len(b) /\ 0 + k \in 1..Len(p) /\ p[0 + k] = b[k]
      <4>1. \A k \in 1..1 : k = 1 /\ 0 + k = k
        OBVIOUS
      <4>2. 1 \in 1..Len(b) /\ Len(b) \in Nat
        BY <1>1, LenProperties
      <4> QED
        BY <1>1, <2>1, <4>1, <4>2
    <3>2. 0 \in Nat /\ 1 \in Int /\ 1 = 0 + 1
      OBVIOUS
    <3> QED
      BY <1>1, <2>1, <3>1, <3>2, SubSeqSame
  <2>3. Len(p) <= Len(b)
    BY <1>1, <2>1, LenProperties
  <2>4. IsPrefix(p, b)
    BY <2>1, <2>2, <2>3 DEF IsPrefix
  <2> QED
    BY <2>4 DEF p
<1>5. HeadSays(b, r)
  BY HeadRead
<1>6. CASE r.kind = "length"
  <2>1. Declares(b) /\ Number(Value(b), 10) = Len(Data(r)) /\ Decimals(Value(b)) # <<>>
    BY <1>5, <1>6 DEF HeadSays
  <2> QED
    BY <1>2, <1>3, <1>4, <1>6, <2>1 DEF Malformed, Unsupported, Foreign
<1>7. CASE r.kind # "length"
  <2>1. ~Declares(b)
    BY <1>5, <1>7 DEF HeadSays
  <2> QED
    BY <1>2, <1>3, <1>4, <1>7, <2>1 DEF Malformed, Unsupported, Foreign
<1> QED
  BY <1>6, <1>7

-----------------------------------------------------------------------------
(* Decoding the chunks                                                     *)

\* What find() returns is a place from which the text goes on with the pattern
LEMMA FindIs ==
    ASSUME NEW X, NEW p \in Seq(X), NEW t \in Seq(X), NEW from \in Nat \ {0}
    PROVE  Find(p, t, from) \in Nat /\ (Find(p, t, from) # 0 => Find(p, t, from) \in from..Len(t) - Len(p) + 1)
<1> DEFINE places == {i \in from..Len(t) - Len(p) + 1 : SubSeq(t, i, i + Len(p) - 1) = p}
<1>1. places \subseteq Nat /\ \A i \in places : i \in from..Len(t) - Len(p) + 1
  <2>1. Len(p) \in Nat /\ Len(t) \in Nat
    BY LenProperties
  <2> QED
    BY <2>1
<1>2. Find(p, t, from) = IF places = {} THEN 0 ELSE Min(places)
  BY DEF Find
<1> HIDE DEF places
<1>3. CASE places = {}
  BY <1>2, <1>3
<1>4. CASE places # {}
  <2>1. Min(places) \in places
    BY <1>1, <1>4, MinIn
  <2>2. Find(p, t, from) = Min(places)
    BY <1>2, <1>4
  <2> QED
    BY <1>1, <2>1, <2>2
<1> QED
  BY <1>3, <1>4

LEMMA ValueIs == ASSUME NEW d \in Digit PROVE DigitValue(d) \in 0..9
<1>1. PICK n \in 0..9 : d = Numeral[n + 1]
  <2>1. PICK k \in 1..10 : d = Numeral[k]
    BY NumeralIs DEF Digit, ToSet
  <2>2. k - 1 \in 0..9 /\ k - 1 + 1 = k
    OBVIOUS
  <2> QED
    BY <2>1, <2>2
<1> QED
  BY <1>1, ValueOf

LEMMA NumberOfType == ASSUME NEW base \in Nat PROVE \A ds \in Seq(Digit) : NumberOf(base, ds) \in Nat
<1> DEFINE S == {ds \in Seq(Digit) : NumberOf(base, ds) \in Nat}
<1>1. <<>> \in S
  BY NumberOfNothing
<1>2. ASSUME NEW ds \in Seq(Digit), NEW d \in Digit, ds \in S PROVE Append(ds, d) \in S
  <2>1. NumberOf(base, Append(ds, d)) = base * NumberOf(base, ds) + DigitValue(d)
    BY NumberOfAppend DEF Digitwise
  <2>2. NumberOf(base, ds) \in Nat
    BY <1>2
  <2>3. DigitValue(d) \in Nat
    BY ValueIs
  <2>4. \A i, j, k \in Nat : i * j + k \in Nat
    OBVIOUS
  <2>5. NumberOf(base, Append(ds, d)) \in Nat
    BY <2>1, <2>2, <2>3, <2>4
  <2>6. Append(ds, d) \in Seq(Digit)
    BY AppendProperties
  <2> QED
    BY <2>5, <2>6
<1> HIDE DEF S
<1>3. \A ds \in Seq(Digit) : ds \in S
  BY <1>1, <1>2, AllSequences
<1> QED
  BY <1>3 DEF S

\* What atoi and strtoul return is a number
LEMMA NumberType ==
    ASSUME NEW X, NEW text \in Seq(X), NEW base \in Nat
    PROVE  Number(text, base) \in Nat
<1>1. Decimals(text) \in Seq(Digit)
  BY DecimalsType
<1>2. NumberOf(base, Decimals(text)) \in Nat
  BY <1>1, NumberOfType
<1> QED
  BY <1>2 DEF Number, NumberOf, Digitwise, DigitValue

\* What dechunkBody() makes of a text from a place on, given what it makes of the
\* places after it
DecodedAt(t, from, p) ==
    LET eol == Find(Crlf, t, p)
        size == Number(SubSeq(t, p, eol - 1), 16)
        next == eol + 2 + size
    IN IF p > Len(t) \/ eol = 0 THEN {}
       ELSE IF size = 0 THEN {d \in {<<>>} : eol + 3 <= Len(t)}
       ELSE IF next + 1 > Len(t) \/ Find(Crlf, t, next) # next THEN {}
       ELSE {SubSeq(t, eol + 2, next - 1) \o rest : rest \in from[next + 2]}

Decoding(t) == CHOOSE from : from = [p \in Nat \ {0} |-> DecodedAt(t, from, p)]

\* A size is a number, and its line ends before the end of the text
LEMMA SizeType ==
    ASSUME NEW t \in Seq(Byte), NEW p \in Nat \ {0}, NEW eol, eol = Find(Crlf, t, p)
    PROVE  /\ eol \in Nat /\ Len(t) \in Nat
           /\ eol # 0 => eol >= p /\ eol <= Len(t) - 1
           /\ eol # 0 => Number(SubSeq(t, p, eol - 1), 16) \in Nat
<1>1. Crlf \in Seq(Byte) /\ Len(Crlf) = 2
  BY ItemsAre DEF Crlf
<1>2. eol \in Nat /\ (eol # 0 => eol >= p /\ eol <= Len(t) - 1) /\ Len(t) \in Nat
  <2>1. Crlf \in Seq(Byte)
    BY <1>1
  <2>2. eol \in Nat /\ (eol # 0 => eol \in p..Len(t) - Len(Crlf) + 1)
    BY <2>1, FindIs
  <2>3. Len(t) \in Nat
    BY LenProperties
  <2> QED
    BY <1>1, <2>2, <2>3
<1>3. ASSUME eol # 0 PROVE Number(SubSeq(t, p, eol - 1), 16) \in Nat
  <2> DEFINE x == SubSeq(t, p, eol - 1)
  <2>1. x \in Seq(Byte)
    <3>1. \A k \in p..eol - 1 : k \in 1..Len(t)
      BY <1>2, <1>3
    <3>2. \A k \in p..eol - 1 : t[k] \in Byte
      BY <3>1, ElementOfSeq
    <3>3. p \in Int /\ eol - 1 \in Int
      BY <1>2
    <3> QED
      BY <3>2, <3>3, SubSeqProperties
  <2>2. 16 \in Nat
    OBVIOUS
  <2> HIDE DEF x
  <2>3. Number(x, 16) \in Nat
    BY <2>1, <2>2, NumberType
  <2> QED
    BY <2>3 DEF x
<1> QED
  BY <1>2, <1>3

LEMMA DecodedLater ==
    ASSUME NEW t \in Seq(Byte), NEW p \in Nat \ {0}, NEW f, NEW g,
           \A q \in Nat : q > p => f[q] = g[q]
    PROVE  DecodedAt(t, f, p) = DecodedAt(t, g, p)
<1> DEFINE eol == Find(Crlf, t, p)
           size == Number(SubSeq(t, p, eol - 1), 16)
           next == eol + 2 + size
<1>1. eol \in Nat /\ (eol # 0 => eol >= p) /\ (eol # 0 => size \in Nat)
  BY SizeType
<1>3. CASE p > Len(t) \/ eol = 0
  BY <1>3 DEF DecodedAt
<1>4. CASE ~(p > Len(t) \/ eol = 0)
  <2> HIDE DEF size, eol
  <2>2. next + 2 \in Nat /\ next + 2 > p
    BY <1>1, <1>4
  <2>3. f[next + 2] = g[next + 2]
    BY <2>2
  <2> QED
    BY <2>3 DEF DecodedAt, size, eol
<1> QED
  BY <1>3, <1>4

\* The recursion of dechunkBody() comes to an end: its function exists
LEMMA DecodingIs ==
    ASSUME NEW t \in Seq(Byte), NEW p \in Nat \ {0}
    PROVE  Decoding(t)[p] = DecodedAt(t, Decoding(t), p)
<1> DEFINE n == Len(t)
           D(k) == {q \in Nat \ {0} : q + k > n}
           S == {k \in Nat : \E f : f = [q \in D(k) |-> DecodedAt(t, f, q)]}
<1>1. n \in Nat
  BY LenProperties
<1> HIDE DEF n
<1>2. 0 \in S
  <2> DEFINE f == [q \in D(0) |-> {}]
  <2>1. ASSUME NEW q \in D(0) PROVE DecodedAt(t, f, q) = {}
    <3>1. q > Len(t)
      BY <1>1 DEF n
    <3> QED
      BY <3>1 DEF DecodedAt
  <2>2. f = [q \in D(0) |-> DecodedAt(t, f, q)]
    BY <2>1
  <2> HIDE DEF f
  <2> QED
    BY <2>2
<1>3. ASSUME NEW k \in Nat, k \in S PROVE k + 1 \in S
  <2>1. PICK f : f = [q \in D(k) |-> DecodedAt(t, f, q)]
    BY <1>3
  <2> DEFINE g == [q \in D(k + 1) |-> DecodedAt(t, f, q)]
  <2>2. \A q \in D(k) : q \in D(k + 1) /\ f[q] = g[q]
    <3>1. \A q \in D(k) : q \in D(k + 1) 
      BY <1>1
    <3> HIDE DEF D
    <3> QED
      BY <2>1, <3>1
  <2>3. ASSUME NEW q \in D(k + 1) PROVE DecodedAt(t, f, q) = DecodedAt(t, g, q)
    <3>1. \A i \in Nat : i > q => i \in D(k)
      BY <1>1
    <3>2. \A i \in Nat : i > q => f[i] = g[i]
      BY <2>2, <3>1
    <3>3. q \in Nat \ {0}
      OBVIOUS
    <3> HIDE DEF g, D
    <3> QED
      BY <3>2, <3>3, DecodedLater
  <2>4. g = [q \in D(k + 1) |-> DecodedAt(t, g, q)]
    BY <2>3
  <2> HIDE DEF g
  <2>5. k + 1 \in Nat
    OBVIOUS
  <2> HIDE DEF D
  <2> QED
    BY <2>4, <2>5
<1>4. n \in S
  <2> HIDE DEF S
  <2>1. \A k \in Nat : k \in S
    BY <1>2, <1>3, AllNumbers
  <2> QED
    BY <1>1, <2>1
<1>5. D(n) = Nat \ {0}
  BY <1>1
<1>6. \E f : f = [q \in Nat \ {0} |-> DecodedAt(t, f, q)]
  <2> HIDE DEF D
  <2> QED
    BY <1>4, <1>5
<1>7. Decoding(t) = [q \in Nat \ {0} |-> DecodedAt(t, Decoding(t), q)]
  BY <1>6 DEF Decoding
<1> HIDE DEF D
<1> QED
  BY <1>7

LEMMA DechunkedIs == ASSUME NEW t PROVE Dechunked(t) = Decoding(t)[1]
  BY DEF Dechunked, Decoding, DecodedAt

\* What is decoded from bytes are bytes
LEMMA DechunkedType == ASSUME NEW t \in Seq(Byte) PROVE \A d \in Dechunked(t) : d \in Seq(Byte)
<1> DEFINE n == Len(t)
           from == Decoding(t)
           S == {k \in Nat : \A p \in Nat \ {0} : p + k > n => \A e \in from[p] : e \in Seq(Byte)}
<1>1. n \in Nat
  BY LenProperties
<1>2. \A p \in Nat \ {0} : from[p] = DecodedAt(t, from, p)
  BY DecodingIs
<1> HIDE DEF from
<1>3. 0 \in S
  <2> SUFFICES ASSUME NEW p \in Nat \ {0}, p + 0 > n PROVE from[p] = {}
    OBVIOUS
  <2>1. p > Len(t)
    BY <1>1
  <2> QED
    BY <1>2, <2>1 DEF DecodedAt
<1>4. ASSUME NEW k \in Nat, k \in S PROVE k + 1 \in S
  <2> SUFFICES ASSUME NEW p \in Nat \ {0}, p + (k + 1) > n, NEW e \in from[p] PROVE e \in Seq(Byte)
    OBVIOUS
  <2>0. \A q \in Nat \ {0} : q + k > n => \A x \in from[q] : x \in Seq(Byte)
    BY <1>4
  <2> HIDE DEF S
  <2> DEFINE eol == Find(Crlf, t, p)
             size == Number(SubSeq(t, p, eol - 1), 16)
             next == eol + 2 + size
             s == SubSeq(t, eol + 2, next - 1)
  <2>1. eol \in Nat /\ (eol # 0 => eol >= p) /\ (eol # 0 => size \in Nat)
    BY SizeType
  <2>2. e \in DecodedAt(t, from, p)
    BY <1>2
  <2>3. ~(p > Len(t) \/ eol = 0)
    BY <2>2 DEF DecodedAt
  <2>4. CASE size = 0
    <3>1. e \in {d \in {<<>>} : eol + 3 <= Len(t)}
      BY <2>2, <2>3, <2>4 DEF DecodedAt
    <3> QED
      BY <3>1, EmptySeq
  <2>5. CASE size # 0
    <3>1. ~(next + 1 > Len(t) \/ Find(Crlf, t, next) # next)
      BY <2>2, <2>3, <2>5 DEF DecodedAt
    <3>2. e \in {s \o rest : rest \in from[next + 2]}
      BY <2>2, <2>3, <2>5, <3>1 DEF DecodedAt
    <3> HIDE DEF size, eol
    <3>3. next + 2 \in Nat \ {0} /\ (next + 2) + k > n
      BY <1>1, <2>1, <2>3
    <3>4. s \in Seq(Byte)
      <4>1. \A i \in eol + 2..next - 1 : i \in 1..n
        BY <1>1, <2>1, <2>3, <3>1
      <4>2. \A i \in eol + 2..next - 1 : t[i] \in Byte
        BY <4>1, ElementOfSeq
      <4>3. eol + 2 \in Int /\ next - 1 \in Int
        BY <2>1, <2>3
      <4> HIDE DEF next
      <4> QED
        BY <4>2, <4>3, SubSeqProperties
    <3> HIDE DEF s, next
    <3>5. PICK rest \in from[next + 2] : e = s \o rest
      BY <3>2
    <3>6. rest \in Seq(Byte)
      BY <2>0, <3>3
    <3> QED
      BY <3>4, <3>5, <3>6, ConcatProperties
  <2> QED
    BY <2>4, <2>5
<1>5. n + 1 \in S
  <2> HIDE DEF S
  <2>1. \A k \in Nat : k \in S
    BY <1>3, <1>4, AllNumbers
  <2> QED
    BY <1>1, <2>1
<1>6. \A e \in from[1] : e \in Seq(Byte)
  BY <1>1, <1>5
<1> QED
  BY <1>6, DechunkedIs DEF from

\* The size line of a chunk is found and read, if all of it has come
LEMMA SizeRead ==
    ASSUME NEW t \in Seq(Byte), NEW p \in Nat \ {0}, NEW s \in 0..9,
           p <= Len(t) => t[p] = Numeral[s + 1],
           p + 1 <= Len(t) => t[p + 1] = "cr",
           p + 2 <= Len(t) => t[p + 2] = "lf"
    PROVE  /\ p + 2 <= Len(t) => /\ Find(Crlf, t, p) = p + 1
                                 /\ Number(SubSeq(t, p, p), 16) = s
           /\ ~(p + 2 <= Len(t)) => Find(Crlf, t, p) = 0
<1>1. Crlf \in Seq(Byte) /\ Len(Crlf) = 2 /\ Crlf[1] = "cr" /\ Crlf[2] = "lf"
  BY ItemsAre DEF Crlf
<1>2. Len(t) \in Nat
  BY LenProperties
<1>3. p <= Len(t) => ~Found(Crlf, t, p)
  <2>1. Numeral[s + 1] # "cr"
    BY NumeralIs, ItemsAre
  <2>2. 1 \in 1..Len(Crlf) /\ p + 1 - 1 = p
    BY <1>1
  <2> QED
    BY <1>1, <2>1, <2>2 DEF Found
<1>4. ASSUME ~(p + 2 <= Len(t)) PROVE Find(Crlf, t, p) = 0
  <2>1. \A j \in p..Len(t) - Len(Crlf) + 1 : j = p /\ p <= Len(t)
    BY <1>1, <1>2, <1>4
  <2>2. \A j \in p..Len(t) - Len(Crlf) + 1 : ~Found(Crlf, t, j)
    BY <1>3, <2>1
  <2>3. Crlf \in Seq(Byte)
    BY <1>1
  <2> QED
    BY <2>2, <2>3, FindNone
<1>5. ASSUME p + 2 <= Len(t) PROVE Find(Crlf, t, p) = p + 1
  <2>1. Found(Crlf, t, p + 1)
    <3>1. \A k \in 1..Len(Crlf) : (k = 1 /\ p + 1 + k - 1 = p + 1) \/ (k = 2 /\ p + 1 + k - 1 = p + 2)
      BY <1>1
    <3>2. t[p + 1] = "cr" /\ t[p + 2] = "lf"
      BY <1>2, <1>5
    <3> QED
      BY <1>1, <3>1, <3>2 DEF Found
  <2>2. p + 1 \in p..Len(t) - Len(Crlf) + 1
    BY <1>1, <1>2, <1>5
  <2>3. \A j \in p..p + 1 - 1 : ~Found(Crlf, t, j)
    <3>1. \A j \in p..p + 1 - 1 : j = p /\ p <= Len(t)
      BY <1>2, <1>5
    <3> QED
      BY <1>3, <3>1
  <2>4. Crlf \in Seq(Byte)
    BY <1>1
  <2> DEFINE i == p + 1
  <2>5. Found(Crlf, t, i) /\ i \in p..Len(t) - Len(Crlf) + 1 /\ \A j \in p..i - 1 : ~Found(Crlf, t, j)
    BY <2>1, <2>2, <2>3
  <2> HIDE DEF i
  <2>6. Find(Crlf, t, p) = i
    BY <2>4, <2>5, FindFirst
  <2> QED
    BY <2>6 DEF i
<1>6. ASSUME p + 2 <= Len(t) PROVE Number(SubSeq(t, p, p), 16) = s
  <2> DEFINE x == SubSeq(t, p, p)
             d == Numeral[s + 1]
             ds == <<d>>
  <2>1. t[p] = d
    BY <1>2, <1>6
  <2>2. d \in Digit /\ d \in Byte /\ "x" \in Byte
    BY NumeralIs, ItemsAre
  <2>3. x \in Seq(Byte) /\ Len(x) = 1 /\ x[1] = d
    <3>1. \A i \in p..p : t[i] \in Byte
      BY <2>1, <2>2
    <3>2. p \in Int
      OBVIOUS
    <3>3. /\ x \in Seq(Byte) /\ Len(x) = IF p <= p THEN p - p + 1 ELSE 0
          /\ \A i \in 1..p - p + 1 : x[i] = t[p + i - 1]
      BY <3>1, <3>2, SubSeqProperties
    <3> HIDE DEF x
    <3>4. p - p + 1 = 1 /\ 1 \in 1..p - p + 1 /\ p + 1 - 1 = p
      OBVIOUS
    <3> QED
      BY <2>1, <3>3, <3>4
  <2> HIDE DEF x, d
  <2>4. ds \in Seq(Digit) /\ Len(ds) = 1 /\ ds[1] = d
    BY <2>2
  <2>10. ds # <<>>
    OBVIOUS
  <2>5. ds = Append(<<>>, d)
    OBVIOUS
  <2>6. NumberOf(16, ds) = s
    <3> DEFINE e == <<>>
    <3>1. e \in Seq(Digit)
      OBVIOUS
    <3> HIDE DEF e
    <3>2. NumberOf(16, Append(e, d)) = Digitwise(16, NumberOf(16, e), d)
      BY <2>2, <3>1, NumberOfAppend
    <3> USE DEF e
    <3>3. DigitValue(d) = s
      BY ValueOf DEF d
    <3> QED
      BY <2>5, <3>2, <3>3, NumberOfNothing DEF Digitwise
  <2> HIDE DEF ds
  <2>7. Len(ds) <= Len(x) /\ (\A k \in 1..Len(ds) : x[k] = ds[k]) /\ ~(Len(ds) < Len(x))
    <3>1. \A k \in 1..1 : k = 1
      OBVIOUS
    <3> QED
      BY <2>3, <2>4, <3>1
  <2>8. ds \in Seq(Digit) /\ x \in Seq(Byte)
    BY <2>3, <2>4
  <2>9. Number(x, 16) = NumberOf(16, ds)
    BY <2>7, <2>8, <2>10, NumberReads
  <2> QED
    BY <2>6, <2>9 DEF x
<1> QED
  BY <1>4, <1>5, <1>6

\* Decoding what has come of a chunked body gives the data if all of it has come,
\* and nothing if it breaks off
LEMMA DecodedData ==
    ASSUME NEW r \in Requests, r.kind = "chunked",
           NEW m \in 0..Len(BodyOf(r)), NEW t, t = SubSeq(BodyOf(r), 1, m),
           NEW d \in Dechunked(t)
    PROVE  d = Data(r) /\ m = Len(BodyOf(r))
<1> DEFINE cs == r.chunks
           n == Len(cs)
           B == BodyOf(r)
           from == Decoding(t)
<1>1. PICK at, upto : ChunksAt(r, at, upto)
  BY ChunksLaid
<1>2. /\ at \in [0..n -> Nat] /\ upto \in [0..n -> Seq(Byte)]
      /\ at[0] = 0 /\ upto[0] = <<>> /\ upto[n] = Data(r)
      /\ B \in Seq(Byte) /\ Len(B) = at[n] + 5
      /\ B[at[n] + 1] = "0" /\ B[at[n] + 2] = "cr" /\ B[at[n] + 3] = "lf"
  BY <1>1 DEF ChunksAt
<1>3. ASSUME NEW j \in 0..n - 1
      PROVE  LET s == Len(cs[j + 1])
             IN /\ s \in 1..9 /\ cs[j + 1] \in Seq(Byte)
                /\ upto[j + 1] = upto[j] \o cs[j + 1]
                /\ at[j + 1] = at[j] + s + 5 /\ at[j + 1] <= at[n]
                /\ B[at[j] + 1] = Numeral[s + 1] /\ B[at[j] + 2] = "cr" /\ B[at[j] + 3] = "lf"
                /\ \A k \in 1..s : B[at[j] + 3 + k] = cs[j + 1][k]
                /\ B[at[j] + s + 4] = "cr" /\ B[at[j] + s + 5] = "lf"
  BY <1>1 DEF ChunksAt
<1>4. n \in Nat
  <2>1. r.chunks \in Seq(Seq(Byte))
    BY RequestIs
  <2> DEFINE Y == Seq(Byte)
  <2>2. cs \in Seq(Y)
    BY <2>1
  <2> HIDE DEF Y
  <2> QED
    BY <2>2, LenProperties
<1>5. t \in Seq(Byte) /\ Len(t) = m /\ m \in Nat /\ m <= Len(B) /\ \A k \in 1..m : t[k] = B[k]
  <2>1. Len(B) \in Nat /\ m \in Nat /\ m <= Len(B)
    BY <1>2, LenProperties
  <2>2. \A k \in 1..m : B[k] \in Byte
    BY <1>2, <2>1, ElementOfSeq
  <2>3. m \in Int /\ 1 \in Int
    BY <2>1
  <2> HIDE DEF B
  <2>4. /\ SubSeq(B, 1, m) \in Seq(Byte)
        /\ Len(SubSeq(B, 1, m)) = IF 1 <= m THEN m - 1 + 1 ELSE 0
        /\ \A k \in 1..m - 1 + 1 : SubSeq(B, 1, m)[k] = B[1 + k - 1]
    BY <2>2, <2>3, SubSeqProperties
  <2>5. m - 1 + 1 = m /\ (~(1 <= m) => m = 0) /\ \A k \in 1..m : 1 + k - 1 = k
    BY <2>1
  <2> QED
    BY <2>1, <2>4, <2>5 DEF B
<1>6. \A p \in Nat \ {0} : from[p] = DecodedAt(t, from, p)
  BY <1>5, DecodingIs
<1> DEFINE Right(j) == \A x \in from[at[j] + 1] :
                           x \in Seq(Byte) /\ upto[j] \o x = Data(r) /\ m = Len(B)
           S == {l \in Nat : l <= n => Right(n - l)}
<1> HIDE DEF n, B, from
\* A size line in what has come
<1>7. ASSUME NEW a \in Nat, NEW s \in 0..9, a + 3 <= Len(B),
             B[a + 1] = Numeral[s + 1], B[a + 2] = "cr", B[a + 3] = "lf"
      PROVE  /\ a + 3 <= m => Find(Crlf, t, a + 1) = a + 2 /\ Number(SubSeq(t, a + 1, a + 1), 16) = s
             /\ ~(a + 3 <= m) => Find(Crlf, t, a + 1) = 0
  <2> DEFINE p == a + 1
  <2>1. p \in Nat \ {0} /\ p + 1 = a + 2 /\ p + 2 = a + 3
    OBVIOUS
  <2>2. /\ p <= Len(t) => t[p] = Numeral[s + 1]
        /\ p + 1 <= Len(t) => t[p + 1] = "cr"
        /\ p + 2 <= Len(t) => t[p + 2] = "lf"
    BY <1>5, <1>7
  <2> HIDE DEF p
  <2>3. /\ p + 2 <= Len(t) => Find(Crlf, t, p) = p + 1 /\ Number(SubSeq(t, p, p), 16) = s
        /\ ~(p + 2 <= Len(t)) => Find(Crlf, t, p) = 0
    BY <1>5, <2>1, <2>2, SizeRead
  <2> QED
    BY <1>5, <2>1, <2>3 DEF p
<1>8. Right(n)
  <2> DEFINE a == at[n]
             p == a + 1
  <2>1. a \in Nat /\ n \in 0..n /\ Len(B) = a + 5
    <3>1. n \in 0..n
      BY <1>4
    <3> QED
      BY <1>2, <3>1 DEF n, B
  <2>2. B[a + 1] = Numeral[0 + 1] /\ B[a + 2] = "cr" /\ B[a + 3] = "lf" /\ 0 \in 0..9
    BY <1>2 DEF n, B, Numeral
  <2>3. from[p] = DecodedAt(t, from, p) /\ p \in Nat \ {0}
    BY <1>6, <2>1
  <2>4. upto[n] = Data(r)
    BY <1>2 DEF n
  <2> HIDE DEF a
  <2>5. a + 3 <= Len(B)
    BY <2>1
  <2>6. /\ a + 3 <= m => Find(Crlf, t, p) = a + 2 /\ Number(SubSeq(t, p, p), 16) = 0
        /\ ~(a + 3 <= m) => Find(Crlf, t, p) = 0
    BY <1>7, <2>1, <2>2, <2>5
  <2>7. \A x \in from[p] : x = <<>> /\ a + 5 <= m
    <3>1. CASE a + 3 <= m
      <4>1. a + 2 - 1 = p /\ a + 2 + 3 = a + 5
        BY <2>1
      <4> DEFINE eol == a + 2
                 next == eol + 2 + 0
      <4>3. eol = Find(Crlf, t, p) /\ 0 = Number(SubSeq(t, p, eol - 1), 16) /\ eol + 3 = a + 5
        BY <2>1, <2>6, <3>1, <4>1
      <4>4. next = eol + 2 + 0 /\ eol + 3 = a + 5
        BY <4>3
      <4> HIDE DEF p, eol, next
      <4>2. ASSUME NEW x \in DecodedAt(t, from, p) PROVE x = <<>> /\ eol + 3 <= Len(t)
        <5> DEFINE size == 0
        <5>1. eol = Find(Crlf, t, p) /\ size = Number(SubSeq(t, p, eol - 1), 16) /\ next = eol + 2 + size
          BY <4>3, <4>4
        <5>2. size = 0
          OBVIOUS
        <5> HIDE DEF size
        <5>3. size = 0 => x = <<>> /\ eol + 3 <= Len(t)
          BY <5>1 DEF DecodedAt
        <5> QED
          BY <5>2, <5>3
      <4> QED
        BY <1>5, <2>3, <4>2, <4>4
    <3>2. CASE ~(a + 3 <= m)
      <4>1. DecodedAt(t, from, p) = {}
        BY <2>6, <3>2 DEF DecodedAt
      <4> QED
        BY <2>3, <4>1
    <3> QED
      BY <3>1, <3>2
  <2>8. ASSUME NEW x \in from[p] PROVE x \in Seq(Byte) /\ upto[n] \o x = Data(r) /\ m = Len(B)
    <3>1. x = <<>> /\ m = Len(B)
      BY <1>5, <2>1, <2>7
    <3>2. Data(r) \in Seq(Byte)
      BY RequestIs
    <3> QED
      BY <2>4, <3>1, <3>2, ConcatEmptySeq
  <2> QED
    BY <2>8 DEF a
<1>9. ASSUME NEW j \in 0..n - 1, Right(j + 1) PROVE Right(j)
  <2> DEFINE a == at[j]
             p == a + 1
             c == cs[j + 1]
             s == Len(c)
             q == at[j + 1] + 1
             u == upto[j]
             v == upto[j + 1]
  <2>1. /\ s \in 1..9 /\ c \in Seq(Byte) /\ v = u \o c
        /\ at[j + 1] = a + s + 5 /\ at[j + 1] <= at[n]
        /\ B[a + 1] = Numeral[s + 1] /\ B[a + 2] = "cr" /\ B[a + 3] = "lf"
        /\ \A k \in 1..s : B[a + 3 + k] = c[k]
        /\ B[a + s + 4] = "cr" /\ B[a + s + 5] = "lf"
    BY <1>3 DEF n, B
  <2>2. a \in Nat /\ at[j + 1] \in Nat /\ at[n] \in Nat /\ Len(B) = at[n] + 5 /\ u \in Seq(Byte)
    <3>1. j \in 0..n /\ j + 1 \in 0..n /\ n \in 0..n
      BY <1>4 DEF n
    <3> QED
      BY <1>2, <3>1 DEF n, B
  <2>3. \A y \in from[q] : y \in Seq(Byte) /\ v \o y = Data(r) /\ m = Len(B)
    BY <1>9
  <2>4. from[p] = DecodedAt(t, from, p) /\ p \in Nat \ {0}
    BY <1>6, <2>2
  <2> HIDE DEF a, c, s, v, u
  <2>5. s \in Nat /\ s \in 0..9 /\ a + s + 10 <= Len(B) /\ q = a + s + 6
    <3>1. \A i \in 1..9 : i \in Nat /\ i \in 0..9
      OBVIOUS
    <3>2. s \in Nat /\ s \in 0..9
      BY <2>1, <3>1
    <3> QED
      BY <2>1, <2>2, <3>2, SMTT(30)
  <2>6. a + 3 <= Len(B)
    BY <2>2, <2>5
  <2>7. /\ a + 3 <= m => Find(Crlf, t, p) = a + 2 /\ Number(SubSeq(t, p, p), 16) = s
        /\ ~(a + 3 <= m) => Find(Crlf, t, p) = 0
    BY <1>7, <2>1, <2>2, <2>5, <2>6
  <2>8. ASSUME NEW x \in from[p]
        PROVE  /\ a + s + 5 <= m
               /\ \E y \in from[q] : x = SubSeq(t, a + 4, a + s + 3) \o y
    <3>1. a + 3 <= m
      <4> SUFFICES ASSUME ~(a + 3 <= m) PROVE FALSE
        OBVIOUS
      <4>1. DecodedAt(t, from, p) = {}
        BY <2>7 DEF DecodedAt
      <4> QED
        BY <2>4, <2>8, <4>1
    <3>2. Find(Crlf, t, p) = a + 2 /\ Number(SubSeq(t, p, p), 16) = s /\ s # 0 /\ a + 2 # 0
      <4>1. \A i \in 1..9 : i # 0
        OBVIOUS
      <4>2. s # 0
        BY <2>1, <4>1
      <4>3. a + 2 # 0
        BY <2>2
      <4> QED
        BY <2>7, <3>1, <4>2, <4>3
    <3> DEFINE eol == a + 2
               next == a + s + 4
    <3>3. /\ eol - 1 = p /\ next = eol + 2 + s /\ eol + 2 = a + 4
          /\ next - 1 = a + s + 3 /\ next + 2 = q /\ next + 1 = a + s + 5
      <4>1. q = a + s + 6 /\ a \in Nat /\ s \in Nat
        BY <2>2, <2>5
      <4> HIDE DEF q
      <4> QED
        BY <4>1
    <3>4. x \in DecodedAt(t, from, p)
      BY <2>4, <2>8
    <3>9. eol # 0 /\ eol = Find(Crlf, t, p) /\ s = Number(SubSeq(t, p, eol - 1), 16)
      BY <3>2, <3>3
    <3> HIDE DEF p, q, eol, next
    <3>10. next = eol + 2 + s
      BY <3>3
    <3>11. s # 0 => /\ ~(next + 1 > Len(t))
                    /\ \E rest \in from[next + 2] : x = SubSeq(t, eol + 2, next - 1) \o rest
      BY <3>4, <3>9, <3>10 DEF DecodedAt
    <3>6. ~(next + 1 > Len(t)) /\ \E rest \in from[next + 2] : x = SubSeq(t, eol + 2, next - 1) \o rest
      BY <3>2, <3>11
    <3>7. a + s + 5 <= m
      <4>1. ~(a + s + 5 > Len(t))
        BY <3>3, <3>6
      <4> QED
        BY <1>5, <2>2, <2>5, <4>1
    <3>8. \E y \in from[q] : x = SubSeq(t, a + 4, a + s + 3) \o y
      BY <3>3, <3>6
    <3> QED
      BY <3>7, <3>8
  <2>9. ASSUME a + s + 5 <= m PROVE SubSeq(t, a + 4, a + s + 3) = c
    <3>1. \A k \in 1..s : k \in 1..Len(c) /\ a + 3 + k \in 1..Len(t) /\ t[a + 3 + k] = c[k]
      <4> SUFFICES ASSUME NEW k \in 1..s
                   PROVE  k \in 1..Len(c) /\ a + 3 + k \in 1..Len(t) /\ t[a + 3 + k] = c[k]
        OBVIOUS
      <4>1. a + 3 + k \in 1..m
        BY <1>5, <2>2, <2>5, <2>9
      <4> QED
        BY <1>5, <2>1, <4>1 DEF s
    <3>2. a + 3 \in Nat /\ 1 \in Int /\ s \in Int /\ a + 4 = a + 3 + 1 /\ a + s + 3 = a + 3 + s
      BY <2>2, <2>5
    <3>3. SubSeq(t, a + 4, a + s + 3) = SubSeq(c, 1, s)
      <4>1. t \in Seq(Byte) /\ c \in Seq(Byte)
        BY <1>5, <2>1
      <4> DEFINE l == a + 3
                 i == a + 4
                 j1 == a + s + 3
      <4>2. l \in Nat /\ 1 \in Int /\ s \in Int /\ i = l + 1 /\ j1 = l + s
        BY <3>2
      <4>3. \A k \in 1..s : k \in 1..Len(c) /\ l + k \in 1..Len(t) /\ t[l + k] = c[k]
        BY <3>1
      <4> HIDE DEF l, i, j1
      <4>4. SubSeq(t, i, j1) = SubSeq(c, 1, s)
        BY <4>1, <4>2, <4>3, SubSeqSame
      <4> QED
        BY <4>4 DEF i, j1
    <3>4. SubSeq(c, 1, Len(c)) = c
      BY <2>1, SubSeqFull
    <3> QED
      BY <3>3, <3>4 DEF s
  <2>10. ASSUME NEW x \in from[p] PROVE x \in Seq(Byte) /\ u \o x = Data(r) /\ m = Len(B)
    <3>1. PICK y \in from[q] : x = SubSeq(t, a + 4, a + s + 3) \o y
      BY <2>8, <2>10
    <3>2. x = c \o y
      BY <2>8, <2>9, <2>10, <3>1
    <3>3. y \in Seq(Byte) /\ v \o y = Data(r) /\ m = Len(B)
      BY <2>3
    <3>4. c \o y \in Seq(Byte)
      BY <2>1, <3>3, ConcatProperties
    <3>5. (u \o c) \o y = u \o (c \o y)
      <4>1. u \in Seq(Byte) /\ c \in Seq(Byte) /\ y \in Seq(Byte)
        BY <2>1, <2>2, <3>3
      <4> QED
        BY <4>1, ConcatAssociative, SMTT(30)
    <3> QED
      BY <2>1, <3>2, <3>3, <3>4, <3>5
  <2> QED
    BY <2>10 DEF a, u
<1>10. Right(0)
  <2>1. 0 \in S
    BY <1>4, <1>8 DEF n
  <2>2. ASSUME NEW l \in Nat, l \in S PROVE l + 1 \in S
    <3> SUFFICES ASSUME l + 1 <= n PROVE Right(n - (l + 1))
      OBVIOUS
    <3> DEFINE j == n - (l + 1)
    <3>1. j \in 0..n - 1 /\ j + 1 = n - l /\ l <= n
      BY <1>4 DEF n
    <3>2. Right(n - l)
      BY <2>2, <3>1
    <3> HIDE DEF j, Right
    <3>3. Right(j + 1)
      BY <3>1, <3>2
    <3>4. Right(j)
      BY <1>9, <3>1, <3>3
    <3> QED
      BY <3>4 DEF j
  <2> HIDE DEF S
  <2>3. \A l \in Nat : l \in S
    BY <2>1, <2>2, AllNumbers
  <2>4. n \in Nat /\ n - n = 0 /\ n <= n
    BY <1>4 DEF n
  <2>5. n \in S
    BY <2>3, <2>4
  <2> HIDE DEF Right
  <2>6. Right(n - n)
    BY <2>4, <2>5 DEF S
  <2> QED
    BY <2>4, <2>6
<1>11. d \in Seq(Byte) /\ upto[0] \o d = Data(r) /\ m = Len(B)
  <2>1. d \in from[at[0] + 1]
    <3>1. at[0] + 1 = 1
      BY <1>2
    <3> QED
      BY <3>1, DechunkedIs DEF from
  <2> QED
    BY <1>10, <2>1
<1>12. upto[0] \o d = d
  BY <1>2, <1>11, ConcatEmptySeq
<1> QED
  BY <1>11, <1>12 DEF B

-----------------------------------------------------------------------------
(* What the handler makes of what it has read                              *)

\* Bytes without words, the rest of a request of which the head is gone, are no
\* request
LEMMA RestForeign == ASSUME NEW b \in Seq(Byte) PROVE Foreign(b)
<1> DEFINE p == <<"verb">>
<1>1. p \in Seq(Item) /\ Len(p) = 1 /\ p[1] = "verb" /\ "verb" \in Item /\ "verb" \notin Byte
  <2>1. "verb" \in Word
    BY DEF Word
  <2> QED
    BY <2>1, ItemsAre
<1> HIDE DEF p
<1>2. SUFFICES ASSUME Len(p) <= Len(b), SubSeq(p, 1, Len(p)) = SubSeq(b, 1, Len(p)) PROVE FALSE
  BY DEF Foreign, IsPrefix, p
<1>3. Len(b) \in Nat /\ 1 \in 1..Len(b)
  BY <1>1, <1>2, LenProperties
<1>4. \A k \in 1..1 : p[k] \in Item /\ b[k] \in Byte
  <2>1. \A k \in 1..1 : k = 1
    OBVIOUS
  <2>2. p[1] \in Item /\ b[1] \in Byte
    BY <1>1, <1>3, ElementOfSeq
  <2> QED
    BY <2>1, <2>2
<1>5. \A k \in 1..1 - 1 + 1 : SubSeq(p, 1, 1)[k] = p[1 + k - 1] /\ SubSeq(b, 1, 1)[k] = b[1 + k - 1]
  BY <1>4, SubSeqProperties
<1>6. SubSeq(p, 1, 1)[1] = p[1] /\ SubSeq(b, 1, 1)[1] = b[1]
  <2>1. 1 \in 1..1 - 1 + 1 /\ 1 + 1 - 1 = 1
    OBVIOUS
  <2> QED
    BY <1>5, <2>1
<1>7. b[1] \in Byte
  BY <1>3, ElementOfSeq
<1> QED
  BY <1>1, <1>2, <1>6, <1>7

\* ... and neither is what is decoded from them
LEMMA TextType ==
    ASSUME NEW b \in Seq(Byte), ~Incomplete(b), ~BadChunks(b)
    PROVE  Text(b) \in Seq(Byte)
<1>1. CASE ~Chunked(b)
  BY <1>1 DEF Text
<1>2. CASE Chunked(b)
  <2> DEFINE p == Crlf \o <<"0">> \o Crlf
             k == BodyAt(b)
             s == SubSeq(b, 1, k - 1)
             t == Rest(b, k)
  <2>1. p \in Seq(Byte) /\ Len(p) = 5 /\ Blank \in Seq(Byte)
    <3>1. "cr" \in Byte /\ "lf" \in Byte /\ "0" \in Byte
      BY NumeralIs, ItemsAre
    <3> QED
      BY <3>1 DEF Crlf, Blank
  <2>2. k \in Nat \ {0}
    <3>1. Find(Blank, b, 1) \in Nat
      BY <2>1, FindIs
    <3> QED
      BY <3>1 DEF BodyAt
  <2>3. Find(p, b, k) # 0
    BY <1>2 DEF Incomplete, LastChunk
  <2> HIDE DEF p, k
  <2>4. k \in 1..Len(b) + 1 /\ Len(b) \in Nat
    <3>1. Find(p, b, k) \in k..Len(b) - Len(p) + 1
      BY <2>1, <2>2, <2>3, FindIs
    <3>2. Len(b) \in Nat
      BY LenProperties
    <3> QED
      BY <2>1, <2>2, <3>1, <3>2
  <2>5. s \in Seq(Byte)
    <3>1. \A i \in 1..k - 1 : i \in 1..Len(b)
      BY <2>4
    <3>2. \A i \in 1..k - 1 : b[i] \in Byte
      BY <3>1, ElementOfSeq
    <3>3. 1 \in Int /\ k - 1 \in Int
      BY <2>4
    <3> QED
      BY <3>2, <3>3, SubSeqProperties
  <2>6. t \in Seq(Byte)
    BY <2>4, RestType
  <2>7. Decoded(b) \in Dechunked(t)
    <3>1. Dechunked(t) # {}
      BY <1>2 DEF BadChunks, k
    <3> QED
      BY <3>1 DEF Decoded, k
  <2>8. Text(b) = s \o Decoded(b)
    BY <1>2 DEF Text, k
  <2> HIDE DEF s, t
  <2>9. Decoded(b) \in Seq(Byte)
    BY <2>6, <2>7, DechunkedType
  <2> QED
    BY <2>5, <2>8, <2>9, ConcatProperties
<1> QED
  BY <1>1, <1>2

\* When all of a chunked request with data has come, its last chunk is seen
LEMMA LastChunkSeen ==
    ASSUME NEW r \in Requests, r.kind = "chunked", Data(r) # <<>>,
           NEW b, b = SubSeq(Wire(r), 1, Len(Wire(r)))
    PROVE  LastChunk(b)
<1> DEFINE h == Len(HeadOf(r))
           w == Wire(r)
           B == BodyOf(r)
           n == Len(r.chunks)
           p == Crlf \o <<"0">> \o Crlf
<1>1. /\ h \in Nat /\ h >= 8 /\ w \in Seq(Item) /\ Len(B) \in Nat /\ Len(w) = h + Len(B)
      /\ \A k \in 1..Len(B) : w[h + k] = B[k]
  <2> DEFINE x == HeadOf(r)
             m == Len(x)
  <2>1. /\ m \in Nat /\ m >= 8 /\ x \in Seq(Item)
        /\ w \in Seq(Item) /\ Len(B) \in Nat /\ Len(w) = m + Len(B)
        /\ \A k \in 1..m : w[k] = x[k]
        /\ \A k \in 1..Len(B) : w[m + k] = B[k]
        /\ \A k \in 1..Len(B) : B[k] \in Byte
    BY WireIs
  <2> QED
    BY <2>1
<1>2. b = w
  BY <1>1, SubSeqFull
<1>3. BodyAt(b) = h + 1
  <2> DEFINE m == Len(w)
  <2>1. m \in h..Len(Wire(r)) /\ b = SubSeq(Wire(r), 1, m) /\ h = Len(HeadOf(r))
    BY <1>1
  <2> HIDE DEF h, m
  <2>2. BeginsWith(b, m, h, r)
    BY <2>1, PrefixIs
  <2> QED
    BY <2>2 DEF BeginsWith
<1>4. PICK at, upto : ChunksAt(r, at, upto)
  BY ChunksLaid
<1>5. n \in Nat
  <2>1. r.chunks \in Seq(Seq(Byte))
    BY RequestIs
  <2> DEFINE Y == Seq(Byte)
             c == r.chunks
  <2>2. c \in Seq(Y)
    BY <2>1
  <2> HIDE DEF Y, c
  <2>3. Len(c) \in Nat
    BY <2>2, LenProperties
  <2> QED
    BY <2>3 DEF c
<1>6. /\ at \in [0..n -> Nat] /\ upto[0] = <<>> /\ upto[n] = Data(r)
      /\ Len(B) = at[n] + 5
      /\ B[at[n] + 1] = "0" /\ B[at[n] + 2] = "cr" /\ B[at[n] + 3] = "lf"
  BY <1>4 DEF ChunksAt
<1>7. n # 0
  BY <1>6
<1> DEFINE j == n - 1
<1>8. \E s \in 1..9 : /\ at[j + 1] = at[j] + s + 5
                      /\ B[at[j] + s + 4] = "cr" /\ B[at[j] + s + 5] = "lf"
  <2>1. j \in 0..n - 1
    BY <1>5, <1>7
  <2> HIDE DEF j, n
  <2> QED
    BY <1>4, <2>1 DEF ChunksAt, n
<1> DEFINE a == at[n]
<1>9. a \in Nat /\ a >= 6 /\ B[a - 1] = "cr" /\ B[a] = "lf"
  <2>1. j + 1 = n /\ n \in 0..n /\ j \in 0..n
    BY <1>5, <1>7
  <2>2. at[n] \in Nat /\ at[j] \in Nat
    BY <1>6, <2>1
  <2>3. PICK s \in 1..9 : at[n] = at[j] + s + 5 /\ B[at[j] + s + 4] = "cr" /\ B[at[j] + s + 5] = "lf"
    BY <1>8, <2>1
  <2> HIDE DEF j, n, B
  <2>4. at[n] >= 6 /\ at[n] - 1 = at[j] + s + 4
    BY <2>2, <2>3
  <2> QED
    BY <2>2, <2>3, <2>4
<1>10. p \in Seq(Item) /\ Len(p) = 5 /\ p[1] = "cr" /\ p[2] = "lf" /\ p[3] = "0" /\ p[4] = "cr" /\ p[5] = "lf"
  <2>1. "cr" \in Item /\ "lf" \in Item /\ "0" \in Item
    BY NumeralIs, ItemsAre
  <2> QED
    BY <2>1 DEF Crlf
<1> HIDE DEF p, h, w, B, a
<1>11. Find(p, w, h + 1) # 0
  <2> DEFINE i == h + a - 1
             g == h + 1
  <2>0. Len(B) = a + 5
    BY <1>6 DEF a, B
  <2>1. h + 1 \in Nat \ {0} /\ i \in h + 1..Len(w) - Len(p) + 1
    <3>1. Len(w) = h + (a + 5) /\ Len(p) = 5 /\ h \in Nat /\ a \in Nat /\ a >= 6
      BY <1>1, <1>9, <1>10, <2>0
    <3> QED
      BY <3>1
  <2>2. Found(p, w, i)
    <3>1. \A k \in 1..5 : k \in {1, 2, 3, 4, 5}
      OBVIOUS
    <3>2. /\ i + 1 - 1 = h + (a - 1) /\ i + 2 - 1 = h + a /\ i + 3 - 1 = h + (a + 1)
          /\ i + 4 - 1 = h + (a + 2) /\ i + 5 - 1 = h + (a + 3)
      BY <1>1, <1>9
    <3>3. a - 1 \in 1..Len(B) /\ a \in 1..Len(B) /\ a + 1 \in 1..Len(B) /\ a + 2 \in 1..Len(B) /\ a + 3 \in 1..Len(B)
      BY <1>9, <2>0
    <3>4. /\ w[h + (a - 1)] = B[a - 1] /\ w[h + a] = B[a] /\ w[h + (a + 1)] = B[a + 1]
          /\ w[h + (a + 2)] = B[a + 2] /\ w[h + (a + 3)] = B[a + 3]
      BY <1>1, <3>3
    <3>5. B[a + 1] = "0" /\ B[a + 2] = "cr" /\ B[a + 3] = "lf"
      BY <1>6 DEF a, B
    <3> HIDE DEF i
    <3>6. w[i + 1 - 1] = "cr" /\ w[i + 2 - 1] = "lf" /\ w[i + 3 - 1] = "0" /\ w[i + 4 - 1] = "cr" /\ w[i + 5 - 1] = "lf"
      BY <1>9, <3>2, <3>4, <3>5
    <3> QED
      BY <1>10, <3>1, <3>6 DEF Found
  <2>3. p \in Seq(Item) /\ w \in Seq(Item) /\ g \in Nat \ {0} /\ i \in g..Len(w) - Len(p) + 1
    BY <1>1, <1>10, <2>1 DEF w
  <2> HIDE DEF g, i
  <2>4. Find(p, w, g) # 0
    BY <2>2, <2>3, FindSome
  <2> QED
    BY <2>4 DEF g
<1> QED
  BY <1>2, <1>3, <1>11 DEF LastChunk, p

\* What is not in the body is not behind the head
LEMMA NotBehind ==
    ASSUME NEW r \in Requests, NEW h, h = Len(HeadOf(r)),
           NEW m \in h..Len(Wire(r)), NEW b, b = SubSeq(Wire(r), 1, m),
           NEW name, name \notin ToSet(BodyOf(r))
    PROVE  \A k \in h + 1..Len(b) : b[k] # name
<1> DEFINE w == Wire(r)
           B == BodyOf(r)
<1>1. /\ h \in Nat /\ w \in Seq(Item) /\ Len(B) \in Nat /\ Len(w) = h + Len(B)
      /\ \A k \in 1..Len(B) : w[h + k] = B[k]
  <2> DEFINE x == HeadOf(r)
             i == Len(x)
  <2>1. /\ i \in Nat /\ i >= 8 /\ x \in Seq(Item)
        /\ w \in Seq(Item) /\ Len(B) \in Nat /\ Len(w) = i + Len(B)
        /\ \A k \in 1..i : w[k] = x[k]
        /\ \A k \in 1..Len(B) : w[i + k] = B[k]
        /\ \A k \in 1..Len(B) : B[k] \in Byte
    BY WireIs
  <2> QED
    BY <2>1
<1>2. \A k \in 1..Len(B) : B[k] # name
  <2>1. B \in Seq(Byte)
    BY BodyIs
  <2> HIDE DEF B
  <2>2. DOMAIN B = 1..Len(B)
    BY <2>1, LenProperties
  <2> QED
    BY <2>2 DEF ToSet, B
<1> HIDE DEF w, B
<1>3. m \in Nat /\ m <= Len(w)
  BY <1>1 DEF w
<1>4. Len(b) = m /\ \A k \in 1..m : b[k] = w[k]
  <2>1. \A k \in 1..m : w[k] \in Item
    <3>1. \A k \in 1..m : k \in 1..Len(w)
      BY <1>1, <1>3
    <3> QED
      BY <1>1, <3>1, ElementOfSeq
  <2> DEFINE s == SubSeq(w, 1, m)
  <2>2. 1 \in Int /\ m \in Int
    BY <1>3
  <2>3. /\ Len(s) = IF 1 <= m THEN m - 1 + 1 ELSE 0
        /\ \A k \in 1..m - 1 + 1 : s[k] = w[1 + k - 1]
    BY <2>1, <2>2, SubSeqProperties
  <2>4. m - 1 + 1 = m /\ \A k \in 1..m : 1 + k - 1 = k
    BY <1>3
  <2>5. s = b
    BY DEF w
  <2> HIDE DEF s
  <2> QED
    BY <1>3, <2>3, <2>4, <2>5
<1> SUFFICES ASSUME NEW k \in h + 1..m PROVE b[k] # name
  BY <1>4
<1> DEFINE i == k - h
<1>5. i \in 1..Len(B) /\ h + i = k /\ k \in 1..m
  BY <1>1, <1>3
<1> HIDE DEF i
<1>6. w[h + i] = B[i] /\ B[i] # name
  BY <1>1, <1>2, <1>5
<1>7. w[k] = B[i]
  BY <1>5, <1>6
<1> QED
  BY <1>4, <1>5, <1>6, <1>7

\* A request without a body has no names in it
LEMMA NoBody == ASSUME NEW r \in Requests, r.kind = "none", NEW name PROVE name \notin ToSet(BodyOf(r))
<1>1. BodyOf(r) = <<>>
  BY BodyIs, RequestIs
<1>2. DOMAIN <<>> = {}
  OBVIOUS
<1> QED
  BY <1>1, <1>2 DEF ToSet

\* What the handler knows of a text with the whole head and so much of the body
ReadsAs(b, m, h, r) ==
    /\ m - h \in 0..Len(BodyOf(r)) /\ Len(Wire(r)) = h + Len(BodyOf(r))
    /\ Len(b) - BodyAt(b) + 1 = m - h
    /\ Rest(b, BodyAt(b)) = SubSeq(BodyOf(r), 1, m - h)
    /\ HeadEnds(b) /\ BodyAt(b) = h + 1 /\ HeadThenBytes(b, r)
    /\ ~Foreign(b) /\ ~Unsupported(b)
    /\ Malformed(b) <=> r.kind = "length" /\ Len(Data(r)) > IntMax
    /\ r.kind = "length" => Declares(b) /\ Number(Value(b), 10) = Len(Data(r))
    /\ r.kind # "length" => ~Declares(b)
    /\ r.kind = "chunked" => Chunked(b)
    /\ r.kind # "chunked" /\ "chunked" \notin ToSet(BodyOf(r)) => ~Chunked(b)
    /\ r.kind = "chunked" /\ "length:" \notin ToSet(BodyOf(r)) => (Incomplete(b) <=> ~LastChunk(b))
    /\ r.kind = "length" /\ Len(Data(r)) <= IntMax /\ "chunked" \notin ToSet(BodyOf(r)) =>
          (Incomplete(b) <=> m - h < Len(Data(r)))
    /\ r.kind = "none" => ~Incomplete(b)

LEMMA PrefixRead ==
    ASSUME NEW r \in Requests, NEW h, h = Len(HeadOf(r)),
           NEW m \in h..Len(Wire(r)), NEW b, b = SubSeq(Wire(r), 1, m)
    PROVE  ReadsAs(b, m, h, r)
<1>1. /\ HeadThenBytes(b, r) /\ Len(b) = m /\ h \in Nat /\ m \in Nat
      /\ Len(Wire(r)) = h + Len(BodyOf(r)) /\ m - h <= Len(BodyOf(r))
      /\ BodyAt(b) = h + 1
      /\ Len(b) - BodyAt(b) + 1 = m - h /\ BodyLen(b) = m - h
      /\ Rest(b, BodyAt(b)) = SubSeq(BodyOf(r), 1, m - h)
  <2>1. BeginsWith(b, m, h, r)
    BY PrefixIs
  <2> QED
    BY <2>1 DEF BeginsWith
<1>2. Len(BodyOf(r)) \in Nat /\ Len(Data(r)) \in Nat
  BY BodyIs, RequestIs
<1>4. m - h \in 0..Len(BodyOf(r))
  BY <1>1, <1>2
<1>5. HeadEnds(b)
  BY <1>1, BlankFound
<1>6. /\ ~Foreign(b) /\ ~Unsupported(b)
      /\ Malformed(b) <=> r.kind = "length" /\ Len(Data(r)) > IntMax
  BY <1>1, WellFormed
<1>7. HeadSays(b, r)
  BY <1>1, HeadRead
<1>8. /\ r.kind = "length" => Declares(b) /\ HasLength(b) /\ Number(Value(b), 10) = Len(Data(r))
      /\ r.kind # "length" => ~Declares(b)
      /\ r.kind = "chunked" => Chunked(b)
  BY <1>7 DEF HeadSays
<1>9. r.kind # "chunked" /\ "chunked" \notin ToSet(BodyOf(r)) => ~Chunked(b)
  <2> SUFFICES ASSUME r.kind # "chunked", "chunked" \notin ToSet(BodyOf(r)) PROVE ~Chunked(b)
    OBVIOUS
  <2>1. \A k \in Len(HeadOf(r)) + 1..Len(b) : b[k] # "chunked"
    BY NotBehind
  <2> QED
    BY <1>7, <2>1 DEF HeadSays
<1>10. r.kind # "length" /\ "length:" \notin ToSet(BodyOf(r)) => ~HasLength(b)
  <2> SUFFICES ASSUME r.kind # "length", "length:" \notin ToSet(BodyOf(r)) PROVE ~HasLength(b)
    OBVIOUS
  <2>1. \A k \in Len(HeadOf(r)) + 1..Len(b) : b[k] # "length:"
    BY NotBehind
  <2> QED
    BY <1>7, <2>1 DEF HeadSays
<1>11. r.kind = "chunked" /\ "length:" \notin ToSet(BodyOf(r)) => (Incomplete(b) <=> ~LastChunk(b))
  BY <1>8, <1>10 DEF Incomplete
<1>12. r.kind = "length" /\ Len(Data(r)) <= IntMax /\ "chunked" \notin ToSet(BodyOf(r)) =>
          (Incomplete(b) <=> m - h < Len(Data(r)))
  <2> SUFFICES ASSUME r.kind = "length", Len(Data(r)) <= IntMax, "chunked" \notin ToSet(BodyOf(r))
               PROVE  Incomplete(b) <=> m - h < Len(Data(r))
    OBVIOUS
  <2>1. Len(Data(r)) \in 0..IntMax
    BY <1>2, RequestsAssumption
  <2>2. ContentLength(b) = Len(Data(r))
    BY <1>8, <2>1, AsIntIs DEF ContentLength
  <2>3. SizeLess(BodyLen(b), ContentLength(b)) <=> m - h < Len(Data(r))
    BY <1>1, <1>2, <1>4, <2>2 DEF SizeLess
  <2> QED
    BY <1>8, <1>9, <2>3 DEF Incomplete
<1>13. r.kind = "none" => ~Incomplete(b)
  <2> SUFFICES ASSUME r.kind = "none" PROVE ~Incomplete(b)
    OBVIOUS
  <2>1. "chunked" \notin ToSet(BodyOf(r)) /\ "length:" \notin ToSet(BodyOf(r))
    BY NoBody
  <2> QED
    BY <1>9, <1>10, <2>1 DEF Incomplete
<1> QED
  BY <1>1, <1>4, <1>5, <1>6, <1>8, <1>9, <1>11, <1>12, <1>13 DEF ReadsAs

\* When all has come, an answer is still waited for in four cases only
LEMMA AllHasCome ==
    ASSUME NEW r \in Requests, NEW b, b = SubSeq(Wire(r), 1, Len(Wire(r))), Incomplete(b)
    PROVE  \/ r.kind = "chunked" /\ (Data(r) = <<>> \/ "length:" \in ToSet(BodyOf(r)))
           \/ r.kind = "length" /\ (Len(Data(r)) > IntMax \/ "chunked" \in ToSet(BodyOf(r)))
<1> DEFINE h == Len(HeadOf(r))
           m == Len(Wire(r))
<1>1. h \in Nat /\ m = h + Len(BodyOf(r)) /\ Len(BodyOf(r)) \in Nat
  <2> DEFINE x == HeadOf(r)
             n == Len(x)
             w == Wire(r)
             B == BodyOf(r)
  <2>1. /\ n \in Nat /\ n >= 8 /\ x \in Seq(Item)
        /\ w \in Seq(Item) /\ Len(B) \in Nat /\ Len(w) = n + Len(B)
        /\ \A k \in 1..n : w[k] = x[k]
        /\ \A k \in 1..Len(B) : w[n + k] = B[k]
        /\ \A k \in 1..Len(B) : B[k] \in Byte
    BY WireIs
  <2> QED
    BY <2>1
<1>2. m \in h..Len(Wire(r)) /\ b = SubSeq(Wire(r), 1, m) /\ h = Len(HeadOf(r))
  BY <1>1
<1> HIDE DEF h, m
<1>3. /\ r.kind = "chunked" /\ "length:" \notin ToSet(BodyOf(r)) => ~LastChunk(b)
      /\ r.kind = "length" /\ Len(Data(r)) <= IntMax /\ "chunked" \notin ToSet(BodyOf(r)) =>
            m - h < Len(Data(r))
      /\ r.kind # "none"
  <2>1. ReadsAs(b, m, h, r)
    BY <1>2, PrefixRead
  <2> QED
    BY <2>1 DEF ReadsAs
<1>4. CASE r.kind = "length"
  <2>1. BodyOf(r) = Data(r)
    BY <1>4, BodyIs
  <2>2. ~(m - h < Len(Data(r)))
    BY <1>1, <2>1
  <2>3. Len(Data(r)) \in Nat /\ IntMax \in Nat
    BY RequestIs, RequestsAssumption
  <2> QED
    BY <1>3, <1>4, <2>2, <2>3
<1>5. CASE r.kind = "chunked"
  <2>1. Data(r) # <<>> => LastChunk(b)
    BY <1>5, LastChunkSeen
  <2> QED
    BY <1>3, <1>5, <2>1
<1> QED
  BY <1>3, <1>4, <1>5, RequestIs

-----------------------------------------------------------------------------
(* The invariant                                                           *)

\* What has been received
Received == SubSeq(Wire(request), 1, taken)

\* A request without chunks that does not look like another
Plain ==
    /\ headed /\ request.kind # "chunked"
    /\ ~BodyHas("chunked") /\ Len(Data(request)) <= IntMax

\* A request with chunks, or that does not look like one
Unmistaken == headed /\ ~(request.kind = "length" /\ BodyHas("chunked"))

\* The buffer is what has been received, until an answer has been queued; then it
\* may be bytes without their head, or the decoded request.
FramingInv ==
    /\ request \in Requests /\ limit \in Limits /\ taken \in 0..Len(Wire(request))
    /\ headed \in BOOLEAN
    /\ taken = 0 => answers = {}
    /\ answers = {} => buffer = Received /\ (taken > 0 => Incomplete(buffer))
    /\ headed => taken >= Len(HeadOf(request))
    /\ Plain => buffer = Received /\ answers \subseteq {Expected}
    /\ Unmistaken =>
          /\ \A a \in answers : a.status = "served" => a = Expected
          /\ \/ buffer = Received
             \/ taken = Len(Wire(request))
             \/ answers # {} /\ buffer \in Seq(Byte)

LEMMA LimitIs == ASSUME limit \in Limits PROVE limit \in Nat
  BY RequestsAssumption

LEMMA WireLength == ASSUME NEW r \in Requests PROVE Len(Wire(r)) \in Nat /\ Len(HeadOf(r)) \in Nat /\ Len(HeadOf(r)) >= 8
<1> DEFINE x == HeadOf(r)
           n == Len(x)
           w == Wire(r)
           B == BodyOf(r)
<1>1. /\ n \in Nat /\ n >= 8 /\ x \in Seq(Item)
      /\ w \in Seq(Item) /\ Len(B) \in Nat /\ Len(w) = n + Len(B)
      /\ \A k \in 1..n : w[k] = x[k]
      /\ \A k \in 1..Len(B) : w[n + k] = B[k]
      /\ \A k \in 1..Len(B) : B[k] \in Byte
  BY WireIs
<1> QED
  BY <1>1

\* What every segment does, whatever the handler makes of it
LEMMA SegmentReceived ==
    ASSUME NEW n, HandleClientData(n)
    PROVE  /\ request' = request /\ limit' = limit /\ taken' = taken + n /\ taken + n <= Len(Wire(request))
           /\ headed' = (headed \/ (taken = 0 /\ n >= Len(HeadOf(request))))
  BY DEF HandleClientData, RejectOverLong, AwaitMore, RejectChunks, RejectDecoded,
     RejectSyntax, RejectVersion, Serve, AnswerRest, Parse, Examine, Receive

\* A segment with which a request without chunks has its head is answered as it
\* should be, if it is answered, and refused if its length is no int
LEMMA PlainStep ==
    ASSUME FramingInv, NEW n \in Nat, n # 0, HandleClientData(n), request.kind # "chunked",
           ~BodyHas("chunked"), buffer = Received, taken + n >= Len(HeadOf(request))
    PROVE  /\ Len(Data(request)) <= IntMax => answers' \subseteq answers \cup {Expected} /\ buffer' = Read(n)
           /\ \A a \in answers' : a \in answers \/ (a.status = "served" => a = Expected)
           /\ buffer' = Read(n) \/ (answers' # {} /\ buffer' \in Seq(Byte))
<1> DEFINE r == request
           h == Len(HeadOf(r))
           m == taken + n
           b == Read(n)
           long == Len(Data(r)) > IntMax
<1>1. request \in Requests /\ limit \in Nat /\ taken \in 0..Len(Wire(request)) /\ Len(Wire(request)) \in Nat
  BY LimitIs, WireLength DEF FramingInv
<1>2. m <= Len(Wire(r)) /\ h <= m /\ h \in Nat
  BY <1>1, WireLength, SegmentReceived
<1>3. b = SubSeq(Wire(r), 1, m)
  BY <1>1, <1>2, ReadIs DEF Received
<1>4. m \in h..Len(Wire(r)) /\ h = Len(HeadOf(r)) /\ r \in Requests
  BY <1>1, <1>2
<1> HIDE DEF h, m, b
<1>5. /\ m - h \in 0..Len(BodyOf(r))
      /\ Len(b) - BodyAt(b) + 1 = m - h
      /\ Rest(b, BodyAt(b)) = SubSeq(BodyOf(r), 1, m - h)
      /\ HeadEnds(b) /\ ~Foreign(b) /\ ~Unsupported(b) /\ ~Chunked(b)
      /\ Malformed(b) <=> r.kind = "length" /\ long
      /\ r.kind = "length" => Declares(b) /\ Number(Value(b), 10) = Len(Data(r))
      /\ r.kind # "length" => ~Declares(b)
      /\ r.kind = "length" /\ ~long => (Incomplete(b) <=> m - h < Len(Data(r)))
  <2>1. ReadsAs(b, m, h, r)
    BY <1>3, <1>4, PrefixRead
  <2>2. "chunked" \notin ToSet(BodyOf(r))
    BY DEF BodyHas
  <2>3. ~long => Len(Data(r)) <= IntMax
    BY <1>1, RequestIs, RequestsAssumption
  <2> QED
    BY <2>1, <2>2, <2>3 DEF ReadsAs
<1>6. /\ BodyOf(r) = Data(r) /\ Len(Data(r)) \in Nat /\ Data(r) \in Seq(Byte) /\ r.kind \in {"none", "length"}
      /\ r.kind = "none" => Len(Data(r)) = 0
  <2>1. r.kind = "none" => Data(r) = <<>>
    BY <1>1, BodyIs
  <2> QED
    BY <1>1, <2>1, BodyIs, RequestIs
<1>7. Text(b) = b
  BY <1>5 DEF Text
<1>8. ~BadChunks(b) /\ ~Overflows(n)
  BY <1>5 DEF BadChunks, Overflows, b
<1>9. Body(b) = UpToNul(SubSeq(Data(r), 1, m - h))
  BY <1>5, <1>6 DEF Body
<1>10. ASSUME ~Incomplete(b), ~(r.kind = "length" /\ long) PROVE Body(b) = UpToNul(Data(r))
  <2>1. m - h = Len(Data(r))
    <3>1. CASE r.kind = "length"
      BY <1>5, <1>6, <1>10, <3>1
    <3>2. CASE r.kind = "none"
      BY <1>5, <1>6, <3>2
    <3> QED
      BY <1>6, <3>1, <3>2
  <2>2. SubSeq(Data(r), 1, Len(Data(r))) = Data(r)
    BY <1>6, SubSeqFull
  <2> QED
    BY <1>9, <2>1, <2>2
<1>11. CASE RejectOverLong(n)
  <2>1. TooLong(m - h)
    BY <1>5, <1>11 DEF RejectOverLong, IsOverLong, b
  <2>2. TooLong(Len(Data(r)))
    BY <1>1, <1>5, <1>6, <2>1 DEF TooLong
  <2>3. Expected = [status |-> "413", body |-> <<>>]
    BY <2>2 DEF Expected
  <2> QED
    BY <1>11, <2>3 DEF RejectOverLong, Reply
<1>12. CASE AwaitMore(n)
  BY <1>12 DEF AwaitMore
<1>13. CASE RejectChunks(n)
  BY <1>8, <1>13 DEF RejectChunks, b
<1>14. CASE RejectDecoded(n)
  BY <1>8, <1>14 DEF RejectDecoded
<1>15. CASE RejectSyntax(n)
  <2>1. long
    BY <1>5, <1>7, <1>15 DEF RejectSyntax, b
  <2>2. ~(Len(Data(r)) <= IntMax)
    BY <1>6, <2>1, RequestsAssumption
  <2>3. answers' = answers \cup {[status |-> "400", body |-> <<>>]} /\ buffer' = <<>>
    BY <1>15 DEF RejectSyntax, Reply
  <2>4. ASSUME NEW a \in answers', a \notin answers PROVE a.status # "served"
    <3>1. a = [status |-> "400", body |-> <<>>]
      BY <2>3, <2>4
    <3> QED
      BY <3>1
  <2>5. answers' # {} /\ buffer' \in Seq(Byte)
    BY <2>3, EmptySeq
  <2> QED
    BY <2>2, <2>4, <2>5
<1>16. CASE RejectVersion(n)
  BY <1>5, <1>7, <1>16 DEF RejectVersion, b
<1>17. CASE AnswerRest(n)
  BY <1>5, <1>7, <1>17 DEF AnswerRest, b
<1>18. CASE Serve(n)
  <2> DEFINE over == Declares(b) /\ TooLong(Number(Value(b), 10))
  <2>1. /\ ~Incomplete(b) /\ ~Malformed(b) /\ buffer' = b
        /\ IF over THEN Reply("413", <<>>) ELSE Reply("served", Body(b))
    BY <1>7, <1>18 DEF Serve, Parse, b
  <2>2. Body(b) = UpToNul(Data(r))
    BY <1>5, <1>10, <2>1
  <2>3. over <=> TooLong(Len(Data(r)))
    <3>1. CASE r.kind = "length"
      BY <1>5, <3>1
    <3>2. CASE r.kind = "none"
      BY <1>1, <1>5, <1>6, <3>2 DEF TooLong
    <3> QED
      BY <1>6, <3>1, <3>2
  <2> HIDE DEF over
  <2>4. answers' = answers \cup {Expected}
    BY <2>1, <2>2, <2>3 DEF Reply, Expected
  <2> QED
    BY <2>1, <2>4 DEF b
<1> QED
  BY <1>11, <1>12, <1>13, <1>14, <1>15, <1>16, <1>17, <1>18 DEF HandleClientData

LEMMA RestIs ==
    ASSUME NEW X, NEW s \in Seq(X), NEW t \in Seq(X)
    PROVE  SubSeq(s \o t, Len(s) + 1, Len(s \o t)) = t
<1> DEFINE x == s \o t
           l == Len(s)
           n == Len(t)
           p == l + 1
           q == l + n
<1>1. /\ x \in Seq(X) /\ Len(x) = l + n /\ \A k \in l + 1..l + n : x[k] = t[k - l]
  BY JoinIs
<1>2. l \in Nat /\ n \in Nat
  BY LenProperties
<1>3. SubSeq(t, 1, n) = t
  BY SubSeqFull
<1>4. Len(t) = n
  OBVIOUS
<1> HIDE DEF x, l, n
<1>5. \A k \in 1..n : k \in 1..Len(t) /\ l + k \in 1..Len(x) /\ x[l + k] = t[k]
  <2> SUFFICES ASSUME NEW k \in 1..n
               PROVE  k \in 1..Len(t) /\ l + k \in 1..Len(x) /\ x[l + k] = t[k]
    OBVIOUS
  <2>1. l + k \in l + 1..l + n /\ (l + k) - l = k /\ l + k \in 1..l + n
    BY <1>2
  <2>2. x[l + k] = t[(l + k) - l]
    BY <1>1, <2>1
  <2>3. x[l + k] = t[k]
    BY <2>1, <2>2
  <2>4. l + k \in 1..Len(x) /\ k \in 1..Len(t)
    BY <1>1, <1>4, <2>1
  <2> QED
    BY <2>3, <2>4
<1>6. p = l + 1 /\ q = l + n /\ 1 \in Int /\ n \in Int /\ x \in Seq(X)
  BY <1>1, <1>2
<1> HIDE DEF p, q
<1>7. SubSeq(x, p, q) = SubSeq(t, 1, n)
  BY <1>2, <1>5, <1>6, SubSeqSame
<1> QED
  BY <1>1, <1>3, <1>6, <1>7 DEF x, l

\* The decoded request is the head with the data
LEMMA TextIs ==
    ASSUME NEW r \in Requests, NEW b, HeadThenBytes(b, r), NEW h, h = Len(HeadOf(r)),
           NEW x, x = SubSeq(b, 1, h) \o Data(r)
    PROVE  HeadThenBytes(x, r) /\ HeadEnds(x) /\ Body(x) = UpToNul(Data(r))
<1> DEFINE a == SubSeq(b, 1, h)
           d == Data(r)
<1>1. h \in Nat /\ h >= 8
  BY WireLength
<1>2. /\ b \in Seq(Item) /\ h <= Len(b) /\ Len(b) \in Nat
      /\ \A k \in 1..h : b[k] = HeadOf(r)[k]
  BY LenProperties DEF HeadThenBytes
<1>3. a \in Seq(Item) /\ Len(a) = h /\ \A k \in 1..h : a[k] = b[k]
  <2>1. \A k \in 1..h : b[k] \in Item
    BY <1>1, <1>2, ElementOfSeq
  <2>2. 1 \in Int /\ h \in Int
    BY <1>1
  <2>3. /\ a \in Seq(Item) /\ Len(a) = IF 1 <= h THEN h - 1 + 1 ELSE 0
        /\ \A k \in 1..h - 1 + 1 : a[k] = b[1 + k - 1]
    BY <2>1, <2>2, SubSeqProperties
  <2>4. h - 1 + 1 = h /\ 1 <= h /\ \A k \in 1..h : 1 + k - 1 = k
    BY <1>1
  <2> HIDE DEF a
  <2> QED
    BY <2>3, <2>4
<1>4. /\ d \in Seq(Byte) /\ d \in Seq(Item) /\ Len(d) \in Nat
      /\ \A k \in 1..Len(d) : d[k] \in Byte
  <2>1. d \in Seq(Byte) /\ Len(d) \in Nat
    BY RequestIs
  <2> HIDE DEF d
  <2>2. \A k \in 1..Len(d) : d[k] \in Byte
    BY <2>1, ElementOfSeq
  <2>3. \A k \in 1..Len(d) : d[k] \in Item
    BY <2>2, ItemsAre
  <2>4. d \in [1..Len(d) -> Byte]
    BY <2>1, LenProperties
  <2>5. d \in [1..Len(d) -> Item]
    BY <2>3, <2>4
  <2> QED
    BY <2>1, <2>2, <2>5
<1> HIDE DEF a, d
<1>5. /\ a \o d \in Seq(Item) /\ Len(a \o d) = Len(a) + Len(d)
      /\ \A k \in 1..Len(a) : (a \o d)[k] = a[k]
      /\ \A k \in Len(a) + 1..Len(a) + Len(d) : (a \o d)[k] = d[k - Len(a)]
  <2>1. a \in Seq(Item) /\ d \in Seq(Item)
    BY <1>3, <1>4
  <2> QED
    BY <2>1, JoinIs
<1>6. x = a \o d
  BY DEF a, d
<1>7. /\ x \in Seq(Item) /\ Len(x) = h + Len(d)
      /\ \A k \in 1..h : x[k] = b[k]
      /\ \A k \in h + 1..h + Len(d) : x[k] = d[k - h]
  BY <1>3, <1>5, <1>6
<1>8. HeadThenBytes(x, r)
  <2>1. \A k \in h + 1..Len(x) : x[k] \in Byte
    <3> SUFFICES ASSUME NEW k \in h + 1..Len(x) PROVE x[k] \in Byte
      OBVIOUS
    <3>1. k \in h + 1..h + Len(d) /\ k - h \in 1..Len(d)
      BY <1>1, <1>4, <1>7
    <3> QED
      BY <1>4, <1>7, <3>1
  <2>2. h <= Len(x)
    BY <1>1, <1>4, <1>7
  <2>3. \A k \in 1..h : x[k] = HeadOf(r)[k]
    BY <1>2, <1>7
  <2> QED
    BY <1>7, <2>1, <2>2, <2>3 DEF HeadThenBytes
<1>9. HeadEnds(x) /\ BodyAt(x) = h + 1
  BY <1>8, BlankFound
<1>10. SubSeq(x, h + 1, Len(x)) = d
  <2>1. SubSeq(a \o d, Len(a) + 1, Len(a \o d)) = d
    BY <1>3, <1>4, RestIs
  <2> QED
    BY <1>3, <1>6, <2>1
<1> QED
  BY <1>8, <1>9, <1>10 DEF Body, Rest, d

\* A segment with which a chunked request has its head is served with the data of
\* the request, if it is served
LEMMA ChunkedStep ==
    ASSUME FramingInv, NEW n \in Nat, n # 0, HandleClientData(n), request.kind = "chunked",
           buffer = Received, taken + n >= Len(HeadOf(request))
    PROVE  /\ \A a \in answers' : a \in answers \/ (a.status = "served" => a = Expected)
           /\ \/ buffer' = Read(n)
              \/ taken + n = Len(Wire(request))
              \/ answers' # {} /\ buffer' \in Seq(Byte)
<1> DEFINE r == request
           h == Len(HeadOf(r))
           m == taken + n
           b == Read(n)
           t == SubSeq(BodyOf(r), 1, m - h)
           x == Text(b)
<1>1. request \in Requests /\ limit \in Nat /\ taken \in 0..Len(Wire(request)) /\ Len(Wire(request)) \in Nat
  BY LimitIs, WireLength DEF FramingInv
<1>2. m <= Len(Wire(r)) /\ h <= m /\ h \in Nat
  BY <1>1, WireLength, SegmentReceived
<1>3. b = SubSeq(Wire(r), 1, m)
  BY <1>1, <1>2, ReadIs DEF Received
<1>4. m \in h..Len(Wire(r)) /\ h = Len(HeadOf(r)) /\ r \in Requests
  BY <1>1, <1>2
<1> HIDE DEF h, m, b, x
<1>5. /\ m - h \in 0..Len(BodyOf(r)) /\ Len(Wire(r)) = h + Len(BodyOf(r))
      /\ Rest(b, BodyAt(b)) = t
      /\ BodyAt(b) = h + 1 /\ HeadThenBytes(b, r) /\ Chunked(b)
  <2>1. ReadsAs(b, m, h, r)
    BY <1>3, <1>4, PrefixRead
  <2> QED
    BY <2>1 DEF ReadsAs
<1>6. Len(BodyOf(r)) \in Nat /\ Data(r) \in Seq(Byte) /\ Len(Data(r)) \in Nat /\ m \in Nat
  <2>1. m \in Nat
    BY <1>1 DEF m
  <2> QED
    BY <1>1, <2>1, BodyIs, RequestIs
<1>7. \A d \in Dechunked(t) : d = Data(r) /\ m = Len(Wire(r))
  <2>1. \A d \in Dechunked(t) : d = Data(r) /\ m - h = Len(BodyOf(r))
    BY <1>1, <1>5, DecodedData
  <2> QED
    BY <1>2, <1>5, <1>6, <2>1
<1>8. ASSUME ~BadChunks(b)
      PROVE  /\ m = Len(Wire(r)) /\ x = SubSeq(b, 1, h) \o Data(r)
             /\ HeadThenBytes(x, r) /\ Body(x) = UpToNul(Data(r)) /\ Decoded(b) = Data(r)
             /\ ~Declares(x) /\ ~Foreign(x)
  <2>1. Dechunked(t) # {}
    BY <1>5, <1>8 DEF BadChunks
  <2> DEFINE e == Decoded(b)
  <2>2. e \in Dechunked(t)
    BY <1>5, <2>1 DEF Decoded
  <2>8. x = SubSeq(b, 1, BodyAt(b) - 1) \o e
    BY <1>5 DEF Text, x
  <2> HIDE DEF e
  <2>3. e = Data(r) /\ m = Len(Wire(r))
    BY <1>7, <2>2
  <2>4. BodyAt(b) - 1 = h
    BY <1>2, <1>5
  <2>5. x = SubSeq(b, 1, h) \o Data(r)
    BY <2>3, <2>4, <2>8
  <2>6. HeadThenBytes(x, r) /\ Body(x) = UpToNul(Data(r))
    BY <1>1, <1>4, <1>5, <2>5, TextIs
  <2>7. ~Declares(x)
    <3>1. HeadSays(x, r)
      BY <1>1, <2>6, HeadRead
    <3> QED
      BY <3>1 DEF HeadSays
  <2>9. ~Foreign(x)
    BY <1>1, <2>6, WellFormed
  <2> QED
    BY <2>3, <2>5, <2>6, <2>7, <2>9 DEF e
<1>9. <<>> \in Seq(Byte)
  BY EmptySeq
<1>10. CASE RejectOverLong(n)
  BY <1>10 DEF RejectOverLong, Reply
<1>11. CASE AwaitMore(n)
  BY <1>11 DEF AwaitMore
<1>12. CASE RejectChunks(n)
  <2>1. answers' = answers \cup {[status |-> "400", body |-> <<>>]} /\ buffer' = <<>>
    BY <1>12 DEF RejectChunks, Reply
  <2>2. ASSUME NEW a \in answers', a \notin answers PROVE a.status # "served"
    <3>1. a = [status |-> "400", body |-> <<>>]
      BY <2>1, <2>2
    <3> QED
      BY <3>1
  <2>3. answers' # {}
    BY <2>1
  <2> QED
    BY <1>9, <2>1, <2>2, <2>3
<1>13. CASE RejectDecoded(n)
  <2>1. answers' = answers \cup {[status |-> "413", body |-> <<>>]} /\ buffer' = <<>>
    BY <1>13 DEF RejectDecoded, Reply
  <2>2. ASSUME NEW a \in answers', a \notin answers PROVE a.status # "served"
    <3>1. a = [status |-> "413", body |-> <<>>]
      BY <2>1, <2>2
    <3> QED
      BY <3>1
  <2>3. answers' # {}
    BY <2>1
  <2> QED
    BY <1>9, <2>1, <2>2, <2>3
<1>14. CASE RejectSyntax(n)
  <2>1. answers' = answers \cup {[status |-> "400", body |-> <<>>]} /\ buffer' = <<>>
    BY <1>14 DEF RejectSyntax, Reply
  <2>2. ASSUME NEW a \in answers', a \notin answers PROVE a.status # "served"
    <3>1. a = [status |-> "400", body |-> <<>>]
      BY <2>1, <2>2
    <3> QED
      BY <3>1
  <2>3. answers' # {}
    BY <2>1
  <2> QED
    BY <1>9, <2>1, <2>2, <2>3
<1>15. CASE RejectVersion(n)
  <2>1. m = Len(Wire(r))
    BY <1>8, <1>15 DEF RejectVersion, Parse, b
  <2> QED
    BY <1>15, <2>1 DEF RejectVersion, Reply, m
<1>16. CASE Serve(n)
  <2> DEFINE over == Declares(x) /\ TooLong(Number(Value(x), 10))
  <2>1. /\ ~BadChunks(b) /\ ~Overflows(n)
        /\ IF over THEN Reply("413", <<>>) ELSE Reply("served", Body(x))
    BY <1>16 DEF Serve, Parse, b, x
  <2>2. m = Len(Wire(r)) /\ Body(x) = UpToNul(Data(r)) /\ ~over /\ Decoded(b) = Data(r)
    BY <1>8, <2>1
  <2> HIDE DEF over
  <2>3. ~TooLong(Len(Data(r)))
    BY <1>5, <2>1, <2>2 DEF Overflows, b
  <2>4. Expected = [status |-> "served", body |-> UpToNul(Data(r))]
    BY <2>3 DEF Expected
  <2>5. answers' = answers \cup {Expected}
    BY <2>1, <2>2, <2>4 DEF Reply
  <2> QED
    BY <2>2, <2>5 DEF m
<1>17. CASE AnswerRest(n)
  BY <1>8, <1>17 DEF AnswerRest, Parse, b, x
<1> QED
  BY <1>10, <1>11, <1>12, <1>13, <1>14, <1>15, <1>16, <1>17 DEF HandleClientData, b, m

\* An answer that is not "served" serves nobody
LEMMA NotServed ==
    ASSUME NEW status, status # "served", NEW body, Reply(status, body)
    PROVE  (\A a \in answers' : a \in answers \/ a.status # "served") /\ answers' # {}
<1> DEFINE x == [status |-> status, body |-> body]
<1>1. answers' = answers \cup {x}
  BY DEF Reply
<1>2. x.status # "served"
  OBVIOUS
<1> HIDE DEF x
<1> QED
  BY <1>1, <1>2

\* A segment that comes after an answer, when the head is gone from the buffer, is
\* not served
LEMMA HeadlessStep ==
    ASSUME FramingInv, NEW n \in Nat, n # 0, HandleClientData(n), buffer \in Seq(Byte),
           taken >= Len(HeadOf(request)), answers # {}
    PROVE  /\ \A a \in answers' : a \in answers \/ a.status # "served"
           /\ answers' # {} /\ buffer' \in Seq(Byte)
<1> DEFINE r == request
           h == Len(HeadOf(r))
           w == Wire(r)
           B == BodyOf(r)
           m == taken + n
           s == SubSeq(w, taken + 1, m)
           b == Read(n)
<1>1. request \in Requests /\ taken \in 0..Len(w) /\ Len(w) \in Nat
  BY WireLength DEF FramingInv
<1>2. m <= Len(w)
  BY SegmentReceived
<1>3. /\ h \in Nat /\ Len(B) \in Nat /\ Len(w) = h + Len(B)
      /\ \A k \in 1..Len(B) : w[h + k] = B[k]
      /\ \A k \in 1..Len(B) : B[k] \in Byte
  <2> DEFINE x == HeadOf(r)
             i == Len(x)
  <2>1. /\ i \in Nat /\ i >= 8 /\ x \in Seq(Item)
        /\ w \in Seq(Item) /\ Len(B) \in Nat /\ Len(w) = i + Len(B)
        /\ \A k \in 1..i : w[k] = x[k]
        /\ \A k \in 1..Len(B) : w[i + k] = B[k]
        /\ \A k \in 1..Len(B) : B[k] \in Byte
    BY <1>1, WireIs
  <2> QED
    BY <2>1
<1>4. s \in Seq(Byte)
  <2>0. h <= taken
    OBVIOUS
  <2> HIDE DEF w, h, B
  <2>1. ASSUME NEW k \in taken + 1..m PROVE w[k] \in Byte
    <3>1. k - h \in 1..Len(B) /\ h + (k - h) = k
      BY <1>1, <1>2, <1>3, <2>0
    <3> QED
      BY <1>3, <3>1
  <2>2. taken + 1 \in Int /\ m \in Int
    BY <1>1
  <2> HIDE DEF m
  <2> QED
    BY <2>1, <2>2, SubSeqProperties
<1>5. b \in Seq(Byte)
  <2>1. b = buffer \o s
    BY DEF Read
  <2> HIDE DEF s, b
  <2> QED
    BY <1>4, <2>1, ConcatProperties
<1> HIDE DEF b
<1>6. Parse(n) => Text(b) \in Seq(Byte) /\ Foreign(Text(b))
  <2> SUFFICES ASSUME Parse(n) PROVE Text(b) \in Seq(Byte) /\ Foreign(Text(b))
    OBVIOUS
  <2>1. ~Incomplete(b) /\ ~BadChunks(b)
    BY DEF Parse, b
  <2>2. Text(b) \in Seq(Byte)
    BY <1>5, <2>1, TextType
  <2> QED
    BY <2>2, RestForeign
<1>7. <<>> \in Seq(Byte)
  BY EmptySeq
<1>8. ~RejectVersion(n) /\ ~Serve(n)
  BY <1>6 DEF RejectVersion, Serve, b
<1>9. CASE RejectOverLong(n)
  <2>1. Reply("413", <<>>) /\ buffer' = b
    BY <1>9 DEF RejectOverLong, b
  <2> QED
    BY <1>5, <2>1, NotServed
<1>10. CASE AwaitMore(n)
  BY <1>5, <1>10 DEF AwaitMore, b
<1>11. CASE RejectChunks(n) \/ RejectSyntax(n)
  <2>1. Reply("400", <<>>) /\ buffer' = <<>>
    BY <1>11 DEF RejectChunks, RejectSyntax
  <2> QED
    BY <1>7, <2>1, NotServed
<1>12. CASE RejectDecoded(n)
  <2>1. Reply("413", <<>>) /\ buffer' = <<>>
    BY <1>12 DEF RejectDecoded
  <2> QED
    BY <1>7, <2>1, NotServed
<1>13. CASE AnswerRest(n)
  <2>1. Reply("rest", <<>>) /\ buffer' = Text(b) /\ Parse(n)
    BY <1>13 DEF AnswerRest, b
  <2> QED
    BY <1>6, <2>1, NotServed
<1> QED
  BY <1>8, <1>9, <1>10, <1>11, <1>12, <1>13 DEF HandleClientData

\* Only a segment that is waited for leaves a request without an answer
LEMMA Unanswered ==
    ASSUME NEW n, HandleClientData(n), answers' = {}
    PROVE  answers = {} /\ buffer' = Read(n) /\ Incomplete(Read(n))
<1>1. ASSUME NEW s, NEW x, Reply(s, x) PROVE answers' # {}
  BY <1>1 DEF Reply
<1>2. AwaitMore(n)
  BY <1>1 DEF HandleClientData, RejectOverLong, RejectChunks, RejectDecoded,
     RejectSyntax, RejectVersion, Serve, AnswerRest
<1> QED
  BY <1>2 DEF AwaitMore

LEMMA FramingInit == Init => FramingInv
<1> SUFFICES ASSUME Init PROVE FramingInv
  OBVIOUS
<1>1. request \in Requests /\ limit \in Limits /\ taken = 0 /\ headed = FALSE /\ buffer = <<>> /\ answers = {}
  BY DEF Init
<1>2. Len(Wire(request)) \in Nat
  BY <1>1, WireLength
<1>3. SubSeq(Wire(request), 1, 0) = <<>>
  BY SubSeqEmpty
<1>4. taken \in 0..Len(Wire(request)) /\ headed \in BOOLEAN /\ ~headed /\ ~(taken > 0)
  <2> DEFINE m == Len(Wire(request))
  <2>1. m \in Nat /\ taken = 0
    BY <1>1, <1>2
  <2> HIDE DEF m
  <2>2. taken \in 0..m /\ ~(taken > 0)
    BY <2>1
  <2> QED
    BY <1>1, <2>2 DEF m
<1>5. buffer = Received
  BY <1>1, <1>3 DEF Received
<1> QED
  BY <1>1, <1>4, <1>5 DEF FramingInv

LEMMA FramingStep == FramingInv /\ [Next]_vars => FramingInv'
<1> SUFFICES ASSUME FramingInv, [Next]_vars PROVE FramingInv'
  OBVIOUS
<1> DEFINE L == Len(Wire(request))
           h == Len(HeadOf(request))
<1>1. /\ request \in Requests /\ limit \in Limits /\ taken \in 0..L /\ headed \in BOOLEAN
      /\ taken = 0 => answers = {}
      /\ answers = {} => buffer = Received
      /\ headed => taken >= h
      /\ L \in Nat /\ h \in Nat /\ h >= 8
  BY WireLength DEF FramingInv
<1>2. ASSUME NEW n \in 1..L, HandleClientData(n) PROVE FramingInv'
  <2>1. /\ request' = request /\ limit' = limit /\ taken' = taken + n /\ taken + n <= L
        /\ headed' = (headed \/ (taken = 0 /\ n >= h))
    BY <1>2, SegmentReceived
  <2>2. Expected' = Expected
    BY <2>1 DEF Expected, TooLong
  <2>3. Received' = SubSeq(Wire(request), 1, taken + n)
    BY <2>1 DEF Received
  <2>4. n \in Nat /\ n # 0 /\ taken \in Nat
    BY <1>1
  <2>5. buffer = Received => Read(n) = Received'
    BY <1>1, <2>1, <2>3, <2>4, ReadIs DEF Received
  <2> HIDE DEF L, h
  <2>6. taken + n \in 0..L /\ taken + n # 0
    BY <1>1, <2>1, <2>4
  <2>7. headed' => taken + n >= h
    BY <1>1, <2>1, <2>4
  <2>8. answers' = {} => buffer' = Received' /\ Incomplete(buffer')
    <3> SUFFICES ASSUME answers' = {} PROVE buffer' = Received' /\ Incomplete(buffer')
      OBVIOUS
    <3>1. answers = {} /\ buffer' = Read(n) /\ Incomplete(Read(n))
      BY <1>2, Unanswered
    <3> QED
      BY <1>1, <2>5, <3>1
  <2>9. headed' /\ ~headed => buffer = Received /\ answers = {}
    BY <1>1, <2>1
  <2>14. BodyHas("chunked")' = BodyHas("chunked") /\ Data(request)' = Data(request)
    BY <2>1 DEF BodyHas
  <2>10. ASSUME Plain'
         PROVE  buffer' = Received' /\ answers' \subseteq {Expected}
    <3>0. headed' /\ request.kind # "chunked" /\ ~BodyHas("chunked") /\ Len(Data(request)) <= IntMax
      BY <2>1, <2>10, <2>14 DEF Plain
    <3>1. buffer = Received /\ answers \subseteq {Expected}
      BY <2>9, <3>0 DEF FramingInv, Plain
    <3>2. taken + n >= Len(HeadOf(request))
      BY <2>7, <3>0 DEF h
    <3>3. answers' \subseteq answers \cup {Expected} /\ buffer' = Read(n)
      BY <1>2, <2>4, <3>0, <3>1, <3>2, PlainStep
    <3> QED
      BY <2>5, <3>1, <3>3
  <2>11. ASSUME Unmistaken'
         PROVE  /\ \A a \in answers' : a.status = "served" => a = Expected
                /\ \/ buffer' = Received'
                   \/ taken + n = L
                   \/ answers' # {} /\ buffer' \in Seq(Byte)
    <3>0. headed' /\ ~(request.kind = "length" /\ BodyHas("chunked"))
      BY <2>1, <2>11, <2>14 DEF Unmistaken
    <3>1. /\ \A a \in answers : a.status = "served" => a = Expected
          /\ \/ buffer = Received
             \/ headed /\ taken = Len(Wire(request))
             \/ headed /\ answers # {} /\ buffer \in Seq(Byte)
      BY <2>9, <3>0 DEF FramingInv, Unmistaken
    <3>2. taken + n >= Len(HeadOf(request))
      BY <2>7, <3>0 DEF h
    <3>3. CASE buffer = Received
      <4>1. CASE request.kind = "chunked"
        <5>1. /\ \A a \in answers' : a \in answers \/ (a.status = "served" => a = Expected)
              /\ \/ buffer' = Read(n)
                 \/ taken + n = Len(Wire(request))
                 \/ answers' # {} /\ buffer' \in Seq(Byte)
          BY <1>2, <2>4, <3>2, <3>3, <4>1, ChunkedStep
        <5> QED
          BY <2>5, <3>1, <3>3, <5>1 DEF L
      <4>2. CASE request.kind # "chunked"
        <5>1. ~BodyHas("chunked")
          BY <1>1, <3>0, <4>2, NoBody, RequestIs DEF BodyHas
        <5>2. /\ \A a \in answers' : a \in answers \/ (a.status = "served" => a = Expected)
              /\ buffer' = Read(n) \/ (answers' # {} /\ buffer' \in Seq(Byte))
          BY <1>2, <2>4, <3>2, <3>3, <4>2, <5>1, PlainStep
        <5> QED
          BY <2>5, <3>1, <3>3, <5>2
      <4> QED
        BY <4>1, <4>2
    <3>4. CASE taken = Len(Wire(request))
      BY <1>1, <2>1, <2>4, <3>4 DEF L
    <3>5. CASE headed /\ answers # {} /\ buffer \in Seq(Byte)
      <4>1. taken >= Len(HeadOf(request))
        BY <1>1, <3>5 DEF h
      <4>2. /\ \A a \in answers' : a \in answers \/ a.status # "served"
            /\ answers' # {} /\ buffer' \in Seq(Byte)
        BY <1>2, <2>4, <3>5, <4>1, HeadlessStep
      <4> QED
        BY <3>1, <4>2
    <3> QED
      BY <3>1, <3>3, <3>4, <3>5
  <2>12. headed' \in BOOLEAN
    BY <2>1
  <2>13. Wire(request)' = Wire(request) /\ HeadOf(request)' = HeadOf(request)
    BY <2>1
  <2> QED
    BY <1>1, <2>1, <2>2, <2>6, <2>7, <2>8, <2>10, <2>11, <2>12, <2>13 DEF FramingInv, L, h
<1>3. ASSUME UNCHANGED <<request, limit, taken, headed, buffer, answers>> PROVE FramingInv'
  <2>1. Expected' = Expected /\ Received' = Received /\ Wire(request)' = Wire(request)
        /\ HeadOf(request)' = HeadOf(request) /\ Incomplete(buffer)' = Incomplete(buffer)
        /\ Plain' = Plain /\ Unmistaken' = Unmistaken
    BY <1>3 DEF Expected, TooLong, Received, Plain, Unmistaken, BodyHas
  <2> QED
    BY <1>3, <2>1 DEF FramingInv
<1>4. CASE Close
  BY <1>3, <1>4 DEF Close
<1>5. CASE UNCHANGED vars
  BY <1>3, <1>5 DEF vars
<1> QED
  BY <1>2, <1>4, <1>5 DEF Next

THEOREM FramingInvariant == Spec => []FramingInv
<1>1. Init => FramingInv
  BY FramingInit
<1>2. FramingInv /\ [Next]_vars => FramingInv'
  BY FramingStep
<1> QED
  BY <1>1, <1>2, PTL DEF Spec

-----------------------------------------------------------------------------
(* The theorems                                                            *)

\* A request without chunks whose head comes in one segment, and whose body is no
\* longer than INT_MAX and has no Transfer-Encoding: chunked in it, is answered with
\* 413 if its body is longer than the limit, else served with exactly its body up to
\* the first NUL, wherever the body is cut, whatever else is in it: Content-Length:,
\* blank lines, digits (handleClientData, validateAndParseRequest).
THEOREM RequestAnsweredAsSent == Spec => []AnsweredAsSent
<1>1. FramingInv => AnsweredAsSent
  BY DEF FramingInv, AnsweredAsSent, Plain
<1> QED
  BY <1>1, FramingInvariant, PTL

\* A request whose head comes in one segment is served with its body up to the first
\* NUL or not at all: also one with a length that is no int, and a chunked one whose
\* data hold the last chunk's pattern, header names or anything else, but not one with
\* a length and Transfer-Encoding: chunked in its body (dechunkBody).
THEOREM RequestServedWhole == Spec => []ServedWhole
<1>1. FramingInv => ServedWhole
  BY DEF FramingInv, ServedWhole, Unmistaken
<1> QED
  BY <1>1, FramingInvariant, PTL

\* When all of a request has come it has been answered, however the segments were
\* cut, unless it is a chunked request without data or with Content-Length: in its
\* body, or a body with a length above INT_MAX or with Transfer-Encoding: chunked in
\* it (validateAndParseRequest).
THEOREM RequestNotWaitedFor == Spec => []NobodyWaitsInVain
<1>1. FramingInv => NobodyWaitsInVain
  <2> SUFFICES ASSUME FramingInv, taken = Len(Wire(request)), answers = {}
               PROVE  \/ request.kind = "chunked" /\ (Data(request) = <<>> \/ BodyHas("length:"))
                      \/ request.kind = "length" /\ (Len(Data(request)) > IntMax \/ BodyHas("chunked"))
    BY DEF NobodyWaitsInVain
  <2>1. request \in Requests /\ buffer = SubSeq(Wire(request), 1, Len(Wire(request)))
        /\ (taken > 0 => Incomplete(buffer))
    BY DEF FramingInv, Received
  <2>2. taken > 0
    <3> DEFINE x == HeadOf(request)
               i == Len(x)
               w == Wire(request)
               B == BodyOf(request)
    <3>1. /\ i \in Nat /\ i >= 8 /\ x \in Seq(Item)
          /\ w \in Seq(Item) /\ Len(B) \in Nat /\ Len(w) = i + Len(B)
          /\ \A k \in 1..i : w[k] = x[k]
          /\ \A k \in 1..Len(B) : w[i + k] = B[k]
          /\ \A k \in 1..Len(B) : B[k] \in Byte
      BY <2>1, WireIs
    <3> HIDE DEF w, i, B
    <3>2. taken = Len(w)
      BY DEF w
    <3> QED
      BY <3>1, <3>2
  <2> QED
    BY <2>1, <2>2, AllHasCome DEF BodyHas
<1> QED
  BY <1>1, FramingInvariant, PTL
=============================================================================
