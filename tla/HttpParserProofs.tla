------------------------- MODULE HttpParserProofs -------------------------
(***************************************************************************)
(* Proofs about module HttpParser, for messages of any length and any      *)
(* noise.                                                                  *)
(***************************************************************************)
EXTENDS HttpParser, SequenceTheorems, FiniteSetTheorems, WellFoundedInduction, TLAPS

---------------------------------------------------------------------------
(* Counting: an induction is the least element of what it would refute *)

LEMMA LeastNatural ==
  ASSUME NEW T \in SUBSET Nat, T # {}
  PROVE  \E x \in T : \A y \in T : x <= y
<1> DEFINE R == {p \in Nat \X Nat : p[1] < p[2]}
<1>1. IsWellFoundedOn(R, Nat)
  BY NatLessThanWellFounded DEF OpToRel
<1> HIDE DEF R
<1>2. \E x \in T : \A y \in T : <<y, x>> \notin R
  BY <1>1, WFMin
<1>3. \E x \in T : \A y \in T : ~(y < x)
  BY <1>2 DEF R
<1>4. T \subseteq Int
  OBVIOUS
<1> QED
  BY <1>3, <1>4

\* A set that has 0, and with each number the next one, up to n.
LEMMA CountUp ==
  ASSUME NEW n \in Nat, NEW T, 0 \in T, \A k \in 1 .. n : k - 1 \in T => k \in T
  PROVE  0 .. n \subseteq T
<1> SUFFICES ASSUME (0 .. n) \ T # {} PROVE FALSE
  OBVIOUS
<1>1. PICK x \in (0 .. n) \ T : \A y \in (0 .. n) \ T : x <= y
  <2>1. (0 .. n) \ T \in SUBSET Nat
    OBVIOUS
  <2> QED
    BY <2>1, LeastNatural
<1>2. x \in 1 .. n /\ x - 1 \in 0 .. n /\ ~(x <= x - 1)
  BY <1>1
<1> QED
  BY <1>1, <1>2

\* f is got from a by steps 1, 2, ..., n.
Stepwise(f, n, a, step) == f[0] = a /\ \A k \in 1 .. n : f[k] = step[k][f[k - 1]]

LEMMA Iterated ==
  ASSUME NEW n \in Nat, NEW S, NEW a \in S, NEW step \in [1 .. n -> [S -> S]]
  PROVE  \E f \in [0 .. n -> S] : Stepwise(f, n, a, step)
<1> DEFINE T == {m \in 0 .. n : \E f \in [0 .. m -> S] : Stepwise(f, m, a, step)}
<1>1. 0 \in T
  <2> DEFINE f == [k \in 0 .. 0 |-> a]
  <2>1. f \in [0 .. 0 -> S] /\ f[0] = a
    OBVIOUS
  <2> HIDE DEF f
  <2>2. Stepwise(f, 0, a, step)
    BY <2>1 DEF Stepwise
  <2> QED
    BY <2>1, <2>2
<1>2. ASSUME NEW m \in 1 .. n, m - 1 \in T PROVE m \in T
  <2>1. PICK f \in [0 .. m - 1 -> S] : Stepwise(f, m - 1, a, step)
    BY <1>2
  <2> DEFINE g == [k \in 0 .. m |-> IF k = m THEN step[m][f[m - 1]] ELSE f[k]]
  <2>2. g \in [0 .. m -> S]
    <3>1. m - 1 \in 0 .. m - 1 /\ f[m - 1] \in S /\ step[m][f[m - 1]] \in S
      BY <1>2
    <3>2. \A k \in 0 .. m : k # m => k \in 0 .. m - 1
      BY <1>2
    <3> QED
      BY <3>1, <3>2
  <2>3. g[0] = a
    BY <1>2, <2>1 DEF Stepwise
  <2>4. ASSUME NEW k \in 1 .. m PROVE g[k] = step[k][g[k - 1]]
    <3>1. k - 1 \in 0 .. m /\ k - 1 # m /\ k \in 0 .. m /\ g[k - 1] = f[k - 1]
      BY <1>2
    <3>2. k # m => k \in 1 .. m - 1
      BY <1>2
    <3> QED
      BY <2>1, <3>1, <3>2 DEF Stepwise
  <2> HIDE DEF g
  <2>5. Stepwise(g, m, a, step)
    BY <2>3, <2>4 DEF Stepwise
  <2> QED
    BY <1>2, <2>2, <2>5
<1>3. 0 .. n \subseteq T
  <2> HIDE DEF T
  <2> QED
    BY <1>1, <1>2, CountUp
<1> QED
  BY <1>3

---------------------------------------------------------------------------
(* Numbers *)

LEMMA DigitOfNumeral == \A n \in 0 .. 2 : Numeral[n + 1] \in Digits /\ Digit(Numeral[n + 1]) = n
<1> SUFFICES ASSUME NEW n \in 0 .. 2
             PROVE  Numeral[n + 1] \in Digits /\ Digit(Numeral[n + 1]) = n
  OBVIOUS
<1>1. Numeral[1] = "0" /\ Numeral[2] = "1" /\ Numeral[3] = "2"
  BY DEF Numeral
<1>2. n = 0 \/ n = 1 \/ n = 2
  OBVIOUS
<1>3. \A k \in 0 .. 2 : Numeral[k + 1] = Numeral[n + 1] => k = n
  <2> SUFFICES ASSUME NEW k \in 0 .. 2, Numeral[k + 1] = Numeral[n + 1] PROVE k = n
    OBVIOUS
  <2>1. k = 0 \/ k = 1 \/ k = 2
    OBVIOUS
  <2> QED
    BY <1>1, <1>2, <2>1
<1>4. Digit(Numeral[n + 1]) = n
  BY <1>3 DEF Digit
<1>5. Numeral[n + 1] \in {"0", "1", "2"}
  BY <1>1, <1>2
<1> QED
  BY <1>4, <1>5 DEF Digits, ToSet, Numeral

\* A text of digits alone is read to its end.
LEMMA DigitIsNat == \A d \in Digits : Digit(d) \in 0 .. 2
<1> SUFFICES ASSUME NEW d \in Digits PROVE Digit(d) \in 0 .. 2
  OBVIOUS
<1>1. d \in {"0", "1", "2"}
  BY DEF Digits, ToSet, Numeral
<1>2. \E n \in 0 .. 2 : Numeral[n + 1] = d
  <2>1. Numeral[0 + 1] = "0" /\ Numeral[1 + 1] = "1" /\ Numeral[2 + 1] = "2"
    BY DEF Numeral
  <2> QED
    BY <1>1, <2>1
<1> QED
  BY <1>2 DEF Digit

\* The digits that a text begins with are a number.
LEMMA UnsignedIsNat ==
  ASSUME NEW S, NEW s \in Seq(S), NEW base \in Nat
  PROVE  Unsigned(s, base) \in Nat
<1> DEFINE Longest(n) == /\ \A k \in 1 .. n : s[k] \in Digits
                         /\ n < Len(s) => s[n + 1] \notin Digits
           length == CHOOSE n \in 0 .. Len(s) : Longest(n)
<1>0. Len(s) \in Nat
  BY LenProperties
<1>1. \E n \in 0 .. Len(s) : Longest(n)
  <2> DEFINE Rest == {n \in 0 .. Len(s) : n < Len(s) => s[n + 1] \notin Digits}
  <2>1. Rest \in SUBSET Nat /\ Len(s) \in Rest
    BY <1>0
  <2>2. PICK n \in Rest : \A m \in Rest : n <= m
    <3> HIDE DEF Rest
    <3> QED
      BY <2>1, LeastNatural
  <2>3. ASSUME NEW k \in 1 .. n PROVE s[k] \in Digits
    <3>1. k - 1 \in 0 .. Len(s) /\ k - 1 < Len(s) /\ ~(n <= k - 1) /\ (k - 1) + 1 = k
      BY <1>0
    <3> QED
      BY <2>2, <3>1
  <2> QED
    BY <2>3
<1>2. length \in 0 .. Len(s) /\ Longest(length)
  BY <1>1
<1> DEFINE Step(f) == [k \in 0 .. length |->
                         IF k = 0 THEN 0 ELSE base * f[k - 1] + Digit(s[k])]
           upTo == CHOOSE f : f = Step(f)
<1>3. Unsigned(s, base) = upTo[length]
  BY DEF Unsigned
<1> HIDE DEF length
<1>4. PICK n \in Nat : n = length
  BY <1>0, <1>2
<1>5. \A k \in 1 .. n : Digit(s[k]) \in Nat
  BY <1>2, <1>4, DigitIsNat
<1>6. \E f : f = Step(f)
  <2> DEFINE step == [k \in 1 .. n |-> [m \in Nat |-> base * m + Digit(s[k])]]
  <2>1. step \in [1 .. n -> [Nat -> Nat]]
    <3>1. ASSUME NEW k \in 1 .. n, NEW m \in Nat PROVE base * m + Digit(s[k]) \in Nat
      <4>1. base * m \in Nat
        OBVIOUS
      <4> QED
        BY <1>5, <4>1
    <3> QED
      BY <3>1
  <2>2. PICK f \in [0 .. n -> Nat] : Stepwise(f, n, 0, step)
    <3> HIDE DEF step
    <3> QED
      BY <2>1, Iterated
  <2>3. \A k \in 1 .. n : f[k - 1] \in Nat /\ f[k] = base * f[k - 1] + Digit(s[k])
    <3>1. \A k \in 1 .. n : k - 1 \in 0 .. n
      OBVIOUS
    <3> QED
      BY <2>2, <3>1 DEF Stepwise
  <2>4. \A k \in 0 .. n : k # 0 => k \in 1 .. n
    OBVIOUS
  <2>5. f = [k \in 0 .. n |-> IF k = 0 THEN 0 ELSE base * f[k - 1] + Digit(s[k])]
    BY <2>2, <2>3, <2>4 DEF Stepwise
  <2> QED
    BY <1>4, <2>5
<1>7. upTo = Step(upTo)
  BY <1>6
<1> HIDE DEF upTo
<1>8. 0 .. n \subseteq {k \in 0 .. n : upTo[k] \in Nat}
  <2> DEFINE T == {k \in 0 .. n : upTo[k] \in Nat}
  <2>1. 0 \in T
    BY <1>4, <1>7
  <2>2. ASSUME NEW k \in 1 .. n, k - 1 \in T PROVE k \in T
    <3>1. upTo[k] = base * upTo[k - 1] + Digit(s[k])
      BY <1>4, <1>7
    <3>2. upTo[k - 1] \in Nat /\ Digit(s[k]) \in Nat
      BY <1>5, <2>2
    <3>3. base * upTo[k - 1] \in Nat
      BY <3>2
    <3> QED
      BY <3>1, <3>2, <3>3
  <2> HIDE DEF T
  <2>3. 0 .. n \subseteq T
    BY <2>1, <2>2, CountUp
  <2> QED
    BY <2>3 DEF T
<1> QED
  BY <1>3, <1>4, <1>8

LEMMA NumberIsInt ==
  ASSUME NEW S, NEW s \in Seq(S), NEW base \in Nat
  PROVE  /\ Number(s, base) \in Int
         /\ "-" \notin S => Number(s, base) \in Nat
<1> DEFINE Blank(n) == /\ \A k \in 1 .. n : s[k] = "SP"
                       /\ n < Len(s) => s[n + 1] # "SP"
           blanks == CHOOSE n \in 0 .. Len(s) : Blank(n)
           text == SubSeq(s, blanks + 1, Len(s))
<1>0. Len(s) \in Nat /\ \A k \in 1 .. Len(s) : s[k] \in S
  BY LenProperties, ElementOfSeq
<1>1. \E n \in 0 .. Len(s) : Blank(n)
  <2> DEFINE Rest == {n \in 0 .. Len(s) : n < Len(s) => s[n + 1] # "SP"}
  <2>1. Rest \in SUBSET Nat /\ Len(s) \in Rest
    BY <1>0
  <2>2. PICK n \in Rest : \A m \in Rest : n <= m
    <3> HIDE DEF Rest
    <3> QED
      BY <2>1, LeastNatural
  <2>3. ASSUME NEW k \in 1 .. n PROVE s[k] = "SP"
    <3>1. k - 1 \in 0 .. Len(s) /\ k - 1 < Len(s) /\ ~(n <= k - 1) /\ (k - 1) + 1 = k
      BY <1>0
    <3> QED
      BY <2>2, <3>1
  <2> QED
    BY <2>3
<1>2. blanks \in 0 .. Len(s)
  <2> HIDE DEF Blank
  <2> QED
    BY <1>1
<1>3. PICK n \in Nat : n = blanks
  BY <1>0, <1>2
<1>4. PICK t \in Seq(S) : t = text
  <2>1. \A k \in n + 1 .. Len(s) : s[k] \in S
    BY <1>0
  <2>2. SubSeq(s, n + 1, Len(s)) \in Seq(S)
    BY <1>0, <2>1, SubSeqProperties
  <2> HIDE DEF blanks
  <2> QED
    BY <1>3, <2>2
<1>5. Number(s, base) = CASE t # <<>> /\ t[1] = "-" -> -Unsigned(Tail(t), base)
                          [] t # <<>> /\ t[1] = "+" -> Unsigned(Tail(t), base)
                          [] OTHER -> Unsigned(t, base)
  BY <1>4, Zenon DEF Number
<1>6. Unsigned(t, base) \in Nat
  BY UnsignedIsNat
<1>7. ASSUME t # <<>> PROVE t[1] \in S /\ Unsigned(Tail(t), base) \in Nat
  <2>1. Len(t) \in Nat \ {0}
    BY <1>7, EmptySeq
  <2>2. Tail(t) \in Seq(S) /\ t[1] \in S
    BY <1>7, <2>1, HeadTailProperties, ElementOfSeq
  <2> QED
    BY <2>2, UnsignedIsNat
<1> HIDE DEF blanks
<1>8. CASE t # <<>> /\ t[1] = "-"
  <2>1. Number(s, base) = -Unsigned(Tail(t), base)
    BY <1>5, <1>8
  <2> QED
    BY <1>7, <1>8, <2>1
<1>9. CASE t # <<>> /\ t[1] = "+"
  <2>1. Number(s, base) = Unsigned(Tail(t), base)
    BY <1>5, <1>9
  <2> QED
    BY <1>7, <1>9, <2>1
<1>10. CASE ~(t # <<>> /\ t[1] = "-") /\ ~(t # <<>> /\ t[1] = "+")
  <2>1. Number(s, base) = Unsigned(t, base)
    BY <1>5, <1>10
  <2> QED
    BY <1>6, <2>1
<1> QED
  BY <1>8, <1>9, <1>10

LEMMA LongIsInt ==
  ASSUME NEW S, NEW s \in Seq(S), NEW base \in Nat
  PROVE  /\ strtol(s, base) \in Int
         /\ "-" \notin S => strtol(s, base) \in Nat
<1>1. PICK n \in Int : n = Number(s, base) /\ ("-" \notin S => n \in Nat)
  BY NumberIsInt
<1>2. strtol(s, base) = IF n > LongMax THEN LongMax ELSE IF n < -LongMax - 1 THEN -LongMax - 1 ELSE n
  BY <1>1 DEF strtol
<1> QED
  BY <1>1, <1>2, WidthsAssumption

\* An int is what it says, if that is an int.
LEMMA LengthIsInt ==
  ASSUME NEW S, NEW s \in Seq(S)
  PROVE  /\ atoi(s) \in Int
         /\ Number(s, 10) \in -IntMax .. IntMax => atoi(s) = Number(s, 10)
<1>1. PICK n \in Int, l \in Int : n = Number(s, 10) /\ l = strtol(s, 10)
  BY NumberIsInt, LongIsInt
<1>2. PICK m \in Nat : m = 2 * (IntMax + 1) /\ m > 0
  BY WidthsAssumption
<1>3. atoi(s) = ((l + IntMax + 1) % m) - IntMax - 1
  BY <1>1, <1>2 DEF atoi, Truncated
<1>4. PICK r \in Int : r = (l + IntMax + 1) % m
  BY <1>2, WidthsAssumption
<1>5. ASSUME n \in -IntMax .. IntMax PROVE atoi(s) = n
  <2>1. l = n
    BY <1>1, <1>5, WidthsAssumption DEF strtol
  <2>2. PICK x \in Nat : x = n + IntMax + 1 /\ x < m
    BY <1>2, <1>5, WidthsAssumption
  <2>3. x % m = x
    BY <1>2, <2>2
  <2> QED
    BY <1>3, <2>1, <2>2, <2>3, WidthsAssumption
<1>6. atoi(s) \in Int
  BY <1>3, <1>4, WidthsAssumption
<1> QED
  BY <1>1, <1>5, <1>6

---------------------------------------------------------------------------
(* Pieces of a text *)

\* Text s is the first n pieces of ss, one after the other: the kth ends at at[k].
PiecesTo(s, ss, at, n) ==
  /\ at[0] = 0 /\ Len(s) = at[n]
  /\ \A k \in 1 .. n :
       /\ at[k] = at[k - 1] + Len(ss[k]) /\ at[k] <= Len(s)
       /\ \A j \in 1 .. Len(ss[k]) : s[at[k - 1] + j] = ss[k][j]

LEMMA OnePieceMore ==
  ASSUME NEW S, NEW s \in Seq(S), NEW ss, NEW n \in Nat, NEW m \in 1 .. n,
         NEW at \in [0 .. n -> Nat], PiecesTo(s, ss, at, m - 1),
         \A k \in 1 .. n : Len(ss[k]) \in Nat,
         NEW t \in Seq(S), t = ss[m], at[m] = at[m - 1] + Len(t)
  PROVE  PiecesTo(s \o t, ss, at, m)
<1>1. /\ Len(s \o t) = Len(s) + Len(t)
      /\ \A j \in 1 .. Len(s) + Len(t) :
           (s \o t)[j] = IF j <= Len(s) THEN s[j] ELSE t[j - Len(s)]
  BY ConcatProperties
<1>2. Len(s) \in Nat /\ Len(t) \in Nat
  BY LenProperties
<1>3. at[0] = 0 /\ Len(s) = at[m - 1]
  BY DEF PiecesTo
<1>4. ASSUME NEW k \in 1 .. m
      PROVE  /\ at[k] = at[k - 1] + Len(ss[k]) /\ at[k] <= Len(s \o t)
             /\ \A j \in 1 .. Len(ss[k]) : (s \o t)[at[k - 1] + j] = ss[k][j]
  <2>1. CASE k = m
    <3>1. ASSUME NEW j \in 1 .. Len(t) PROVE (s \o t)[Len(s) + j] = t[j]
      <4>1. /\ Len(s) + j \in 1 .. Len(s) + Len(t) /\ ~(Len(s) + j <= Len(s))
            /\ (Len(s) + j) - Len(s) = j
        BY <1>2
      <4> QED
        BY <1>1, <4>1
    <3>2. at[m] = at[m - 1] + Len(t) /\ at[m] = Len(s \o t) /\ at[m] <= Len(s \o t)
      BY <1>1, <1>2, <1>3
    <3>3. \A j \in 1 .. Len(t) : (s \o t)[at[m - 1] + j] = t[j]
      BY <1>3, <3>1
    <3> QED
      BY <2>1, <3>2, <3>3
  <2>2. CASE k # m
    <3>1. k \in 1 .. m - 1 /\ k \in 0 .. n /\ k - 1 \in 0 .. n
      BY <2>2
    <3>2. /\ at[k] = at[k - 1] + Len(ss[k]) /\ at[k] <= Len(s)
          /\ \A j \in 1 .. Len(ss[k]) : s[at[k - 1] + j] = ss[k][j]
      BY <3>1 DEF PiecesTo
    <3>3. PICK l \in Nat : l = Len(ss[k])
      BY <3>1
    <3>4. ASSUME NEW j \in 1 .. l PROVE (s \o t)[at[k - 1] + j] = ss[k][j]
      <4>1. PICK x \in Nat : x = at[k - 1]
        BY <3>1
      <4>2. x + l <= Len(s)
        BY <3>2, <3>3, <4>1
      <4>3. x + j \in 1 .. Len(s) + Len(t) /\ x + j <= Len(s)
        BY <1>2, <4>2
      <4>4. (s \o t)[x + j] = s[x + j]
        BY <1>1, <4>3
      <4> QED
        BY <3>2, <3>3, <4>1, <4>4
    <3>5. at[k] <= Len(s \o t)
      <4>1. PICK x \in Nat : x = at[k]
        BY <3>1
      <4>2. x <= Len(s)
        BY <3>2, <4>1
      <4>3. x <= Len(s) + Len(t)
        BY <1>2, <4>2
      <4> QED
        BY <1>1, <4>1, <4>3
    <3> QED
      BY <3>2, <3>3, <3>4, <3>5
  <2> QED
    BY <2>1, <2>2
<1>5. Len(s \o t) = at[m]
  BY <1>1, <1>3
<1> QED
  BY <1>3, <1>4, <1>5 DEF PiecesTo

\* text[k] is the first k pieces of ss, joined one by one.
Joins(text, ss, n, S) ==
  /\ text \in [0 .. n -> Seq(S)] /\ text[0] = <<>> /\ FlattenSeq(ss) = text[n]
  /\ \A k \in 1 .. n : text[k] = text[k - 1] \o ss[k]

LEMMA JoinedPieces ==
  ASSUME NEW S, NEW ss \in Seq(Seq(S)), NEW n \in Nat, n = Len(ss)
  PROVE  \E text : Joins(text, ss, n, S)
<1>1. \A k \in 1 .. n : ss[k] \in Seq(S) /\ Len(ss[k]) \in Nat
  <2>1. \A k \in 1 .. n : ss[k] \in Seq(S)
    BY ElementOfSeq
  <2> QED
    BY <2>1, LenProperties
<1>2. PICK text \in [0 .. n -> Seq(S)] :
        text[0] = <<>> /\ \A k \in 1 .. n : text[k] = text[k - 1] \o ss[k]
  <2> DEFINE step == [k \in 1 .. n |-> [t \in Seq(S) |-> t \o ss[k]]]
  <2>1. step \in [1 .. n -> [Seq(S) -> Seq(S)]] /\ <<>> \in Seq(S)
    <3>1. \A k \in 1 .. n, t \in Seq(S) : t \o ss[k] \in Seq(S)
      BY <1>1, ConcatProperties
    <3> QED
      BY <3>1, EmptySeq
  <2>2. PICK f \in [0 .. n -> Seq(S)] : Stepwise(f, n, <<>>, step)
    <3> HIDE DEF step
    <3> QED
      BY <2>1, Iterated
  <2>3. ASSUME NEW k \in 1 .. n PROVE f[k] = f[k - 1] \o ss[k]
    <3>1. PICK t \in Seq(S) : t = f[k - 1]
      <4>1. k - 1 \in 0 .. n
        OBVIOUS
      <4> QED
        BY <4>1
    <3>2. f[k] = step[k][t]
      BY <2>2, <3>1 DEF Stepwise
    <3> QED
      BY <3>1, <3>2
  <2> QED
    BY <2>2, <2>3 DEF Stepwise
<1>3. FlattenSeq(ss) = text[n]
  <2>1. CASE n = 0
    <3>1. ss = <<>>
      BY <2>1, EmptySeq
    <3> QED
      BY <1>2, <2>1, <3>1 DEF FlattenSeq
  <2>2. CASE n # 0
    <3> DEFINE Joined(f) == [i \in 1 .. Len(ss) |-> IF i = 1 THEN ss[i] ELSE f[i - 1] \o ss[i]]
               flatten == CHOOSE f : f = Joined(f)
    <3>1. FlattenSeq(ss) = flatten[Len(ss)]
      BY <2>2 DEF FlattenSeq
    <3>2. ASSUME n \in 1 .. n, 1 \in 1 .. n PROVE text[1] = ss[1]
      <4>1. text[1] = text[1 - 1] \o ss[1]
        BY <1>2, <3>2
      <4>2. text[1 - 1] = <<>>
        BY <1>2
      <4>3. <<>> \o ss[1] = ss[1]
        BY <1>1, <3>2, ConcatEmptySeq
      <4> QED
        BY <4>1, <4>2, <4>3
    <3>3. n \in 1 .. n /\ 1 \in 1 .. n
      BY <2>2
    <3>4. \E f : f = Joined(f)
      <4> DEFINE g == [i \in 1 .. n |-> text[i]]
      <4>1. \A i \in 1 .. n : i # 1 => i - 1 \in 1 .. n
        OBVIOUS
      <4>2. ASSUME NEW i \in 1 .. n
            PROVE  g[i] = IF i = 1 THEN ss[i] ELSE g[i - 1] \o ss[i]
        <5>1. g[i] = text[i] /\ (i # 1 => g[i - 1] = text[i - 1])
          BY <4>1
        <5>2. text[i] = text[i - 1] \o ss[i]
          BY <1>2
        <5>3. text[1] = ss[1]
          BY <3>2, <3>3, Zenon
        <5> HIDE DEF g
        <5> QED
          BY <5>1, <5>2, <5>3, Zenon
      <4>3. g = [i \in 1 .. n |-> IF i = 1 THEN ss[i] ELSE g[i - 1] \o ss[i]]
        <5>1. g = [i \in 1 .. n |-> g[i]]
          OBVIOUS
        <5> HIDE DEF g
        <5> QED
          BY <4>2, <5>1, Zenon
      <4> HIDE DEF g
      <4> QED
        BY <4>3
    <3>5. flatten = Joined(flatten)
      BY <3>4
    <3> HIDE DEF flatten
    <3>6. \A i \in 1 .. n : flatten[i] = IF i = 1 THEN ss[i] ELSE flatten[i - 1] \o ss[i]
      BY <3>5
    <3> DEFINE T == {i \in 0 .. n : i # 0 => flatten[i] = text[i]}
    <3>7. 0 \in T
      OBVIOUS
    <3>8. ASSUME NEW i \in 1 .. n, i - 1 \in T PROVE i \in T
      <4>1. i - 1 # 0 => flatten[i - 1] = text[i - 1]
        BY <3>8
      <4>2. CASE i = 1
        <5>1. flatten[1] = ss[1]
          BY <3>6, <4>2
        <5>2. text[1] = ss[1]
          BY <3>2, <3>3, Zenon
        <5>3. flatten[i] = text[i]
          BY <4>2, <5>1, <5>2, Zenon
        <5> QED
          BY <5>3
      <4>3. CASE i # 1
        <5>1. flatten[i] = flatten[i - 1] \o ss[i] /\ text[i] = text[i - 1] \o ss[i]
          BY <1>2, <3>6, <4>3
        <5>2. i - 1 # 0
          BY <4>3
        <5>3. flatten[i] = text[i]
          BY <4>1, <5>1, <5>2, Zenon
        <5> QED
          BY <5>3
      <4> QED
        BY <4>2, <4>3
    <3>9. 0 .. n \subseteq T
      <4> HIDE DEF T
      <4> QED
        BY <3>7, <3>8, CountUp
    <3>10. flatten[n] = text[n]
      <4>1. n \in T
        BY <3>9
      <4> QED
        BY <2>2, <4>1
    <3> QED
      BY <3>1, <3>10
  <2> QED
    BY <2>1, <2>2
<1>4. Joins(text, ss, n, S)
  BY <1>2, <1>3 DEF Joins
<1> QED
  BY <1>4

LEMMA FlattenedPieces ==
  ASSUME NEW S, NEW ss \in Seq(Seq(S))
  PROVE  /\ FlattenSeq(ss) \in Seq(S)
         /\ \E at \in [0 .. Len(ss) -> Nat] : PiecesTo(FlattenSeq(ss), ss, at, Len(ss))
<1>0. PICK n \in Nat : n = Len(ss)
  BY LenProperties
<1>1. \A k \in 1 .. n : ss[k] \in Seq(S) /\ Len(ss[k]) \in Nat
  <2>1. \A k \in 1 .. n : ss[k] \in Seq(S)
    BY <1>0, ElementOfSeq
  <2> QED
    BY <2>1, LenProperties
<1>2. PICK text \in [0 .. n -> Seq(S)] :
        /\ text[0] = <<>> /\ FlattenSeq(ss) = text[n]
        /\ \A k \in 1 .. n : text[k] = text[k - 1] \o ss[k]
  <2>1. PICK text : Joins(text, ss, n, S)
    BY <1>0, JoinedPieces
  <2> QED
    BY <2>1 DEF Joins
<1>3. PICK at \in [0 .. n -> Nat] :
        at[0] = 0 /\ \A k \in 1 .. n : at[k] = at[k - 1] + Len(ss[k])
  <2> DEFINE step == [k \in 1 .. n |-> [m \in Nat |-> m + Len(ss[k])]]
  <2>1. step \in [1 .. n -> [Nat -> Nat]] /\ 0 \in Nat
    BY <1>1
  <2>2. PICK f \in [0 .. n -> Nat] : Stepwise(f, n, 0, step)
    <3> HIDE DEF step
    <3> QED
      BY <2>1, Iterated
  <2>3. ASSUME NEW k \in 1 .. n PROVE f[k] = f[k - 1] + Len(ss[k])
    <3>1. PICK t \in Nat : t = f[k - 1]
      <4>1. k - 1 \in 0 .. n
        OBVIOUS
      <4> QED
        BY <4>1
    <3>2. f[k] = step[k][t]
      BY <2>2, <3>1 DEF Stepwise
    <3> QED
      BY <3>1, <3>2
  <2> QED
    BY <2>2, <2>3 DEF Stepwise
<1>4. PiecesTo(text[n], ss, at, n)
  <2> DEFINE T == {m \in 0 .. n : PiecesTo(text[m], ss, at, m)}
  <2>1. 0 \in T
    BY <1>2, <1>3, EmptySeq DEF PiecesTo
  <2>2. ASSUME NEW m \in 1 .. n, m - 1 \in T PROVE m \in T
    <3>1. PICK s \in Seq(S), t \in Seq(S) : s = text[m - 1] /\ t = ss[m]
      <4>1. m - 1 \in 0 .. n
        OBVIOUS
      <4> QED
        BY <1>1, <4>1
    <3>2. PiecesTo(s, ss, at, m - 1) /\ at[m] = at[m - 1] + Len(t)
      BY <1>3, <2>2, <3>1
    <3>3. PiecesTo(s \o t, ss, at, m)
      BY <1>1, <3>1, <3>2, OnePieceMore
    <3>4. text[m] = s \o t
      BY <1>2, <3>1
    <3>5. PiecesTo(text[m], ss, at, m)
      BY <3>3, <3>4, Zenon
    <3> QED
      BY <3>5
  <2>3. 0 .. n \subseteq T
    <3> HIDE DEF T
    <3> QED
      BY <2>1, <2>2, CountUp
  <2> QED
    BY <2>3
<1>5. n \in 0 .. n
  OBVIOUS
<1> QED
  BY <1>0, <1>2, <1>4, <1>5

---------------------------------------------------------------------------
(* The inductive invariant of a parser, whatever it is given *)

StartStates ==
  {"RequestMethodStart", "RequestUri", "RequestHttpVersion_h",
   "RequestHttpVersion_minor", "ResponseStatusStart", "ResponseHttpVersion_minor",
   "ResponseHttpVersion_statusCodeStart", "ResponseHttpVersion_statusCode",
   "ResponseHttpVersion_statusTextStart", "ResponseHttpVersion_statusText",
   "HttpVersion_newLine"}

\* The last header is being read.
Partial == {"HeaderName", "SpaceBeforeHeaderValue", "HeaderValue"}

HeaderStates ==
  Partial \cup {"HeaderLineStart", "HeaderLws", "ExpectingNewline_2", "ExpectingNewline_3"}

ChunkStates ==
  {"ChunkSize", "ChunkExtensionName", "ChunkExtensionValue", "ChunkTrailerValue",
   "ChunkSizeNewLine", "ChunkSizeNewLine_2", "ChunkSizeNewLine_3", "ChunkTrailerName",
   "ChunkData", "ChunkDataNewLine_1", "ChunkDataNewLine_2"}

States == StartStates \cup HeaderStates \cup {"Post"} \cup ChunkStates

\* What a parser is given: any string.  (That the strings written here are in
\* STRING is not known to the provers.)
Lexemes ==
  STRING \cup Tokens \cup Requests \cup
    {"CR", "LF", "SP", ":", "semicolon", "=", "HTTP/1.1", "OK", "private"}

\* A header as the parser takes it apart: its value may be folded, but the
\* line ends that fold it are left out.
Name == Seq(Tokens) \ {<<>>}
Value == Seq(Lexemes \ {"CR", "LF"})
Field == [name : Name, value : Value]

Parser ==
  [method : Requests \cup {"none"}, state : States, statusCode : Nat,
   status : Seq(Lexemes), headers : Seq(Field),
   content : Seq(Lexemes), result : {"incomplete", "completed", "error"},
   contentSize : Nat, chunkSizeStr : Seq(Alnum), chunkSize : Nat, chunked : BOOLEAN]

\* What the parser has made of a header it has read.
FramedAs(h, chunked) ==
  /\ h.name = <<"Content-Length">> => atoi(h.value) >= 0
  /\ h.name = <<"Transfer-Encoding">> /\ h.value = <<"chunked">> => chunked = TRUE

\* The headers of which the end has been read.
Complete(p) == IF p.state \in Partial THEN Front(p.headers) ELSE p.headers

StateOK(p) ==
  /\ p.state \in StartStates => p.headers = <<>> /\ p.contentSize = 0 /\ p.chunked = FALSE
  /\ p.state \in StartStates \cup HeaderStates => p.content = <<>>
  /\ p.state \in Partial \cup {"HeaderLws"} => p.headers # <<>>
  /\ p.state \in Partial => p.result # "completed"
  /\ p.state \in ChunkStates => p.chunked = TRUE
  /\ p.state = "Post" => p.chunked = FALSE
  /\ p.state = "Post" /\ p.result = "incomplete" => p.contentSize > 0
  /\ p.state = "ChunkData" => p.chunkSize > 0
  /\ p.method = "GET" => p.contentSize = 0 /\ p.chunked = FALSE

\* Of a parser that reads a body, if its headers announce one.
FramingOK(p) ==
  /\ \A k \in DOMAIN Complete(p) : FramedAs(Complete(p)[k], p.chunked)
  /\ p.result = "completed" /\ p.chunked = FALSE => p.contentSize = 0
  /\ p.state = "HeaderName" /\ p.chunked = FALSE => p.contentSize = Length(Front(p.headers))
  /\ /\ p.state \in {"SpaceBeforeHeaderValue", "HeaderValue"} /\ p.chunked = FALSE
     /\ Last(p.headers).name # <<"Content-Length">>
     => p.contentSize = Length(p.headers)
  /\ p.state \notin Partial /\ p.chunked = FALSE =>
       p.contentSize + Len(p.content) = Length(p.headers)

ParserOK(p) ==
  /\ p \in Parser /\ StateOK(p)
  /\ p.result # "error" /\ p.method # "GET" => FramingOK(p)

---------------------------------------------------------------------------
(* Lists of headers *)

\* The list before the last element, and the last element.
LEMMA Appended ==
  ASSUME NEW S, NEW s \in Seq(S), NEW x \in S
  PROVE  /\ Append(s, x) \in Seq(S) /\ Append(s, x) # <<>>
         /\ Front(Append(s, x)) = s /\ Last(Append(s, x)) = x
<1>0. Len(s) \in Nat
  BY LenProperties
<1>1. PICK t \in Seq(S) : t = Append(s, x)
  BY AppendProperties
<1>2. /\ t # <<>> /\ Len(t) = Len(s) + 1 /\ t[Len(s) + 1] = x
      /\ \A i \in 1 .. Len(s) : t[i] = s[i]
  BY <1>1, AppendProperties
<1>3. \A i \in 1 .. Len(s) : t[i] \in S
  BY <1>2, ElementOfSeq
<1>4. /\ SubSeq(t, 1, Len(s)) \in Seq(S) /\ Len(SubSeq(t, 1, Len(s))) = Len(s)
      /\ \A i \in 1 .. Len(s) : SubSeq(t, 1, Len(s))[i] = t[1 + i - 1]
  BY <1>0, <1>3, SubSeqProperties
<1>5. \A i \in 1 .. Len(s) : 1 + i - 1 = i
  BY <1>0
<1>6. SubSeq(t, 1, Len(s)) = s
  BY <1>2, <1>4, <1>5, SeqEqual
<1>7. Front(t) = SubSeq(t, 1, Len(s))
  BY <1>0, <1>2 DEF Front
<1> QED
  BY <1>1, <1>2, <1>6, <1>7 DEF Last

LEMMA FrontAndLast ==
  ASSUME NEW S, NEW s \in Seq(S), s # <<>>
  PROVE  /\ Front(s) \in Seq(S) /\ Last(s) \in S
         /\ s = Append(Front(s), Last(s))
         /\ \A x \in S : [s EXCEPT ![Len(s)] = x] = Append(Front(s), x)
<1>1. Len(s) \in Nat \ {0}
  BY EmptySeq
<1>2. \A i \in 1 .. Len(s) : s[i] \in S
  BY ElementOfSeq
<1>3. PICK n \in Nat : n = Len(s) - 1 /\ n + 1 = Len(s)
  BY <1>1
<1>4. PICK f \in Seq(S) : /\ f = Front(s) /\ Len(f) = n
                          /\ \A i \in 1 .. n : f[i] = s[i]
  <2>1. \A i \in 1 .. n : s[i] \in S
    BY <1>2, <1>3
  <2>2. /\ SubSeq(s, 1, n) \in Seq(S) /\ Len(SubSeq(s, 1, n)) = n
        /\ \A i \in 1 .. n : SubSeq(s, 1, n)[i] = s[1 + i - 1]
    BY <2>1, SubSeqProperties
  <2>3. \A i \in 1 .. n : 1 + i - 1 = i
    OBVIOUS
  <2> QED
    BY <1>3, <2>2, <2>3 DEF Front
<1>5. Last(s) \in S
  BY <1>1, <1>2 DEF Last
<1>6. ASSUME NEW x \in S, NEW t \in Seq(S), Len(t) = Len(s), t[Len(s)] = x,
             \A i \in 1 .. n : t[i] = s[i]
      PROVE  t = Append(f, x)
  <2>1. PICK u \in Seq(S) : u = Append(f, x)
    BY AppendProperties
  <2>2. Len(u) = n + 1 /\ u[n + 1] = x /\ \A i \in 1 .. n : u[i] = f[i]
    BY <1>4, <2>1, AppendProperties
  <2>3. ASSUME NEW i \in 1 .. Len(t) PROVE t[i] = u[i]
    <3>1. i \in 1 .. n \/ i = n + 1
      BY <1>3, <1>6
    <3> QED
      BY <1>3, <1>4, <1>6, <2>2, <3>1
  <2> QED
    BY <1>3, <1>6, <2>1, <2>2, <2>3, SeqEqual
<1>7. s = Append(f, Last(s))
  <2>1. PICK x \in S : x = Last(s) /\ x = s[Len(s)]
    BY <1>5 DEF Last
  <2>2. s = Append(f, x)
    BY <1>6, <2>1
  <2> QED
    BY <2>1, <2>2
<1>8. ASSUME NEW x \in S PROVE [s EXCEPT ![Len(s)] = x] = Append(f, x)
  <2>1. Len(s) \in 1 .. Len(s)
    BY <1>1
  <2>2. PICK t \in Seq(S) : t = [s EXCEPT ![Len(s)] = x]
    BY <2>1, ExceptSeq
  <2>3. Len(t) = Len(s) /\ \A j \in 1 .. Len(s) : t[j] = IF j = Len(s) THEN x ELSE s[j]
    BY <2>1, <2>2, ExceptSeq
  <2>4. t[Len(s)] = x
    BY <2>1, <2>3
  <2>5. ASSUME NEW i \in 1 .. n PROVE t[i] = s[i]
    <3>1. i \in 1 .. Len(s) /\ i # Len(s)
      BY <1>3
    <3> QED
      BY <2>3, <3>1
  <2> QED
    BY <1>6, <2>2, <2>3, <2>4, <2>5
<1> QED
  BY <1>4, <1>5, <1>7, <1>8

\* The length announced with one header more.
LEMMA LengthOfAppended ==
  ASSUME NEW hs \in Seq(Field), NEW h \in Field
  PROVE  Length(Append(hs, h)) =
           IF h.name = <<"Content-Length">> THEN atoi(h.value) ELSE Length(hs)
<1>0. PICK n \in Nat : n = Len(hs) /\ DOMAIN hs = 1 .. n
  BY LenProperties
<1>1. PICK gs \in Seq(Field) : gs = Append(hs, h)
  BY AppendProperties
<1>2. /\ Len(gs) = n + 1 /\ gs[n + 1] = h /\ \A i \in 1 .. n : gs[i] = hs[i]
      /\ DOMAIN gs = 1 .. n + 1
  BY <1>0, <1>1, AppendProperties, LenProperties
<1> DEFINE Named(fs) == {k \in DOMAIN fs : fs[k].name = <<"Content-Length">>}
<1>3. CASE h.name = <<"Content-Length">>
  <2>1. n + 1 \in Named(gs) /\ \A k \in Named(gs) : k \in Int /\ n + 1 >= k
    BY <1>2, <1>3
  <2>2. Max(Named(gs)) = n + 1
    <3> HIDE DEF Named
    <3>1. \A m \in Named(gs) : (\A k \in Named(gs) : m >= k) => m = n + 1
      BY <2>1
    <3> QED
      BY <2>1, <3>1 DEF Max
  <2>3. Length(gs) = atoi(gs[n + 1].value)
    BY <2>1, <2>2 DEF Length, Announcing
  <2> QED
    BY <1>1, <1>2, <1>3, <2>3
<1>4. CASE h.name # <<"Content-Length">>
  <2>1. Named(gs) = Named(hs)
    <3>1. \A k \in 1 .. n + 1 : k \in 1 .. n \/ k = n + 1
      OBVIOUS
    <3>2. \A k \in 1 .. n : k \in 1 .. n + 1
      OBVIOUS
    <3> QED
      BY <1>0, <1>2, <1>4, <3>1, <3>2
  <2>2. CASE Named(hs) = {}
    BY <1>1, <1>4, <2>1, <2>2 DEF Length, Announcing
  <2>3. CASE Named(hs) # {}
    <3>1. Max(Named(hs)) \in 1 .. n
      <4>1. Named(hs) \in SUBSET Nat
        BY <1>0
      <4>2. PICK m \in {n - k : k \in Named(hs)} :
              \A l \in {n - k : k \in Named(hs)} : m <= l
        <5>1. {n - k : k \in Named(hs)} \in SUBSET Nat
          BY <1>0
        <5>2. {n - k : k \in Named(hs)} # {}
          BY <2>3
        <5> HIDE DEF Named
        <5> QED
          BY <5>1, <5>2, LeastNatural
      <4>3. PICK x \in Named(hs) : m = n - x
        BY <4>2
      <4>4. ASSUME NEW k \in Named(hs) PROVE x >= k
        <5>1. n - x <= n - k
          BY <4>2, <4>3
        <5>2. x \in Int /\ k \in Int
          BY <1>0
        <5> QED
          BY <5>1, <5>2
      <4>5. Max(Named(hs)) \in Named(hs)
        <5> HIDE DEF Named
        <5> QED
          BY <4>3, <4>4 DEF Max
      <4> QED
        BY <1>0, <4>5
    <3>2. Length(gs) = atoi(gs[Max(Named(hs))].value)
      BY <2>1, <2>3 DEF Length, Announcing
    <3>3. Length(hs) = atoi(hs[Max(Named(hs))].value)
      BY <2>3 DEF Length, Announcing
    <3> HIDE DEF Named
    <3> QED
      BY <1>1, <1>2, <1>4, <3>1, <3>2, <3>3
  <2> QED
    BY <2>2, <2>3
<1> QED
  BY <1>3, <1>4

LEMMA LastAnnounces ==
  ASSUME NEW hs \in Seq(Field), Announcing(hs) # {}
  PROVE  /\ Max(Announcing(hs)) \in DOMAIN hs /\ hs[Max(Announcing(hs))] \in Field
         /\ hs[Max(Announcing(hs))].name = <<"Content-Length">>
<1>1. PICK n \in Nat : DOMAIN hs = 1 .. n /\ \A k \in 1 .. n : hs[k] \in Field
  BY LenProperties, ElementOfSeq
<1> DEFINE Before == {n - k : k \in Announcing(hs)}
<1>2. Announcing(hs) \subseteq 1 .. n /\ \A k \in Announcing(hs) : hs[k].name = <<"Content-Length">>
  BY <1>1 DEF Announcing
<1>3. PICK m \in Before : \A l \in Before : m <= l
  <2>1. Before \in SUBSET Nat /\ Before # {}
    BY <1>2
  <2> HIDE DEF Before
  <2> QED
    BY <2>1, LeastNatural
<1>4. PICK x \in Announcing(hs) : m = n - x
  BY <1>3
<1>5. ASSUME NEW k \in Announcing(hs) PROVE x >= k
  <2>1. n - x <= n - k /\ x \in Int /\ k \in Int
    BY <1>2, <1>3, <1>4
  <2> QED
    BY <2>1
<1>6. Max(Announcing(hs)) \in Announcing(hs)
  BY <1>4, <1>5 DEF Max
<1> QED
  BY <1>1, <1>2, <1>6

LEMMA LengthOfNothing == Length(<<>>) = 0
<1>1. DOMAIN <<>> = {}
  OBVIOUS
<1> QED
  BY <1>1 DEF Length, Announcing

---------------------------------------------------------------------------
(* The steps of a parser *)

\* A step outside the headers: what is left of the body and what has been read
\* of it make the same length as before.
LEMMA HeadersKept ==
  ASSUME NEW p \in Parser, ParserOK(p), p.result = "incomplete", p.state \notin Partial,
         NEW q \in Parser, StateOK(q), q.state \notin Partial,
         q.method = p.method \/ p.state \in StartStates,
         q.headers = p.headers, q.chunked = p.chunked,
         q.chunked = TRUE \/ q.contentSize + Len(q.content) = p.contentSize + Len(p.content),
         q.result = "completed" /\ q.chunked = FALSE => q.contentSize = 0
  PROVE  ParserOK(q)
<1>1. p \in Parser /\ StateOK(p) /\ (p.method # "GET" => FramingOK(p))
  BY DEF ParserOK
<1>2. CASE p.state \notin StartStates
  <2>1. Complete(q) = Complete(p)
    BY DEF Complete
  <2>2. p.method # "GET" => FramingOK(q)
    BY <1>1, <2>1 DEF FramingOK, Partial
  <2> QED
    BY <1>1, <1>2, <2>2 DEF ParserOK
<1>3. CASE p.state \in StartStates
  <2>1. p.headers = <<>> /\ p.content = <<>> /\ p.contentSize = 0
    BY <1>1, <1>3 DEF StateOK
  <2>2. DOMAIN Complete(q) = {}
    BY <2>1 DEF Complete
  <2>3. Length(q.headers) = 0 /\ (q.chunked = FALSE => q.contentSize + Len(q.content) = 0)
    BY <2>1, LengthOfNothing, EmptySeq
  <2>4. FramingOK(q)
    BY <2>2, <2>3 DEF FramingOK, Partial
  <2> QED
    BY <2>4 DEF ParserOK
<1> QED
  BY <1>2, <1>3

LEMMA ErrorOK ==
  ASSUME NEW p \in Parser, ParserOK(p)
  PROVE  ParserOK(Error(p))
BY DEF ParserOK, Parser, Error, StateOK

\* What a step in the start line changes.
Started(p, state, method, result, code, status) ==
  [p EXCEPT !.state = state, !.method = method, !.result = result, !.statusCode = code,
            !.status = status]

LEMMA StartedIs ==
  ASSUME NEW p \in Parser
  PROVE  /\ p.method \in Requests \cup {"none"} /\ p.statusCode \in Nat
         /\ p.status \in Seq(Lexemes)
         /\ p = Started(p, p.state, p.method, p.result, p.statusCode, p.status)
         /\ Completed(p) = Started(p, p.state, p.method, "completed", p.statusCode, p.status)
         /\ \A s : To(p, s) = Started(p, s, p.method, p.result, p.statusCode, p.status)
         /\ \A s : To(p, s).status = p.status
  BY DEF Started, To, Completed, Parser

\* The code of a status stays a number, and the status a text.
LEMMA StatusGrows ==
  ASSUME NEW p \in Parser, NEW c \in Lexemes
  PROVE  /\ Append(p.status, c) \in Seq(Lexemes)
         /\ c \in Digits => Digit(c) \in Nat /\ AddDigit(p.statusCode, c) \in Nat
<1>1. p.status \in Seq(Lexemes) /\ p.statusCode \in Nat
  BY DEF Parser
<1>2. ASSUME c \in Digits PROVE Digit(c) \in Nat /\ AddDigit(p.statusCode, c) \in Nat
  <2>1. Digit(c) \in Nat
    BY <1>2, DigitIsNat
  <2>2. PICK m \in Nat : m = 2 * (IntMax + 1) /\ m > 0
    BY WidthsAssumption
  <2>3. PICK x \in Nat : x = 10 * p.statusCode + Digit(c)
    BY <1>1, <2>1
  <2>4. x % m \in Nat
    BY <2>2
  <2> QED
    BY <2>1, <2>2, <2>3, <2>4 DEF AddDigit
<1> QED
  BY <1>1, <1>2, AppendProperties

LEMMA StartLineOK ==
  ASSUME NEW p \in Parser, ParserOK(p), p.result = "incomplete", NEW c \in Lexemes,
         p.state \in StartStates
  PROVE  ParserOK(consume(p, c))
<1> DEFINE S == StartStates \cup {"HeaderLineStart"}
           M == Requests \cup {"none"}
           Goes(q) == \E s \in S, m \in M, r \in {"incomplete", "completed"},
                        code \in Nat, text \in Seq(Lexemes) :
                        q = Started(p, s, m, r, code, text)
<1>1. p \in Parser /\ StateOK(p)
  BY DEF ParserOK
<1>2. p.method \in M /\ p.statusCode \in Nat /\ p.status \in Seq(Lexemes) /\ p.state \in S
  BY StartedIs
<1>3. /\ Goes(p) /\ Goes(Completed(p)) /\ \A s \in S : Goes(To(p, s))
      /\ \A s \in S, m \in M : Goes([To(p, s) EXCEPT !.method = m])
      /\ \A s \in S, code \in Nat : Goes([To(p, s) EXCEPT !.statusCode = code])
      /\ \A code \in Nat : Goes([p EXCEPT !.statusCode = code])
      /\ \A s \in S, text \in Seq(Lexemes) : Goes([To(p, s) EXCEPT !.status = text])
      /\ \A text \in Seq(Lexemes) : Goes([p EXCEPT !.status = text])
  <2>1. \A s \in S, m \in M, r \in {"incomplete", "completed"}, code \in Nat,
           text \in Seq(Lexemes) : Goes(Started(p, s, m, r, code, text))
    OBVIOUS
  <2>2. p.result = "incomplete"
    OBVIOUS
  <2> HIDE DEF S, M, Goes
  <2>3. Goes(p) /\ Goes(Completed(p)) /\ \A s \in S : Goes(To(p, s))
    BY <1>2, <2>1, <2>2, StartedIs
  <2>4. ASSUME NEW s \in S, NEW m \in M PROVE Goes([To(p, s) EXCEPT !.method = m])
    <3>1. [To(p, s) EXCEPT !.method = m] = Started(p, s, m, p.result, p.statusCode, p.status)
      BY DEF Started, To, Parser
    <3> QED
      BY <1>2, <2>1, <2>2, <3>1
  <2>5. ASSUME NEW s \in S, NEW code \in Nat
        PROVE  /\ Goes([To(p, s) EXCEPT !.statusCode = code])
               /\ Goes([p EXCEPT !.statusCode = code])
    <3>1. /\ [To(p, s) EXCEPT !.statusCode = code]
               = Started(p, s, p.method, p.result, code, p.status)
          /\ [p EXCEPT !.statusCode = code]
               = Started(p, p.state, p.method, p.result, code, p.status)
      BY DEF Started, To, Parser
    <3> QED
      BY <1>2, <2>1, <2>2, <3>1
  <2>6. ASSUME NEW s \in S, NEW text \in Seq(Lexemes)
        PROVE  /\ Goes([To(p, s) EXCEPT !.status = text]) /\ Goes([p EXCEPT !.status = text])
    <3>1. /\ [To(p, s) EXCEPT !.status = text]
               = Started(p, s, p.method, p.result, p.statusCode, text)
          /\ [p EXCEPT !.status = text]
               = Started(p, p.state, p.method, p.result, p.statusCode, text)
      BY DEF Started, To, Parser
    <3> QED
      BY <1>2, <2>1, <2>2, <3>1
  <2> QED
    BY <1>2, <2>3, <2>4, <2>5, <2>6
<1>4. /\ StartStates \subseteq S
      /\ {"RequestUri", "HttpVersion_newLine", "HeaderLineStart", "ResponseHttpVersion_minor",
          "RequestHttpVersion_minor", "RequestHttpVersion_h",
          "ResponseHttpVersion_statusCodeStart", "ResponseHttpVersion_statusCode",
          "ResponseHttpVersion_statusTextStart", "ResponseHttpVersion_statusText"} \subseteq S
  BY DEF StartStates
<1>5. c \in Requests => c \in M
  OBVIOUS
<1> HIDE DEF S, M, Goes
<1>6. consume(p, c) = Error(p) \/ Goes(consume(p, c))
  <2>1. CASE p.state = "RequestMethodStart"
    BY <1>3, <1>4, <1>5, <2>1 DEF consume, RequestLine
  <2>2. CASE p.state = "RequestUri"
    BY <1>3, <1>4, <2>2 DEF consume, RequestLine
  <2>3. CASE p.state = "RequestHttpVersion_h"
    BY <2>3 DEF consume, RequestLine
  <2>4. CASE p.state = "RequestHttpVersion_minor"
    BY <1>3, <1>4, <2>4 DEF consume, RequestLine, Expect
  <2>5. CASE p.state \in {"ResponseStatusStart", "ResponseHttpVersion_minor"}
    BY <1>3, <1>4, <2>5 DEF consume, StatusLine, Expect
  <2>6. CASE p.state = "ResponseHttpVersion_statusCodeStart"
    BY <1>3, <1>4, <2>6, StatusGrows DEF consume, StatusLine
  <2>7. CASE p.state = "ResponseHttpVersion_statusCode"
    <3>1. CASE c \in Digits
      <4>1. consume(p, c) = [p EXCEPT !.statusCode = AddDigit(p.statusCode, c)]
        BY <2>7, <3>1 DEF consume, StatusLine
      <4>2. AddDigit(p.statusCode, c) \in Nat
        BY <3>1, StatusGrows
      <4> QED
        BY <1>3, <4>1, <4>2
    <3>2. CASE c \notin Digits
      BY <1>3, <1>4, <2>7, <3>2 DEF consume, StatusLine, Expect
    <3> QED
      BY <3>1, <3>2
  <2>8. CASE p.state = "ResponseHttpVersion_statusTextStart"
    <3>1. PICK text \in Seq(Lexemes) : text = Append(p.status, c)
      BY StatusGrows
    <3>2. consume(p, c) = [To(p, "ResponseHttpVersion_statusText") EXCEPT !.status = text]
      BY <2>8, <3>1, StartedIs DEF consume, StatusLine
    <3> QED
      BY <1>3, <1>4, <3>2
  <2>9. CASE p.state = "ResponseHttpVersion_statusText"
    <3>1. PICK text \in Seq(Lexemes) : text = Append(p.status, c)
      BY StatusGrows
    <3>2. consume(p, c) \in {To(p, "HttpVersion_newLine"), [p EXCEPT !.status = text]}
      BY <2>9, <3>1 DEF consume, StatusLine
    <3> QED
      BY <1>3, <1>4, <3>2
  <2>10. CASE p.state = "HttpVersion_newLine"
    BY <1>3, <1>4, <2>10 DEF consume, Header, Expect
  <2> QED
    BY <2>1, <2>2, <2>3, <2>4, <2>5, <2>6, <2>7, <2>8, <2>9, <2>10 DEF StartStates
<1>7. p.state \notin Partial /\ p.contentSize = 0
  BY <1>1 DEF StateOK, StartStates, Partial
<1>8. ASSUME NEW s \in S, NEW m \in M, NEW r \in {"incomplete", "completed"},
             NEW code \in Nat, NEW text \in Seq(Lexemes), NEW q,
             q = Started(p, s, m, r, code, text)
      PROVE  ParserOK(q)
  <2>1. s \in States /\ s \notin Partial /\ s \notin ChunkStates /\ s \notin {"Post", "HeaderLws", "ChunkData"}
    BY DEF S, States, StartStates, HeaderStates, Partial, ChunkStates
  <2>2. q.state = s /\ q.headers = p.headers /\ q.content = p.content
        /\ q.contentSize = p.contentSize /\ q.chunked = p.chunked
    BY <1>1, <1>8 DEF Parser, Started
  <2>3. q \in Parser
    BY <1>1, <1>8, <2>1 DEF Parser, Started, M
  <2>4. StateOK(q)
    BY <1>1, <2>1, <2>2 DEF StateOK
  <2> QED
    BY <1>7, <1>8, <2>1, <2>2, <2>3, <2>4, HeadersKept
<1> QED
  BY <1>6, <1>8, ErrorOK DEF Goes

LEMMA ToState ==
  ASSUME NEW p \in Parser, NEW s \in States
  PROVE  /\ To(p, s) \in Parser
         /\ To(p, s).state = s /\ To(p, s).result = p.result /\ To(p, s).method = p.method
         /\ To(p, s).headers = p.headers /\ To(p, s).content = p.content
         /\ To(p, s).contentSize = p.contentSize /\ To(p, s).chunked = p.chunked
         /\ To(p, s).chunkSizeStr = p.chunkSizeStr /\ To(p, s).chunkSize = p.chunkSize
         /\ To(p, s).statusCode = p.statusCode /\ To(p, s).status = p.status
BY DEF To, Parser

LEMMA CompletedState ==
  ASSUME NEW p \in Parser
  PROVE  /\ Completed(p) \in Parser
         /\ Completed(p).state = p.state /\ Completed(p).result = "completed"
         /\ Completed(p).method = p.method /\ Completed(p).headers = p.headers
         /\ Completed(p).content = p.content /\ Completed(p).contentSize = p.contentSize
         /\ Completed(p).chunked = p.chunked
         /\ Completed(p).statusCode = p.statusCode /\ Completed(p).status = p.status
BY DEF Completed, Parser

\* A change of state, and of nothing else.
LEMMA ToOK ==
  ASSUME NEW p \in Parser, ParserOK(p), p.result = "incomplete", p.state \notin Partial,
         NEW s \in States \ Partial, StateOK(To(p, s))
  PROVE  ParserOK(To(p, s))
<1>1. p \in Parser
  BY DEF ParserOK
<1> QED
  BY <1>1, ToState, HeadersKept

LEMMA LastHeader ==
  ASSUME NEW p \in Parser, p.headers # <<>>
  PROVE  /\ p.headers \in Seq(Field) /\ Front(p.headers) \in Seq(Field)
         /\ Last(p.headers) \in Field
         /\ p.headers = Append(Front(p.headers), Last(p.headers))
         /\ \A x \in Field : [p.headers EXCEPT ![Len(p.headers)] = x]
                              = Append(Front(p.headers), x)
<1>1. PICK hs \in Seq(Field) : hs = p.headers
  BY DEF Parser
<1> QED
  BY <1>1, FrontAndLast

LEMMA NameAppended ==
  ASSUME NEW p \in Parser, p.headers # <<>>, NEW c \in Tokens
  PROVE  \E h \in Field :
           AppendToName(p, c) = [p EXCEPT !.headers = Append(Front(p.headers), h)]
<1>1. PICK hs \in Seq(Field), l \in Field : hs = p.headers /\ l = Last(p.headers) /\ l = hs[Len(hs)]
  BY LastHeader DEF Last
<1>2. PICK n \in Name, v \in Value : n = l.name /\ v = l.value
  BY DEF Field
<1>3. Append(n, c) \in Name
  <2>1. n \in Seq(Tokens)
    BY DEF Name
  <2> QED
    BY <2>1, AppendProperties DEF Name
<1>4. PICK h \in Field : h = [l EXCEPT !.name = Append(@, c)]
  <2>1. [l EXCEPT !.name = Append(@, c)] \in Field
    BY <1>2, <1>3 DEF Field
  <2> QED
    BY <2>1
<1>5. [hs EXCEPT ![Len(hs)].name = Append(@, c)] = [hs EXCEPT ![Len(hs)] = h]
  BY <1>1, <1>4
<1>6. AppendToName(p, c) = [p EXCEPT !.headers = [hs EXCEPT ![Len(hs)] = h]]
  BY <1>1, <1>5 DEF AppendToName
<1>7. [hs EXCEPT ![Len(hs)] = h] = Append(Front(p.headers), h)
  BY <1>1, LastHeader
<1> QED
  BY <1>6, <1>7

LEMMA ValueAppended ==
  ASSUME NEW p \in Parser, p.headers # <<>>, NEW c \in Lexemes \ {"CR", "LF"}
  PROVE  \E h \in Field :
           /\ h.name = Last(p.headers).name
           /\ AppendToValue(p, c) = [p EXCEPT !.headers = Append(Front(p.headers), h)]
<1>1. PICK hs \in Seq(Field), l \in Field : hs = p.headers /\ l = Last(p.headers) /\ l = hs[Len(hs)]
  BY LastHeader DEF Last
<1>2. PICK n \in Name, v \in Value : n = l.name /\ v = l.value
  BY DEF Field
<1>3. Append(v, c) \in Value
  BY AppendProperties DEF Value
<1>4. PICK h \in Field : h = [l EXCEPT !.value = Append(@, c)] /\ h.name = l.name
  <2>1. [l EXCEPT !.value = Append(@, c)] \in Field
    BY <1>2, <1>3 DEF Field
  <2>2. [l EXCEPT !.value = Append(@, c)].name = l.name
    BY DEF Field
  <2> QED
    BY <2>1, <2>2
<1>5. [hs EXCEPT ![Len(hs)].value = Append(@, c)] = [hs EXCEPT ![Len(hs)] = h]
  BY <1>1, <1>4
<1>6. AppendToValue(p, c) = [p EXCEPT !.headers = [hs EXCEPT ![Len(hs)] = h]]
  BY <1>1, <1>5 DEF AppendToValue
<1>7. [hs EXCEPT ![Len(hs)] = h] = Append(Front(p.headers), h)
  BY <1>1, LastHeader
<1> QED
  BY <1>1, <1>4, <1>6, <1>7

\* Everything but the state and the headers is as it was.
Otherwise(p, q) ==
  /\ q.method = p.method /\ q.content = p.content /\ q.contentSize = p.contentSize
  /\ q.chunked = p.chunked /\ q.result = p.result /\ q.chunkSizeStr = p.chunkSizeStr
  /\ q.chunkSize = p.chunkSize /\ q.statusCode = p.statusCode /\ q.status = p.status

\* The last header is being read: F are the headers before it.
LEMMA PartialOK ==
  ASSUME NEW p \in Parser, ParserOK(p), p.state \in HeaderStates, p.result = "incomplete",
         NEW st \in Partial, NEW F \in Seq(Field), NEW h \in Field,
         NEW q \in Parser, Otherwise(p, q), q.state = st, q.headers = Append(F, h),
         \A k \in DOMAIN F : k \in DOMAIN Complete(p) /\ F[k] = Complete(p)[k],
         p.method # "GET" /\ p.chunked = FALSE /\ (st = "HeaderName" \/ h.name # <<"Content-Length">>)
           => p.contentSize = Length(F)
  PROVE  ParserOK(q)
<1>1. p \in Parser /\ StateOK(p) /\ (p.method # "GET" => FramingOK(p))
  BY DEF ParserOK
<1>2. PICK hs \in Seq(Field) : /\ hs = Append(F, h) /\ hs # <<>>
                               /\ Front(hs) = F /\ Last(hs) = h
  <2>1. /\ Append(F, h) \in Seq(Field) /\ Append(F, h) # <<>>
        /\ Front(Append(F, h)) = F /\ Last(Append(F, h)) = h
    BY Appended
  <2> QED
    BY <2>1
<1>3. /\ st \in States /\ st \notin StartStates \cup ChunkStates \cup {"Post", "ChunkData"}
      /\ p.state \notin StartStates \cup ChunkStates \cup {"Post", "ChunkData"}
  BY DEF States, HeaderStates, StartStates, ChunkStates, Partial
<1>4. /\ q.state = st /\ q.headers = hs /\ q.method = p.method /\ q.content = p.content
      /\ q.contentSize = p.contentSize /\ q.chunked = p.chunked /\ q.result = p.result
  BY <1>2 DEF Otherwise
<1>5. StateOK(q)
  BY <1>1, <1>2, <1>3, <1>4 DEF StateOK, HeaderStates
<1>6. ASSUME p.method # "GET" PROVE FramingOK(q)
  <2>1. Complete(q) = F
    BY <1>2, <1>4 DEF Complete
  <2>2. \A k \in DOMAIN F : FramedAs(F[k], q.chunked)
    BY <1>1, <1>4, <1>6 DEF FramingOK
  <2>3. h.name # <<"Content-Length">> => Length(hs) = Length(F)
    BY <1>2, LengthOfAppended
  <2> QED
    BY <1>2, <1>4, <1>6, <2>1, <2>2, <2>3 DEF FramingOK
<1> QED
  BY <1>4, <1>5, <1>6 DEF ParserOK

LEMMA HeadIsField ==
  ASSUME NEW c \in Tokens
  PROVE  [name |-> <<c>>, value |-> <<>>] \in Field
<1>1. <<c>> \in Seq(Tokens) /\ <<c>> # <<>> /\ <<>> \in Value
  BY EmptySeq DEF Value
<1> QED
  BY <1>1 DEF Field, Name

\* A header that begins.
LEMMA HeaderBegins ==
  ASSUME NEW p \in Parser, ParserOK(p), p.state = "HeaderLineStart", p.result = "incomplete",
         NEW c \in Tokens, NEW q \in Parser, Otherwise(p, q), q.state = "HeaderName",
         q.headers = Append(p.headers, [name |-> <<c>>, value |-> <<>>])
  PROVE  ParserOK(q)
<1>1. p \in Parser /\ StateOK(p) /\ (p.method # "GET" => FramingOK(p))
  BY DEF ParserOK
<1>2. PICK F \in Seq(Field) : F = p.headers
  BY <1>1 DEF Parser
<1>3. [name |-> <<c>>, value |-> <<>>] \in Field
  BY HeadIsField
<1>5. Complete(p) = F /\ p.content = <<>> /\ Len(<<>>) = 0 /\ p.contentSize \in Nat
  BY <1>1, <1>2, EmptySeq DEF Complete, Partial, StateOK, HeaderStates, Parser
<1>6. p.method # "GET" /\ p.chunked = FALSE => p.contentSize = Length(F)
  <2> SUFFICES ASSUME p.method # "GET", p.chunked = FALSE PROVE p.contentSize = Length(F)
    OBVIOUS
  <2>1. p.contentSize + Len(p.content) = Length(p.headers)
    BY <1>1 DEF FramingOK, Partial
  <2>2. Len(p.content) = 0
    BY <1>5
  <2>3. p.contentSize = Length(p.headers)
    BY <1>5, <2>1, <2>2
  <2> QED
    BY <1>2, <2>3
<1>7. p.state \in HeaderStates
  BY DEF HeaderStates
<1>8. PICK s \in Partial : s = "HeaderName"
  BY DEF Partial
<1>9. PICK h \in Field : h = [name |-> <<c>>, value |-> <<>>]
  BY <1>3
<1>10. q.state = s /\ q.headers = Append(F, h)
  BY <1>2, <1>8, <1>9
<1>11. \A k \in DOMAIN F : k \in DOMAIN Complete(p) /\ F[k] = Complete(p)[k]
  BY <1>5
<1> QED
  BY <1>6, <1>7, <1>10, <1>11, PartialOK

\* The header before, without its last line end, is complete only as far as it
\* was: what the length was before it is not known any more.
LEMMA HeaderGrows ==
  ASSUME NEW p \in Parser, ParserOK(p), p.result = "incomplete",
         p.state \in Partial \cup {"HeaderLws"},
         NEW s \in Partial, NEW h \in Field, NEW q \in Parser, Otherwise(p, q),
         q.state = s, q.headers = Append(Front(p.headers), h),
         \/ s = "HeaderName" /\ p.state = "HeaderName"
         \/ s # "HeaderName" /\ h.name = Last(p.headers).name
  PROVE  ParserOK(q)
<1>1. p \in Parser /\ StateOK(p) /\ (p.method # "GET" => FramingOK(p))
  BY DEF ParserOK
<1>2. p.headers # <<>> /\ p.state \in HeaderStates /\ p.content = <<>> /\ Len(<<>>) = 0
      /\ p.contentSize \in Nat
  BY <1>1, EmptySeq DEF StateOK, HeaderStates, Parser
<1>3. PICK F \in Seq(Field), l \in Field :
        F = Front(p.headers) /\ l = Last(p.headers) /\ p.headers = Append(F, l)
  BY <1>1, <1>2, LastHeader
<1>4. \A k \in DOMAIN F : k \in DOMAIN Append(F, l) /\ Append(F, l)[k] = F[k]
  <2>1. /\ DOMAIN F = 1 .. Len(F) /\ Len(F) \in Nat
        /\ DOMAIN Append(F, l) = 1 .. Len(Append(F, l))
    BY AppendProperties, LenProperties
  <2>2. Len(Append(F, l)) = Len(F) + 1 /\ \A k \in 1 .. Len(F) : Append(F, l)[k] = F[k]
    BY AppendProperties
  <2> QED
    BY <2>1, <2>2
<1>5. \A k \in DOMAIN F : k \in DOMAIN Complete(p) /\ F[k] = Complete(p)[k]
  BY <1>3, <1>4 DEF Complete
<1>6. ASSUME p.method # "GET", p.chunked = FALSE, s = "HeaderName" \/ h.name # <<"Content-Length">>
      PROVE  p.contentSize = Length(F)
  <2>1. CASE p.state = "HeaderName"
    BY <1>1, <1>3, <1>6, <2>1 DEF FramingOK
  <2>2. CASE p.state # "HeaderName"
    <3>1. l.name # <<"Content-Length">>
      BY <1>3, <1>6, <2>2
    <3>2. p.contentSize = Length(p.headers)
      <4>1. CASE p.state \in Partial
        <5>1. p.state \in {"SpaceBeforeHeaderValue", "HeaderValue"}
          BY <2>2, <4>1 DEF Partial
        <5> QED
          BY <1>1, <1>3, <1>6, <3>1, <5>1 DEF FramingOK
      <4>2. CASE p.state \notin Partial
        <5>1. p.contentSize + Len(p.content) = Length(p.headers)
          BY <1>1, <1>6, <4>2 DEF FramingOK
        <5> QED
          BY <1>2, <5>1
      <4> QED
        BY <4>1, <4>2
    <3>3. Length(p.headers) = Length(F)
      BY <1>3, <3>1, LengthOfAppended
    <3> QED
      BY <3>2, <3>3
  <2> QED
    BY <2>1, <2>2
<1>7. q.state = s /\ q.headers = Append(F, h)
  BY <1>3
<1>8. p.method # "GET" /\ p.chunked = FALSE /\ (s = "HeaderName" \/ h.name # <<"Content-Length">>)
        => p.contentSize = Length(F)
  BY <1>6
<1> QED
  BY <1>2, <1>5, <1>7, <1>8, PartialOK

\* A header that has been read to its end.
LEMMA HeaderRead ==
  ASSUME NEW p \in Parser, ParserOK(p), p.result = "incomplete", p.state = "HeaderValue",
         p.method # "GET",
         NEW q \in Parser, q.state = "ExpectingNewline_2", q.result = p.result,
         q.method = p.method, q.headers = p.headers, q.content = p.content,
         FramedAs(Last(p.headers), q.chunked), p.chunked = TRUE => q.chunked = TRUE,
         q.chunked = FALSE => q.contentSize = Length(p.headers)
  PROVE  ParserOK(q)
<1>1. StateOK(p) /\ FramingOK(p)
  BY DEF ParserOK
<1>2. p.headers # <<>> /\ p.content = <<>> /\ Len(<<>>) = 0
  BY <1>1, EmptySeq DEF StateOK, HeaderStates, Partial
<1>3. PICK F \in Seq(Field), h \in Field :
        F = Front(p.headers) /\ h = Last(p.headers) /\ p.headers = Append(F, h)
  BY <1>2, LastHeader
<1>4. PICK n \in Nat : n = Len(F) /\ DOMAIN F = 1 .. n
  BY LenProperties
<1>5. PICK hs \in Seq(Field) : /\ hs = p.headers /\ DOMAIN hs = 1 .. n + 1
                               /\ hs[n + 1] = h /\ \A k \in 1 .. n : hs[k] = F[k]
  <2>1. PICK hs \in Seq(Field) : hs = Append(F, h)
    BY AppendProperties
  <2>2. Len(hs) = n + 1 /\ hs[n + 1] = h /\ \A k \in 1 .. n : hs[k] = F[k]
    BY <1>4, <2>1, AppendProperties
  <2>3. DOMAIN hs = 1 .. n + 1
    BY <2>2, LenProperties
  <2> QED
    BY <1>3, <2>1, <2>2, <2>3
<1>6. StateOK(q)
  BY <1>2 DEF StateOK, StartStates, ChunkStates, HeaderStates, Partial
<1>7. \A k \in 1 .. n : FramedAs(F[k], p.chunked)
  BY <1>1, <1>3, <1>4 DEF FramingOK, Complete, Partial
<1>8. \A k \in 1 .. n : FramedAs(F[k], q.chunked)
  BY <1>7 DEF FramedAs
<1>9. \A k \in 1 .. n + 1 : k \in 1 .. n \/ k = n + 1
  OBVIOUS
<1>10. \A k \in 1 .. n + 1 : FramedAs(hs[k], q.chunked)
  BY <1>3, <1>5, <1>8, <1>9
<1>11. Complete(q) = hs
  BY <1>5 DEF Complete, Partial
<1>12. \A k \in DOMAIN Complete(q) : FramedAs(Complete(q)[k], q.chunked)
  BY <1>5, <1>10, <1>11
<1>13. q.chunked = FALSE => q.contentSize + Len(q.content) = Length(q.headers)
  <2> SUFFICES ASSUME q.chunked = FALSE PROVE q.contentSize + Len(q.content) = Length(q.headers)
    OBVIOUS
  <2>1. Len(q.content) = 0 /\ q.contentSize \in Nat
    BY <1>2 DEF Parser
  <2> QED
    BY <2>1
<1>14. FramingOK(q)
  BY <1>12, <1>13 DEF FramingOK, Partial
<1> QED
  BY <1>6, <1>14 DEF ParserOK

LEMMA HeaderValueEndsOK ==
  ASSUME NEW p \in Parser, ParserOK(p), p.result = "incomplete", p.state = "HeaderValue"
  PROVE  ParserOK(HeaderValueEnds(p))
<1>1. StateOK(p) /\ (p.method # "GET" => FramingOK(p))
  BY DEF ParserOK
<1>2. "ExpectingNewline_2" \in States
  BY DEF States, HeaderStates
<1>3. PICK q \in Parser :
        /\ q = To(p, "ExpectingNewline_2")
        /\ q.state = "ExpectingNewline_2" /\ q.result = p.result /\ q.method = p.method
        /\ q.headers = p.headers /\ q.content = p.content
        /\ q.contentSize = p.contentSize /\ q.chunked = p.chunked
  BY <1>2, ToState
<1>4. StateOK(q)
  BY <1>1, <1>3 DEF StateOK, StartStates, ChunkStates, HeaderStates, Partial
<1>5. p.headers # <<>>
  BY <1>1 DEF StateOK, Partial
<1>6. PICK F \in Seq(Field), h \in Field :
        F = Front(p.headers) /\ h = Last(p.headers) /\ p.headers = Append(F, h)
  BY <1>5, LastHeader
<1>7. CASE p.method = "GET"
  <2>1. HeaderValueEnds(p) = q
    BY <1>3, <1>7 DEF HeaderValueEnds, RequestFrameBy, Requests
  <2> QED
    BY <1>3, <1>4, <1>7, <2>1 DEF ParserOK
<1>8. CASE p.method # "GET"
  <2>1. HeaderValueEnds(p) = FrameBy(q, h)
    BY <1>3, <1>6, <1>8 DEF HeaderValueEnds, RequestFrameBy, Requests, Parser
  <2>2. PICK n \in Int : n = atoi(h.value)
    <3>1. h.value \in Seq(Lexemes \ {"CR", "LF"})
      BY DEF Field, Value
    <3> QED
      BY <3>1, LengthIsInt
  <2>3. Length(p.headers) = IF h.name = <<"Content-Length">> THEN n ELSE Length(F)
    BY <1>6, <2>2, LengthOfAppended
  <2>4. h.name # <<"Content-Length">> /\ p.chunked = FALSE => p.contentSize = Length(p.headers)
    BY <1>1, <1>6, <1>8 DEF FramingOK
  <2>5. CASE h.name = <<"Content-Length">> /\ n < 0
    <3>1. FrameBy(q, h) = Error(q)
      BY <2>2, <2>5 DEF FrameBy
    <3>2. /\ Error(q) \in Parser /\ StateOK(Error(q)) /\ Error(q).result = "error"
      BY <1>4 DEF Error, Parser, StateOK
    <3> QED
      BY <2>1, <3>1, <3>2 DEF ParserOK
  <2>6. CASE h.name = <<"Content-Length">> /\ n >= 0
    <3>1. FrameBy(q, h) = [q EXCEPT !.contentSize = n]
      BY <2>2, <2>6 DEF FrameBy
    <3>2. PICK r \in Parser :
            /\ r = [q EXCEPT !.contentSize = n]
            /\ r.state = q.state /\ r.result = q.result /\ r.method = q.method
            /\ r.headers = q.headers /\ r.content = q.content
            /\ r.contentSize = n /\ r.chunked = q.chunked
      <4>1. n \in Nat
        BY <2>6
      <4>2. [q EXCEPT !.contentSize = n] \in Parser
        BY <4>1 DEF Parser
      <4>3. PICK r \in Parser : r = [q EXCEPT !.contentSize = n]
        BY <4>2
      <4> QED
        BY <4>3 DEF Parser
    <3>3. FramedAs(h, r.chunked)
      BY <2>2, <2>6 DEF FramedAs
    <3>4. r.contentSize = Length(p.headers)
      BY <2>3, <2>6, <3>2
    <3>5. /\ r.state = "ExpectingNewline_2" /\ r.result = p.result /\ r.method = p.method
          /\ r.headers = p.headers /\ r.content = p.content /\ r.chunked = p.chunked
          /\ FramedAs(Last(p.headers), r.chunked)
      BY <1>3, <1>6, <3>2, <3>3
    <3>6. ParserOK(r)
      BY <1>8, <3>4, <3>5, HeaderRead
    <3> QED
      BY <2>1, <3>1, <3>2, <3>6
  <2>7. CASE h.name = <<"Transfer-Encoding">>
    <3>1. PICK b \in BOOLEAN : b = (q.chunked \/ h.value = <<"chunked">>)
      BY DEF Parser
    <3>2. FrameBy(q, h) = [q EXCEPT !.chunked = b]
      BY <2>7, <3>1 DEF FrameBy
    <3>3. PICK r \in Parser :
            /\ r = [q EXCEPT !.chunked = b]
            /\ r.state = q.state /\ r.result = q.result /\ r.method = q.method
            /\ r.headers = q.headers /\ r.content = q.content
            /\ r.contentSize = q.contentSize /\ r.chunked = b
      <4>1. [q EXCEPT !.chunked = b] \in Parser
        BY DEF Parser
      <4>2. PICK r \in Parser : r = [q EXCEPT !.chunked = b]
        BY <4>1
      <4> QED
        BY <4>2 DEF Parser
    <3>4. FramedAs(h, r.chunked)
      <4>1. h.value = <<"chunked">> => b = TRUE
        BY <3>1
      <4> QED
        BY <2>7, <3>3, <4>1 DEF FramedAs
    <3>5. /\ p.chunked = TRUE => r.chunked = TRUE
          /\ r.chunked = FALSE => r.contentSize = Length(p.headers)
      <4>1. p.chunked \in BOOLEAN
        BY DEF Parser
      <4>2. h.name # <<"Content-Length">>
        BY <2>7
      <4> QED
        BY <1>3, <2>4, <3>1, <3>3, <4>1, <4>2
    <3>6. /\ r.state = "ExpectingNewline_2" /\ r.result = p.result /\ r.method = p.method
          /\ r.headers = p.headers /\ r.content = p.content
          /\ FramedAs(Last(p.headers), r.chunked)
      BY <1>3, <1>6, <3>3, <3>4
    <3>7. ParserOK(r)
      BY <1>8, <3>5, <3>6, HeaderRead
    <3> QED
      BY <2>1, <3>2, <3>3, <3>7
  <2>8. CASE h.name # <<"Content-Length">> /\ h.name # <<"Transfer-Encoding">>
    <3>1. FrameBy(q, h) = q
      BY <2>8 DEF FrameBy
    <3>2. FramedAs(h, q.chunked)
      BY <2>8 DEF FramedAs
    <3>3. q.chunked = FALSE => q.contentSize = Length(p.headers)
      BY <1>3, <2>4, <2>8
    <3>4. ParserOK(q)
      BY <1>3, <1>6, <1>8, <3>2, <3>3, HeaderRead
    <3> QED
      BY <2>1, <3>1, <3>4
  <2> QED
    BY <2>5, <2>6, <2>7, <2>8
<1> QED
  BY <1>7, <1>8

LEMMA PartialStays ==
  ASSUME NEW p \in Parser, ParserOK(p), p.result = "incomplete", p.state \in Partial,
         NEW s \in {"SpaceBeforeHeaderValue", "HeaderValue"}
  PROVE  ParserOK(To(p, s))
<1>1. p.headers # <<>>
  BY DEF ParserOK, StateOK
<1>2. PICK h \in Field : h = Last(p.headers) /\ p.headers = Append(Front(p.headers), h)
  BY <1>1, LastHeader
<1>3. s \in States /\ s \in Partial /\ s # "HeaderName"
  BY DEF States, HeaderStates, Partial
<1>4. PICK q \in Parser :
        q = To(p, s) /\ q.state = s /\ q.headers = p.headers /\ Otherwise(p, q)
  BY <1>3, ToState DEF Otherwise
<1>5. q.headers = Append(Front(p.headers), h) /\ h.name = Last(p.headers).name
  BY <1>2, <1>4
<1>6. ParserOK(q)
  BY <1>3, <1>4, <1>5, HeaderGrows
<1> QED
  BY <1>4, <1>6

LEMMA ValueGrows ==
  ASSUME NEW p \in Parser, ParserOK(p), p.result = "incomplete",
         p.state \in {"HeaderLws", "HeaderValue"}, NEW c \in Lexemes \ {"CR", "LF"},
         NEW q \in Parser, q.state = "HeaderValue", q.headers = p.headers, Otherwise(p, q)
  PROVE  ParserOK(AppendToValue(q, c))
<1>1. p.headers # <<>>
  BY DEF ParserOK, StateOK, Partial
<1>2. "HeaderValue" \in Partial /\ p.state \in Partial \cup {"HeaderLws"}
  BY DEF Partial
<1>4. PICK h \in Field :
        /\ h.name = Last(q.headers).name
        /\ AppendToValue(q, c) = [q EXCEPT !.headers = Append(Front(q.headers), h)]
  BY <1>1, ValueAppended
<1>5. PICK F \in Seq(Field) : F = Front(p.headers) /\ F = Front(q.headers)
  BY <1>1, LastHeader
<1>6. PICK hs \in Seq(Field) : hs = Append(F, h)
  BY AppendProperties
<1>7. PICK r \in Parser : /\ r = [q EXCEPT !.headers = hs]
                           /\ r.state = q.state /\ r.headers = hs /\ Otherwise(q, r)
  <2>1. [q EXCEPT !.headers = hs] \in Parser
    BY DEF Parser
  <2>2. PICK r \in Parser : r = [q EXCEPT !.headers = hs]
    BY <2>1
  <2> QED
    BY <2>2 DEF Parser, Otherwise
<1>8. Otherwise(p, r)
  BY <1>7 DEF Otherwise
<1>9. r.state = "HeaderValue" /\ r.headers = Append(Front(p.headers), h) /\ h.name = Last(p.headers).name
  BY <1>4, <1>5, <1>6, <1>7
<1>10. ParserOK(r)
  BY <1>2, <1>8, <1>9, HeaderGrows
<1> QED
  BY <1>4, <1>5, <1>6, <1>7, <1>10

LEMMA NameGrows ==
  ASSUME NEW p \in Parser, ParserOK(p), p.result = "incomplete",
         p.state = "HeaderName", NEW c \in Tokens
  PROVE  ParserOK(AppendToName(p, c))
<1>1. p.headers # <<>>
  BY DEF ParserOK, StateOK, Partial
<1>2. "HeaderName" \in Partial /\ p.state \in Partial \cup {"HeaderLws"}
  BY DEF Partial
<1>3. PICK F \in Seq(Field), h \in Field :
        F = Front(p.headers) /\ AppendToName(p, c) = [p EXCEPT !.headers = Append(F, h)]
  BY <1>1, LastHeader, NameAppended
<1>4. PICK hs \in Seq(Field) : hs = Append(F, h)
  BY AppendProperties
<1>5. PICK r \in Parser : /\ r = [p EXCEPT !.headers = hs]
                           /\ r.state = p.state /\ r.headers = hs /\ Otherwise(p, r)
  <2>1. [p EXCEPT !.headers = hs] \in Parser
    BY DEF Parser
  <2>2. PICK r \in Parser : r = [p EXCEPT !.headers = hs]
    BY <2>1
  <2> QED
    BY <2>2 DEF Parser, Otherwise
<1>6. r.state = "HeaderName" /\ r.headers = Append(Front(p.headers), h)
  BY <1>3, <1>4, <1>5
<1>7. ParserOK(r)
  BY <1>2, <1>5, <1>6, HeaderGrows
<1> QED
  BY <1>3, <1>4, <1>5, <1>7

LEMMA HeaderToOK ==
  ASSUME NEW p \in Parser, ParserOK(p), p.result = "incomplete",
         p.state \in {"HeaderLineStart", "HeaderLws", "ExpectingNewline_2"},
         NEW s \in {"HeaderLineStart", "HeaderLws", "ExpectingNewline_2", "ExpectingNewline_3"},
         s = "HeaderLws" => p.headers # <<>>
  PROVE  ParserOK(To(p, s))
<1>1. s \in States \ Partial /\ p.state \notin Partial
  BY DEF States, HeaderStates, Partial
<1>2. PICK q \in Parser :
        /\ q = To(p, s) /\ q.state = s /\ q.result = p.result /\ q.method = p.method
        /\ q.headers = p.headers /\ q.content = p.content
        /\ q.contentSize = p.contentSize /\ q.chunked = p.chunked
  BY <1>1, ToState
<1>3. StateOK(p)
  BY DEF ParserOK
<1>4. StateOK(q)
  BY <1>2, <1>3 DEF StateOK, StartStates, HeaderStates, ChunkStates, Partial
<1> QED
  BY <1>1, <1>2, <1>4, ToOK

LEMMA NotTokens == "CR" \notin Tokens /\ "LF" \notin Tokens /\ "SP" \notin Tokens /\ ":" \notin Tokens
BY DEF Tokens, Alnum, Digits, ToSet, Numeral, Names, Validators

LEMMA HeaderOK ==
  ASSUME NEW p \in Parser, ParserOK(p), p.result = "incomplete", NEW c \in Lexemes,
         p.state \in HeaderStates \ {"ExpectingNewline_3"}
  PROVE  ParserOK(consume(p, c))
<1>0. consume(p, c) = Header(p, c) /\ ParserOK(Error(p))
  BY ErrorOK DEF consume, HeaderStates, Partial
<1>1. CASE p.state = "HeaderLineStart"
  <2>1. CASE c = "CR"
    <3>1. Header(p, c) = To(p, "ExpectingNewline_3")
      BY <1>1, <2>1, NotTokens DEF Header
    <3> QED
      BY <1>0, <1>1, <3>1, HeaderToOK
  <2>2. CASE c = "SP" /\ p.headers # <<>>
    <3>1. Header(p, c) = To(p, "HeaderLws")
      BY <1>1, <2>2, NotTokens DEF Header
    <3> QED
      BY <1>0, <1>1, <2>2, <3>1, HeaderToOK
  <2>3. CASE c \in Tokens
    <3>1. c # "CR" /\ c # "SP"
      BY <2>3, NotTokens
    <3>2. Header(p, c) = [To(p, "HeaderName") EXCEPT
                            !.headers = Append(@, [name |-> <<c>>, value |-> <<>>])]
      BY <1>1, <2>3, <3>1 DEF Header
    <3>3. "HeaderName" \in States
      BY DEF States, HeaderStates, Partial
    <3>4. PICK q \in Parser :
            q = To(p, "HeaderName") /\ q.state = "HeaderName" /\ q.headers = p.headers
            /\ Otherwise(p, q)
      BY <3>3, ToState DEF Otherwise
    <3>5. [name |-> <<c>>, value |-> <<>>] \in Field
      BY <2>3, HeadIsField
    <3>6. PICK hs \in Seq(Field) : hs = Append(p.headers, [name |-> <<c>>, value |-> <<>>])
      <4>1. p.headers \in Seq(Field)
        BY DEF Parser
      <4> QED
        BY <3>5, <4>1, AppendProperties
    <3>7. PICK r \in Parser : /\ r = [q EXCEPT !.headers = hs]
                              /\ r.state = q.state /\ r.headers = hs /\ Otherwise(q, r)
      <4>1. [q EXCEPT !.headers = hs] \in Parser
        BY DEF Parser
      <4>2. PICK r \in Parser : r = [q EXCEPT !.headers = hs]
        BY <4>1
      <4> QED
        BY <4>2 DEF Parser, Otherwise
    <3>8. Otherwise(p, r) /\ r.state = "HeaderName"
          /\ r.headers = Append(p.headers, [name |-> <<c>>, value |-> <<>>])
      BY <3>4, <3>6, <3>7 DEF Otherwise
    <3>9. ParserOK(r)
      BY <1>1, <2>3, <3>8, HeaderBegins
    <3> QED
      BY <1>0, <3>2, <3>4, <3>6, <3>7, <3>9
  <2>4. CASE c # "CR" /\ ~(c = "SP" /\ p.headers # <<>>) /\ c \notin Tokens
    BY <1>0, <1>1, <2>4 DEF Header
  <2> QED
    BY <2>1, <2>2, <2>3, <2>4
<1>2. CASE p.state = "HeaderLws"
  <2>1. CASE c = "CR"
    BY <1>0, <1>2, <2>1, HeaderToOK DEF Header
  <2>2. CASE c = "SP" \/ c = "LF"
    BY <1>0, <1>2, <2>2 DEF Header
  <2>3. CASE c # "CR" /\ c # "SP" /\ c # "LF"
    <3>1. Header(p, c) = AppendToValue(To(p, "HeaderValue"), c)
      BY <1>2, <2>3 DEF Header
    <3>2. "HeaderValue" \in States
      BY DEF States, HeaderStates, Partial
    <3>3. PICK q \in Parser :
            q = To(p, "HeaderValue") /\ q.state = "HeaderValue" /\ q.headers = p.headers
            /\ Otherwise(p, q)
      BY <3>2, ToState DEF Otherwise
    <3> QED
      BY <1>0, <1>2, <2>3, <3>1, <3>3, ValueGrows
  <2> QED
    BY <2>1, <2>2, <2>3
<1>3. CASE p.state = "HeaderName"
  <2>0. p.state \in Partial
    BY <1>3 DEF Partial
  <2>1. CASE c = ":"
    <3>1. Header(p, c) = To(p, "SpaceBeforeHeaderValue")
      BY <1>3, <2>1, NotTokens DEF Header
    <3> QED
      BY <1>0, <2>0, <3>1, PartialStays
  <2>2. CASE c \in Tokens
    <3>1. c # ":"
      BY <2>2, NotTokens
    <3>2. Header(p, c) = AppendToName(p, c)
      BY <1>3, <2>2, <3>1 DEF Header
    <3> QED
      BY <1>0, <1>3, <2>2, <3>2, NameGrows
  <2>3. CASE c # ":" /\ c \notin Tokens
    BY <1>0, <1>3, <2>3 DEF Header
  <2> QED
    BY <2>1, <2>2, <2>3
<1>4. CASE p.state = "SpaceBeforeHeaderValue"
  <2>1. p.state \in Partial
    BY <1>4 DEF Partial
  <2>2. Header(p, c) = To(p, "HeaderValue") \/ Header(p, c) = Error(p)
    BY <1>4 DEF Header, Expect
  <2> QED
    BY <1>0, <2>1, <2>2, PartialStays
<1>5. CASE p.state = "HeaderValue"
  <2>1. CASE c = "CR"
    BY <1>0, <1>5, <2>1, HeaderValueEndsOK DEF Header
  <2>2. CASE c = "LF"
    BY <1>0, <1>5, <2>2 DEF Header
  <2>3. CASE c # "CR" /\ c # "LF"
    <3>1. Header(p, c) = AppendToValue(p, c)
      BY <1>5, <2>3 DEF Header
    <3>2. Otherwise(p, p)
      BY DEF Otherwise
    <3> QED
      BY <1>0, <1>5, <2>3, <3>1, <3>2, ValueGrows
  <2> QED
    BY <2>1, <2>2, <2>3
<1>6. CASE p.state = "ExpectingNewline_2"
  <2>1. Header(p, c) = To(p, "HeaderLineStart") \/ Header(p, c) = Error(p)
    BY <1>6 DEF Header, Expect
  <2> QED
    BY <1>0, <1>6, <2>1, HeaderToOK
<1> QED
  BY <1>1, <1>2, <1>3, <1>4, <1>5, <1>6 DEF HeaderStates, Partial

LEMMA HeadersEndOK ==
  ASSUME NEW p \in Parser, ParserOK(p), p.result = "incomplete", NEW c \in Lexemes,
         p.state = "ExpectingNewline_3"
  PROVE  ParserOK(consume(p, c))
<1>0. consume(p, c) = HeadersEnd(p, c) /\ ParserOK(Error(p)) /\ StateOK(p)
  BY ErrorOK DEF consume, ParserOK
<1>1. p.state \notin Partial /\ p.chunked \in BOOLEAN /\ p.contentSize \in Nat
  BY DEF Partial, Parser
<1>2. CASE p.chunked = TRUE
  <2>1. HeadersEnd(p, c) = To(p, "ChunkSize")
    BY <1>2 DEF HeadersEnd
  <2>2. PICK s \in States \ Partial : s = "ChunkSize"
    BY DEF States, ChunkStates, Partial
  <2>3. StateOK(To(p, s))
    <3>1. PICK q \in Parser :
            /\ q = To(p, s) /\ q.state = s /\ q.result = p.result /\ q.method = p.method
            /\ q.headers = p.headers /\ q.content = p.content
            /\ q.contentSize = p.contentSize /\ q.chunked = p.chunked
      BY ToState
    <3>2. StateOK(q)
      BY <1>0, <1>2, <2>2, <3>1 DEF StateOK, StartStates, HeaderStates, ChunkStates, Partial
    <3> QED
      BY <3>1, <3>2
  <2>4. ParserOK(To(p, s))
    BY <1>1, <2>3, ToOK
  <2> QED
    BY <1>0, <2>1, <2>2, <2>4
<1>3. CASE p.chunked = FALSE /\ p.contentSize # 0
  <2>1. HeadersEnd(p, c) = To(p, "Post")
    BY <1>3 DEF HeadersEnd
  <2>2. PICK s \in States \ Partial : s = "Post"
    BY DEF States, Partial
  <2>3. StateOK(To(p, s))
    <3>1. PICK q \in Parser :
            /\ q = To(p, s) /\ q.state = s /\ q.result = p.result /\ q.method = p.method
            /\ q.headers = p.headers /\ q.content = p.content
            /\ q.contentSize = p.contentSize /\ q.chunked = p.chunked
      BY ToState
    <3>2. p.contentSize > 0
      BY <1>1, <1>3
    <3>3. StateOK(q)
      BY <1>0, <1>3, <2>2, <3>1, <3>2 DEF StateOK, StartStates, HeaderStates, ChunkStates, Partial
    <3> QED
      BY <3>1, <3>3
  <2>4. ParserOK(To(p, s))
    BY <1>1, <2>3, ToOK
  <2> QED
    BY <1>0, <2>1, <2>2, <2>4
<1>4. CASE p.chunked = FALSE /\ p.contentSize = 0
  <2>1. HeadersEnd(p, c) \in {Completed(p), Error(p)}
    BY <1>4 DEF HeadersEnd
  <2>2. PICK q \in Parser :
          /\ q = Completed(p) /\ q.state = p.state /\ q.result = "completed"
          /\ q.method = p.method /\ q.headers = p.headers /\ q.content = p.content
          /\ q.contentSize = p.contentSize /\ q.chunked = p.chunked
    BY CompletedState
  <2>3. StateOK(q)
    BY <1>0, <2>2 DEF StateOK, StartStates, HeaderStates, ChunkStates, Partial
  <2>4. ParserOK(q)
    BY <1>1, <1>4, <2>2, <2>3, HeadersKept
  <2> QED
    BY <1>0, <2>1, <2>2, <2>4
<1> QED
  BY <1>1, <1>2, <1>3, <1>4

\* One lexeme of the body is taken from what is left of it.
LEMMA PostOK ==
  ASSUME NEW p \in Parser, ParserOK(p), p.result = "incomplete", NEW c \in Lexemes,
         p.state = "Post"
  PROVE  ParserOK(consume(p, c))
<1>1. consume(p, c) = Post(p, c) /\ StateOK(p)
  BY DEF consume, ParserOK
<1>2. p.contentSize \in Nat \ {0} /\ p.contentSize - 1 \in Nat /\ p.content \in Seq(Lexemes)
  <2>1. p.contentSize > 0
    BY <1>1 DEF StateOK
  <2>2. p.contentSize \in Nat /\ p.content \in Seq(Lexemes)
    BY DEF Parser
  <2> QED
    BY <2>1, <2>2
<1>3. PICK n \in Nat : n = p.contentSize - 1
  BY <1>2
<1>4. PICK b \in Seq(Lexemes) : b = Append(p.content, c) /\ Len(b) = Len(p.content) + 1
  <2>1. p.content \in Seq(Lexemes)
    BY <1>2
  <2>2. Append(p.content, c) \in Seq(Lexemes) /\ Len(Append(p.content, c)) = Len(p.content) + 1
    BY <2>1, AppendProperties
  <2> QED
    BY <2>2
<1>5. PICK q \in Parser :
        /\ q = [p EXCEPT !.contentSize = @ - 1, !.content = Append(@, c)]
        /\ q.contentSize = n /\ q.content = b /\ q.state = p.state /\ q.result = p.result
        /\ q.method = p.method /\ q.headers = p.headers /\ q.chunked = p.chunked
  <2>1. p.contentSize - 1 \in Nat /\ Append(p.content, c) \in Seq(Lexemes)
    BY <1>3, <1>4
  <2>2. [p EXCEPT !.contentSize = @ - 1, !.content = Append(@, c)] \in Parser
    BY <2>1 DEF Parser
  <2>3. PICK q \in Parser : q = [p EXCEPT !.contentSize = @ - 1, !.content = Append(@, c)]
    BY <2>2
  <2> QED
    BY <1>3, <1>4, <2>3 DEF Parser
<1>6. p.state \notin Partial \cup StartStates \cup HeaderStates \cup ChunkStates
  BY DEF Partial, StartStates, HeaderStates, ChunkStates
<1>7. q.contentSize + Len(q.content) = p.contentSize + Len(p.content)
  <2>1. PICK l \in Nat : l = Len(p.content)
    BY <1>2, LenProperties
  <2>2. q.contentSize = n /\ Len(q.content) = Len(p.content) + 1
    BY <1>5, <1>4
  <2>3. p.contentSize = n + 1
    BY <1>2, <1>3
  <2>4. n + (l + 1) = (n + 1) + l
    OBVIOUS
  <2>5. Len(q.content) = l + 1
    BY <2>1, <2>2
  <2> QED
    BY ONLY <2>1, <2>2, <2>3, <2>4, <2>5, Zenon
<1>8. p.chunked = FALSE /\ p.method # "GET"
  BY <1>1, <1>2 DEF StateOK
<1>9. CASE n # 0
  <2>1. Post(p, c) = q
    BY <1>5, <1>9 DEF Post
  <2>2. StateOK(q)
    BY <1>1, <1>5, <1>6, <1>8, <1>9 DEF StateOK
  <2>3. ParserOK(q)
    BY <1>5, <1>6, <1>7, <2>2, HeadersKept
  <2> QED
    BY <1>1, <2>1, <2>3
<1>10. CASE n = 0
  <2>1. Post(p, c) = Completed(q)
    BY <1>5, <1>10 DEF Post
  <2>2. PICK r \in Parser :
          /\ r = Completed(q) /\ r.state = q.state /\ r.result = "completed"
          /\ r.method = q.method /\ r.headers = q.headers /\ r.content = q.content
          /\ r.contentSize = q.contentSize /\ r.chunked = q.chunked
    BY CompletedState
  <2>3. StateOK(r)
    BY <1>1, <1>5, <1>6, <1>8, <2>2 DEF StateOK
  <2>4. ParserOK(r)
    BY <1>5, <1>6, <1>7, <1>10, <2>2, <2>3, HeadersKept
  <2> QED
    BY <1>1, <2>1, <2>2, <2>4
<1> QED
  BY <1>9, <1>10

\* A step from one state of a chunked body to another: the length that the
\* headers announce does not matter there.
LEMMA ChunkStep ==
  ASSUME NEW p \in Parser, ParserOK(p), p.result = "incomplete", p.state \in ChunkStates,
         NEW q \in Parser, q.state \in ChunkStates,
         q.state = "ChunkData" => q.chunkSize > 0,
         q.method = p.method, q.headers = p.headers, q.chunked = p.chunked
  PROVE  ParserOK(q)
<1>1. StateOK(p)
  BY DEF ParserOK
<1>2. p.chunked = TRUE
  BY <1>1 DEF StateOK
<1>3. /\ p.state \notin StartStates \cup HeaderStates \cup Partial \cup {"Post", "HeaderLws"}
      /\ q.state \notin StartStates \cup HeaderStates \cup Partial \cup {"Post", "HeaderLws"}
  BY DEF ChunkStates, StartStates, HeaderStates, Partial
<1>4. StateOK(q)
  BY <1>1, <1>2, <1>3 DEF StateOK
<1> QED
  BY <1>2, <1>3, <1>4, HeadersKept

LEMMA ChunkToOK ==
  ASSUME NEW p \in Parser, ParserOK(p), p.result = "incomplete", p.state \in ChunkStates,
         NEW s \in ChunkStates \ {"ChunkData"}
  PROVE  ParserOK(To(p, s))
<1>1. s \in States
  BY DEF States
<1>2. PICK q \in Parser : /\ q = To(p, s) /\ q.state = s /\ q.method = p.method
                          /\ q.headers = p.headers /\ q.chunked = p.chunked
  BY <1>1, ToState
<1>3. ParserOK(q)
  BY <1>2, ChunkStep
<1> QED
  BY <1>2, <1>3

LEMMA ChunkLineOK ==
  ASSUME NEW p \in Parser, ParserOK(p), p.result = "incomplete", NEW c \in Lexemes,
         p.state = "ChunkSizeNewLine"
  PROVE  ParserOK(ChunkLine(p, c))
<1>0. p.state \in ChunkStates
  BY DEF ChunkStates
<1>1. PICK n \in Nat : n = strtol(p.chunkSizeStr, 16)
  <2>1. p.chunkSizeStr \in Seq(Alnum) /\ "-" \notin Alnum
    BY DEF Parser, Alnum, Digits, ToSet, Numeral
  <2> QED
    BY <2>1, LongIsInt
<1>2. PICK s \in States : /\ s = IF n = 0 THEN "ChunkSizeNewLine_2" ELSE "ChunkData"
                          /\ s \in ChunkStates
  BY DEF States, ChunkStates
<1>3. PICK q \in Parser : /\ q = To(p, s) /\ q.state = s /\ q.method = p.method
                          /\ q.headers = p.headers /\ q.chunked = p.chunked
  BY <1>2, ToState
<1>4. PICK r \in Parser :
        /\ r = [q EXCEPT !.chunkSize = n, !.chunkSizeStr = <<>>]
        /\ r.state = q.state /\ r.method = q.method /\ r.headers = q.headers
        /\ r.chunked = q.chunked /\ r.chunkSize = n
  <2>0. <<>> \in Seq(Alnum)
    BY EmptySeq
  <2>1. [q EXCEPT !.chunkSize = n, !.chunkSizeStr = <<>>] \in Parser
    BY <2>0 DEF Parser
  <2>2. PICK r \in Parser : r = [q EXCEPT !.chunkSize = n, !.chunkSizeStr = <<>>]
    BY <2>1
  <2> QED
    BY <2>2 DEF Parser
<1>5. r.state = "ChunkData" => r.chunkSize > 0
  BY <1>2, <1>3, <1>4
<1>6. ParserOK(r)
  BY <1>0, <1>2, <1>3, <1>4, <1>5, ChunkStep
<1>7. ChunkLine(p, c) = r \/ ChunkLine(p, c) = Error(p)
  BY <1>1, <1>2, <1>3, <1>4 DEF ChunkLine
<1> QED
  BY <1>6, <1>7, ErrorOK

LEMMA ChunkDataOK ==
  ASSUME NEW p \in Parser, ParserOK(p), p.result = "incomplete", NEW c \in Lexemes,
         p.state = "ChunkData"
  PROVE  ParserOK(Chunk(p, c))
<1>0. p.state \in ChunkStates
  BY DEF ChunkStates
<1>1. PICK n \in Nat \ {0} : n = p.chunkSize
  <2>1. p.chunkSize > 0
    BY DEF ParserOK, StateOK
  <2>2. p.chunkSize \in Nat
    BY DEF Parser
  <2> QED
    BY <2>1, <2>2
<1>2. PICK s \in States : /\ s = IF n = 1 THEN "ChunkDataNewLine_1" ELSE "ChunkData"
                          /\ s \in ChunkStates
  BY DEF States, ChunkStates
<1>3. PICK q \in Parser : /\ q = To(p, s) /\ q.state = s /\ q.method = p.method
                          /\ q.headers = p.headers /\ q.chunked = p.chunked
                          /\ q.content = p.content /\ q.chunkSize = n
  BY <1>1, <1>2, ToState
<1>4. Chunk(p, c) = [q EXCEPT !.chunkSize = @ - 1, !.content = Append(@, c)]
  BY <1>1, <1>2, <1>3 DEF Chunk
<1>5. PICK r \in Parser :
        /\ r = [q EXCEPT !.chunkSize = @ - 1, !.content = Append(@, c)]
        /\ r.state = q.state /\ r.method = q.method /\ r.headers = q.headers
        /\ r.chunked = q.chunked /\ r.chunkSize = n - 1
  <2>1. q.chunkSize - 1 \in Nat
    BY <1>3
  <2>2. Append(q.content, c) \in Seq(Lexemes)
    <3>1. q.content \in Seq(Lexemes)
      BY DEF Parser
    <3> QED
      BY <3>1, AppendProperties
  <2>3. PICK m \in Nat, b \in Seq(Lexemes) : m = q.chunkSize - 1 /\ b = Append(q.content, c)
    BY <2>1, <2>2
  <2>4. [q EXCEPT !.chunkSize = m, !.content = b] \in Parser
    BY DEF Parser
  <2>5. [q EXCEPT !.chunkSize = @ - 1, !.content = Append(@, c)] \in Parser
    BY ONLY <2>3, <2>4, Zenon
  <2>6. PICK r \in Parser : r = [q EXCEPT !.chunkSize = @ - 1, !.content = Append(@, c)]
    BY <2>5
  <2>7. r.chunkSize = q.chunkSize - 1 /\ r.state = q.state
    BY <2>6 DEF Parser
  <2>8. r.method = q.method /\ r.headers = q.headers /\ r.chunked = q.chunked
    BY <2>6 DEF Parser
  <2> QED
    BY <1>3, <2>6, <2>7, <2>8
<1>6. r.state = "ChunkData" => r.chunkSize > 0
  BY <1>2, <1>3, <1>5
<1>7. /\ r.state \in ChunkStates /\ r.method = p.method /\ r.headers = p.headers
      /\ r.chunked = p.chunked
  BY <1>2, <1>3, <1>5
<1>8. ParserOK(r)
  BY <1>0, <1>6, <1>7, ChunkStep
<1> QED
  BY <1>4, <1>5, <1>8

LEMMA ChunkOK ==
  ASSUME NEW p \in Parser, ParserOK(p), p.result = "incomplete", NEW c \in Lexemes,
         p.state \in ChunkStates
  PROVE  ParserOK(consume(p, c))
<1>0. consume(p, c) = Chunk(p, c)
  <2>1. p.state \notin {"RequestMethodStart", "RequestUri", "RequestHttpVersion_h",
                        "RequestHttpVersion_minor", "ResponseStatusStart",
                        "ResponseHttpVersion_minor", "ResponseHttpVersion_statusCodeStart",
                        "ResponseHttpVersion_statusCode", "ResponseHttpVersion_statusTextStart",
                        "ResponseHttpVersion_statusText", "HttpVersion_newLine",
                        "HeaderLineStart", "HeaderLws", "HeaderName",
                        "SpaceBeforeHeaderValue", "HeaderValue", "ExpectingNewline_2",
                        "ExpectingNewline_3", "Post"}
    BY DEF ChunkStates
  <2> QED
    BY <2>1 DEF consume
<1>1. \A s \in ChunkStates \ {"ChunkData"} : ParserOK(To(p, s))
  BY ChunkToOK
<1>2. ParserOK(p) /\ ParserOK(Error(p))
  BY ErrorOK
<1>3. /\ {"ChunkExtensionName", "ChunkExtensionValue", "ChunkSizeNewLine",
          "ChunkSizeNewLine_3", "ChunkTrailerName", "ChunkTrailerValue",
          "ChunkDataNewLine_2", "ChunkSize"} \subseteq ChunkStates \ {"ChunkData"}
  BY DEF ChunkStates
<1>4. Alnum = {"0", "1", "2", "y", "z"}
  BY DEF Alnum, Digits, ToSet, Numeral
<1>5. CASE p.state = "ChunkSize"
  <2>1. CASE c \in Alnum
    <3>1. c \notin {"semicolon", "CR"}
      BY <1>4, <2>1
    <3>2. Chunk(p, c) = [p EXCEPT !.chunkSizeStr = Append(@, c)]
      BY <1>5, <2>1, <3>1 DEF Chunk
    <3>3. PICK q \in Parser :
            /\ q = [p EXCEPT !.chunkSizeStr = Append(@, c)]
            /\ q.state = p.state /\ q.method = p.method
            /\ q.headers = p.headers /\ q.chunked = p.chunked
      <4>1. Append(p.chunkSizeStr, c) \in Seq(Alnum)
        <5>1. p.chunkSizeStr \in Seq(Alnum)
          BY DEF Parser
        <5> QED
          BY <2>1, <5>1, AppendProperties
      <4>2. [p EXCEPT !.chunkSizeStr = Append(@, c)] \in Parser
        BY <4>1 DEF Parser
      <4>3. PICK q \in Parser : q = [p EXCEPT !.chunkSizeStr = Append(@, c)]
        BY <4>2
      <4> QED
        BY <4>3 DEF Parser
    <3>4. ParserOK(q)
      BY <1>5, <3>3, ChunkStep
    <3> QED
      BY <1>0, <3>2, <3>3, <3>4
  <2>2. CASE c \notin Alnum
    <3>1. Chunk(p, c) \in {To(p, "ChunkExtensionName"), To(p, "ChunkSizeNewLine"), Error(p)}
      BY <1>5, <2>2 DEF Chunk
    <3> QED
      BY <1>0, <1>1, <1>2, <1>3, <3>1
  <2> QED
    BY <2>1, <2>2
<1>6. CASE p.state \in {"ChunkExtensionName", "ChunkExtensionValue", "ChunkTrailerValue"}
  <2>1. c \in Alnum \cup {"SP"} => c \notin {"=", "CR"}
    BY <1>4
  <2>2. Chunk(p, c) \in {p, To(p, "ChunkExtensionValue"), To(p, "ChunkSizeNewLine"), Error(p)}
    BY <1>6, <2>1 DEF Chunk
  <2> QED
    BY <1>0, <1>1, <1>2, <1>3, <2>2
<1>7. CASE p.state = "ChunkSizeNewLine"
  <2>1. Chunk(p, c) = ChunkLine(p, c)
    BY <1>7 DEF Chunk
  <2> QED
    BY <1>0, <1>7, <2>1, ChunkLineOK
<1>8. CASE p.state = "ChunkSizeNewLine_2"
  <2>1. Chunk(p, c) \in {To(p, "ChunkSizeNewLine_3"), To(p, "ChunkTrailerName"), Error(p)}
    BY <1>8 DEF Chunk
  <2> QED
    BY <1>0, <1>1, <1>2, <1>3, <2>1
<1>9. CASE p.state = "ChunkSizeNewLine_3"
  <2>1. Chunk(p, c) = Completed(p) \/ Chunk(p, c) = Error(p)
    BY <1>9 DEF Chunk
  <2>2. PICK q \in Parser : /\ q = Completed(p) /\ q.state = p.state /\ q.method = p.method
                            /\ q.headers = p.headers /\ q.chunked = p.chunked
    BY CompletedState
  <2>3. ParserOK(q)
    BY <1>9, <2>2, ChunkStep
  <2> QED
    BY <1>0, <1>2, <2>1, <2>2, <2>3
<1>10. CASE p.state = "ChunkTrailerName"
  <2>1. c \in Alnum => c # ":"
    BY <1>4
  <2>2. Chunk(p, c) \in {p, To(p, "ChunkTrailerValue"), Error(p)}
    BY <1>10, <2>1 DEF Chunk
  <2> QED
    BY <1>0, <1>1, <1>2, <1>3, <2>2
<1>11. CASE p.state = "ChunkData"
  BY <1>0, <1>11, ChunkDataOK
<1>12. CASE p.state \in {"ChunkDataNewLine_1", "ChunkDataNewLine_2"}
  <2>1. Chunk(p, c) \in {To(p, "ChunkDataNewLine_2"), To(p, "ChunkSize"), Error(p)}
    BY <1>12 DEF Chunk, Expect
  <2> QED
    BY <1>0, <1>1, <1>2, <1>3, <2>1
<1> QED
  BY <1>5, <1>6, <1>7, <1>8, <1>9, <1>10, <1>11, <1>12 DEF ChunkStates

\* Whatever it is given, a parser keeps its invariant.
LEMMA ConsumeOK ==
  ASSUME NEW p \in Parser, ParserOK(p), p.result = "incomplete", NEW c \in Lexemes
  PROVE  ParserOK(consume(p, c))
<1>1. p.state \in States
  BY DEF Parser
<1> QED
  BY <1>1, StartLineOK, HeaderOK, HeadersEndOK, PostOK, ChunkOK DEF States

---------------------------------------------------------------------------
(* What is sent is a sequence of lexemes *)

Text == Seq(Lexemes)

LEMMA SequenceInto ==
  ASSUME NEW S, NEW T, NEW s \in Seq(S), \A x \in S : x \in T
  PROVE  s \in Seq(T)
<1>1. PICK n \in Nat : n = Len(s) /\ s = [k \in 1 .. n |-> s[k]] /\ \A k \in 1 .. n : s[k] \in S
  BY LenProperties, ElementOfSeq
<1>2. \A k \in 1 .. n : s[k] \in T
  BY <1>1
<1>3. [k \in 1 .. n |-> s[k]] \in Seq(T)
  BY <1>2, IsASeq
<1> QED
  BY <1>1, <1>3

LEMMA TupleIsText ==
  /\ \A a \in Lexemes : <<a>> \in Text
  /\ \A a, b \in Lexemes : <<a, b>> \in Text
  /\ \A a, b, c \in Lexemes : <<a, b, c>> \in Text
  /\ \A a, b, c, d \in Lexemes : <<a, b, c, d>> \in Text
  /\ \A a, b, c, d, e \in Lexemes : <<a, b, c, d, e>> \in Text
  /\ \A a, b, c, d, e, f \in Lexemes : <<a, b, c, d, e, f>> \in Text
BY DEF Text

LEMMA ConcatIsText ==
  ASSUME NEW a \in Text, NEW b \in Text
  PROVE  a \o b \in Text
BY ConcatProperties DEF Text

LEMMA TokensAreLexemes ==
  /\ Tokens \subseteq Lexemes
  /\ {"0", "1", "2", "y", "z", "-", "chunked", "Content-Length", "Transfer-Encoding",
      "Last-Modified", "ETag", "Cache-Control"} \subseteq Tokens
BY DEF Lexemes, Tokens, Alnum, Digits, ToSet, Numeral, Names, Validators

LEMMA LexemesAreText ==
  /\ <<>> \in Text /\ <<"CR", "LF">> \in Text /\ <<":", "SP">> \in Text
  /\ <<"HTTP/1.1">> \in Text /\ <<"GET", "HTTP/1.1", "CR", "LF">> \in Text
  /\ <<"SP", "2", "0", "0", "SP">> \in Text /\ <<"OK">> \in Text /\ <<"private">> \in Text
  /\ <<"HTTP/1.1", "SP", "2", "0", "0", "SP">> \in Text
  /\ <<"ETag", ":", "y", "CR", "LF">> \in Text
  /\ <<"semicolon", "y", "=", "z">> \in Text /\ <<"chunked">> \in Text
  /\ <<"y">> \in Text /\ <<"z">> \in Text
  /\ <<"y", "CR", "LF", "SP", "z">> \in Text
<1>1. {"CR", "LF", "SP", ":", "semicolon", "=", "HTTP/1.1", "OK", "private", "GET"}
        \subseteq Lexemes
  BY DEF Lexemes, Requests
<1>2. {"y", "z", "0", "2", "chunked", "ETag"} \subseteq Lexemes
  BY TokensAreLexemes
<1>3. <<>> \in Text
  BY EmptySeq DEF Text
<1> QED
  BY <1>1, <1>2, <1>3, TupleIsText

LEMMA SizeIsText ==
  ASSUME NEW s \in Text, Len(s) < Len(Numeral)
  PROVE  Size(s) \in Text
<1>1. Len(s) \in Nat
  BY LenProperties DEF Text
<1>2. Len(Numeral) = 3 /\ \A k \in 1 .. 3 : Numeral[k] \in Lexemes
  <2>1. Len(Numeral) = 3 /\ \A k \in 1 .. 3 : Numeral[k] \in {"0", "1", "2"}
    BY DEF Numeral
  <2> QED
    BY <2>1, TokensAreLexemes
<1>3. Len(s) + 1 \in 1 .. 3
  BY <1>1, <1>2
<1>4. Numeral[Len(s) + 1] \in Lexemes
  BY <1>2, <1>3
<1> QED
  BY <1>4, TupleIsText DEF Size

LEMMA WrittenIsText ==
  ASSUME NEW h, h.name \in Text, h.value \in Text
  PROVE  Written(h) \in Text
<1>1. h.name \o <<":", "SP">> \in Text
  BY ConcatIsText, LexemesAreText
<1>2. (h.name \o <<":", "SP">>) \o h.value \in Text
  BY <1>1, ConcatIsText
<1>3. ((h.name \o <<":", "SP">>) \o h.value) \o <<"CR", "LF">> \in Text
  BY <1>2, ConcatIsText, LexemesAreText
<1> QED
  BY <1>3 DEF Written

LEMMA LineIsText ==
  ASSUME NEW name \in Lexemes, NEW value \in Text
  PROVE  Line(name, value) \in Text
<1>1. Item(name, value).name = <<name>> /\ Item(name, value).value = value
  BY DEF Item
<1>2. <<name>> \in Text
  BY TupleIsText
<1> QED
  BY <1>1, <1>2, WrittenIsText DEF Line

LEMMA HeaderTextIsText ==
  ASSUME NEW hs, NEW n \in Nat, DOMAIN hs = 1 .. n,
         \A k \in 1 .. n : hs[k].name \in Text /\ hs[k].value \in Text
  PROVE  HeaderText(hs) \in Text
<1> DEFINE ss == [k \in DOMAIN hs |-> Written(hs[k])]
<1>1. \A k \in 1 .. n : Written(hs[k]) \in Text
  BY WrittenIsText
<1>2. ss \in Seq(Text)
  BY <1>1, IsASeq
<1>3. FlattenSeq(ss) \in Seq(Lexemes)
  BY <1>2, FlattenedPieces DEF Text
<1> QED
  BY <1>3 DEF HeaderText, Text

LEMMA FieldText ==
  ASSUME NEW h \in Field
  PROVE  h.name \in Text /\ h.value \in Text
<1>1. \A x \in Tokens : x \in Lexemes
  BY TokensAreLexemes
<1>2. h.name \in Seq(Tokens) /\ h.value \in Seq(Lexemes \ {"CR", "LF"})
  BY DEF Field, Name, Value
<1>3. h.name \in Seq(Lexemes)
  BY <1>1, <1>2, SequenceInto
<1>4. h.value \in Seq(Lexemes)
  BY <1>2, SequenceInto
<1> QED
  BY <1>3, <1>4 DEF Text

LEMMA FieldsAreText ==
  ASSUME NEW hs \in Seq(Field)
  PROVE  HeaderText(hs) \in Text
<1>1. PICK n \in Nat : DOMAIN hs = 1 .. n /\ \A k \in 1 .. n : hs[k] \in Field
  BY LenProperties, ElementOfSeq
<1> QED
  BY <1>1, FieldText, HeaderTextIsText

LEMMA NamesAreLexemes ==
  /\ "Content-Length" \in Lexemes /\ "Transfer-Encoding" \in Lexemes
  /\ "Last-Modified" \in Lexemes /\ "ETag" \in Lexemes /\ "Cache-Control" \in Lexemes
  /\ "y" \in Lexemes
BY TokensAreLexemes

LEMMA ChunksAreText ==
  ASSUME NEW m \in Messages
  PROVE  m.start \in Lexemes /\ m.size \in Text /\ m.chunks \in Seq(Text)
<1>1. \A x \in STRING : x \in Lexemes
  BY DEF Lexemes
<1>2. \A t \in Seq(STRING) : t \in Text
  BY <1>1, SequenceInto DEF Text
<1>3. PICK ss \in Seq(Seq(STRING)) : ss = m.chunks
  BY MessagesAssumption
<1>4. ss \in Seq(Text)
  BY <1>2, SequenceInto
<1> QED
  BY <1>1, <1>2, <1>3, <1>4, MessagesAssumption

LEMMA HeadersAreText ==
  ASSUME NEW m \in Messages
  PROVE  Headers(m) \in Text
<1>0. Body(m) \in Text
  <2>1. m.chunks \in Seq(Text)
    BY ChunksAreText
  <2> QED
    BY <2>1, FlattenedPieces DEF Body, Text
<1> DEFINE framing ==
             CASE m.framing = "length" -> Line("Content-Length", Size(Body(m)))
               [] m.framing = "chunked" -> Line("Transfer-Encoding", <<"chunked">>)
               [] m.framing = "given" -> Line("Content-Length", m.size)
               [] OTHER -> <<>>
           extra ==
             CASE m.extra = "header" -> Line("Last-Modified", <<"z">>) \o Line("ETag", <<"y">>)
               [] m.extra = "folded" -> Line("ETag", <<"y", "CR", "LF", "SP", "z">>)
               [] m.extra = "private" -> Line("Cache-Control", <<"private">>)
               [] m.extra = "unspaced" -> <<"ETag", ":", "y", "CR", "LF">>
               [] OTHER -> <<>>
<1>1. framing \in Text
  <2>1. CASE m.framing = "length"
    <3>1. Size(Body(m)) \in Text
      BY <1>0, <2>1, SizeIsText, MessagesAssumption
    <3>2. framing = Line("Content-Length", Size(Body(m)))
      BY <2>1
    <3>3. Line("Content-Length", Size(Body(m))) \in Text
      BY <3>1, LineIsText, NamesAreLexemes
    <3> QED
      BY <3>2, <3>3
  <2>2. CASE m.framing = "chunked"
    <3>1. framing = Line("Transfer-Encoding", <<"chunked">>)
      BY <2>2
    <3>2. Line("Transfer-Encoding", <<"chunked">>) \in Text
      BY LexemesAreText, LineIsText, NamesAreLexemes
    <3> QED
      BY <3>1, <3>2
  <2>3. CASE m.framing = "given"
    <3>1. framing = Line("Content-Length", m.size)
      BY <2>3
    <3>2. Line("Content-Length", m.size) \in Text
      BY ChunksAreText, LineIsText, NamesAreLexemes
    <3> QED
      BY <3>1, <3>2
  <2>4. CASE m.framing \notin {"length", "chunked", "given"}
    <3>1. framing = <<>>
      BY <2>4
    <3> QED
      BY <3>1, LexemesAreText
  <2> QED
    BY <2>1, <2>2, <2>3, <2>4
<1>2. extra \in Text
  <2>1. CASE m.extra = "header"
    <3>1. extra = Line("Last-Modified", <<"z">>) \o Line("ETag", <<"y">>)
      BY <2>1
    <3>2. Line("Last-Modified", <<"z">>) \in Text /\ Line("ETag", <<"y">>) \in Text
      BY LexemesAreText, LineIsText, NamesAreLexemes
    <3> QED
      BY <3>1, <3>2, ConcatIsText
  <2>2. CASE m.extra = "folded"
    <3>1. extra = Line("ETag", <<"y", "CR", "LF", "SP", "z">>)
      BY <2>2
    <3>2. Line("ETag", <<"y", "CR", "LF", "SP", "z">>) \in Text
      BY LexemesAreText, LineIsText, NamesAreLexemes
    <3> QED
      BY <3>1, <3>2
  <2>3. CASE m.extra = "private"
    <3>1. extra = Line("Cache-Control", <<"private">>)
      BY <2>3
    <3>2. Line("Cache-Control", <<"private">>) \in Text
      BY LexemesAreText, LineIsText, NamesAreLexemes
    <3> QED
      BY <3>1, <3>2
  <2>4. CASE m.extra = "unspaced"
    <3>1. extra = <<"ETag", ":", "y", "CR", "LF">>
      BY <2>4
    <3> QED
      BY <3>1, LexemesAreText
  <2>5. CASE m.extra \notin {"header", "folded", "private", "unspaced"}
    <3>1. extra = <<>>
      BY <2>5
    <3> QED
      BY <3>1, LexemesAreText
  <2> QED
    BY <2>1, <2>2, <2>3, <2>4, <2>5
<1>3. Headers(m) = (framing \o extra) \o <<"CR", "LF">>
  BY DEF Headers
<1> HIDE DEF framing, extra
<1> QED
  BY <1>1, <1>2, <1>3, ConcatIsText, LexemesAreText

LEMMA ChunkIsText ==
  ASSUME NEW m \in Messages, NEW chunk \in Text, Len(chunk) < Len(Numeral)
  PROVE  ChunkWire(m, chunk) \in Text
<1> DEFINE extension == IF m.extra = "extension" THEN <<"semicolon", "y", "=", "z">> ELSE <<>>
           lineEnd == IF chunk = <<>> THEN <<>> ELSE <<"CR", "LF">>
<1>1. extension \in Text /\ lineEnd \in Text /\ <<"CR", "LF">> \in Text /\ Size(chunk) \in Text
  BY LexemesAreText, SizeIsText
<1>2. ChunkWire(m, chunk) = (((Size(chunk) \o extension) \o <<"CR", "LF">>) \o chunk) \o lineEnd
  BY DEF ChunkWire
<1> HIDE DEF extension, lineEnd
<1>3. Size(chunk) \o extension \in Text
  BY <1>1, ConcatIsText
<1>4. (Size(chunk) \o extension) \o <<"CR", "LF">> \in Text
  BY <1>1, <1>3, ConcatIsText
<1>5. ((Size(chunk) \o extension) \o <<"CR", "LF">>) \o chunk \in Text
  BY <1>4, ConcatIsText
<1> QED
  BY <1>1, <1>2, <1>5, ConcatIsText

LEMMA BodyIsText ==
  ASSUME NEW m \in Messages
  PROVE  BodyWire(m) \in Text
<1>1. m.chunks \in Seq(Text)
  BY ChunksAreText
<1>2. CASE m.framing # "chunked"
  <2>1. Body(m) \in Text
    BY <1>1, FlattenedPieces DEF Body, Text
  <2> QED
    BY <1>2, <2>1 DEF BodyWire
<1>3. CASE m.framing = "chunked"
  <2> DEFINE ss == [k \in DOMAIN m.chunks |-> ChunkWire(m, m.chunks[k])]
             trailer == IF m.extra = "trailer" THEN Line("y", <<"z">>) ELSE <<>>
  <2>1. PICK n \in Nat : DOMAIN m.chunks = 1 .. n /\ \A k \in 1 .. n : m.chunks[k] \in Text
    BY <1>1, LenProperties, ElementOfSeq
  <2>2. \A k \in 1 .. n : Len(m.chunks[k]) < Len(Numeral)
    BY <1>3, <2>1, MessagesAssumption
  <2>3. \A k \in 1 .. n : ChunkWire(m, m.chunks[k]) \in Text
    BY <2>1, <2>2, ChunkIsText
  <2>4. ss \in Seq(Text)
    BY <2>1, <2>3, IsASeq
  <2>5. FlattenSeq(ss) \in Text
    <3> HIDE DEF ss
    <3> QED
      BY <2>4, FlattenedPieces DEF Text
  <2>6. ChunkWire(m, <<>>) \in Text
    <3>1. <<>> \in Text /\ Len(<<>>) < Len(Numeral)
      BY LexemesAreText DEF Numeral
    <3> QED
      BY <3>1, ChunkIsText
  <2>7. trailer \in Text /\ <<"CR", "LF">> \in Text
    BY LexemesAreText, LineIsText, NamesAreLexemes
  <2>8. BodyWire(m) = ((FlattenSeq(ss) \o ChunkWire(m, <<>>)) \o trailer) \o <<"CR", "LF">>
    BY <1>3 DEF BodyWire
  <2> HIDE DEF ss, trailer
  <2>9. FlattenSeq(ss) \o ChunkWire(m, <<>>) \in Text
    BY <2>5, <2>6, ConcatIsText
  <2>10. (FlattenSeq(ss) \o ChunkWire(m, <<>>)) \o trailer \in Text
    BY <2>7, <2>9, ConcatIsText
  <2> QED
    BY <2>7, <2>8, <2>10, ConcatIsText
<1> QED
  BY <1>2, <1>3

LEMMA WireIsText ==
  ASSUME NEW m \in Messages
  PROVE  Wire(m) \in Text
<1> DEFINE reason == IF m.extra = "reasonless" THEN <<>> ELSE <<"OK">>
           begins == <<m.start, "SP", "2", "0", "0", "SP">> \o reason
<1>1. reason \in Text /\ <<"CR", "LF">> \in Text
  BY LexemesAreText
<1>2. /\ m.start \in Lexemes
      /\ {"HTTP/1.1", "SP", "2", "0"} \subseteq Lexemes
  BY ChunksAreText, TokensAreLexemes DEF Lexemes
<1> HIDE DEF reason
<1>3. <<m.start, "HTTP/1.1">> \in Text /\ begins \in Text
  <2>1. <<m.start, "SP", "2", "0", "0", "SP">> \in Text
    BY <1>2, TupleIsText
  <2> QED
    BY <1>1, <1>2, <2>1, TupleIsText, ConcatIsText
<1>4. StartLine(m) = (IF m.start \in Requests THEN <<m.start, "HTTP/1.1">> ELSE begins)
                       \o <<"CR", "LF">>
  BY DEF StartLine, reason
<1> HIDE DEF begins
<1>5. StartLine(m) \in Text
  BY <1>1, <1>3, <1>4, ConcatIsText
<1>6. StartLine(m) \o Headers(m) \in Text
  BY <1>5, HeadersAreText, ConcatIsText
<1>7. Wire(m) = (StartLine(m) \o Headers(m)) \o BodyWire(m)
  BY DEF Wire
<1> QED
  BY <1>6, <1>7, BodyIsText, ConcatIsText

\* What is written of a response that has been stored, and the request that
\* asks about it.
LEMMA InspectIsText ==
  ASSUME NEW p \in Parser
  PROVE  Inspect(p) \in Text
<1>1. PICK hs \in Seq(Field) : hs = p.headers
  BY DEF Parser
<1>2. HeaderText(hs) \in Text
  BY FieldsAreText
<1>3. p.content \in Text
  BY DEF Parser, Text
<1>4. PICK status \in Text : status = p.status
  BY DEF Parser, Text
<1>5. StatusText(p) \in Text
  <2>1. StatusText(p) = (<<"HTTP/1.1", "SP", "2", "0", "0", "SP">> \o status) \o <<"CR", "LF">>
    BY <1>4 DEF StatusText
  <2>2. <<"HTTP/1.1", "SP", "2", "0", "0", "SP">> \o status \in Text
    BY LexemesAreText, ConcatIsText
  <2> QED
    BY <2>1, <2>2, LexemesAreText, ConcatIsText
<1>6. Inspect(p) = ((StatusText(p) \o HeaderText(hs)) \o <<"CR", "LF">>) \o p.content
  BY <1>1 DEF Inspect
<1>7. StatusText(p) \o HeaderText(hs) \in Text
  BY <1>2, <1>5, ConcatIsText
<1>8. (StatusText(p) \o HeaderText(hs)) \o <<"CR", "LF">> \in Text
  BY <1>7, LexemesAreText, ConcatIsText
<1> QED
  BY <1>3, <1>6, <1>8, ConcatIsText

LEMMA LeastIsMin ==
  ASSUME NEW T \in SUBSET Nat, T # {}
  PROVE  Min(T) \in T /\ \A x \in T : Min(T) <= x
<1>1. PICK x \in T : \A y \in T : x <= y
  BY LeastNatural
<1> QED
  BY <1>1 DEF Min

\* A header that a 304 brings, and the headers it is put into.
LEMMA UpdatesAreFields == Updates \subseteq Field
<1> SUFFICES ASSUME NEW h \in Updates PROVE h \in Field
  OBVIOUS
<1>1. PICK n \in Seq(Tokens) \ {<<>>}, v \in Seq(STRING) : h = [name |-> n, value |-> v]
  BY UpdatesAssumption
<1>2. \A k \in DOMAIN v : v[k] \notin {"CR", "LF"}
  BY <1>1, UpdatesAssumption
<1>3. PICK l \in Nat : l = Len(v) /\ v = [k \in 1 .. l |-> v[k]] /\ DOMAIN v = 1 .. l
  BY LenProperties
<1>4. \A k \in 1 .. l : v[k] \in Lexemes \ {"CR", "LF"}
  BY <1>2, <1>3, ElementOfSeq DEF Lexemes
<1>5. [k \in 1 .. l |-> v[k]] \in Seq(Lexemes \ {"CR", "LF"})
  BY <1>4, IsASeq
<1>6. v \in Value
  BY <1>3, <1>5 DEF Value
<1> QED
  BY <1>1, <1>6 DEF Field, Name

LEMMA UpdatedHeaders ==
  ASSUME NEW hs \in Seq(Field), NEW h \in Field
  PROVE  update_response(hs, h) \in Seq(Field)
<1> DEFINE found == {k \in DOMAIN hs : hs[k].name = h.name}
<1>1. PICK n \in Nat : n = Len(hs) /\ DOMAIN hs = 1 .. n /\ \A k \in 1 .. n : hs[k] \in Field
  BY LenProperties, ElementOfSeq
<1>2. found \in SUBSET Nat /\ found \subseteq 1 .. n
  BY <1>1
<1>3. CASE found = {}
  <2>1. update_response(hs, h) = Append(hs, h)
    BY <1>3 DEF update_response
  <2> QED
    BY <2>1, AppendProperties
<1>4. CASE found # {}
  <2> HIDE DEF found
  <2>1. PICK k \in 1 .. n : k = Min(found)
    BY <1>2, <1>4, LeastIsMin
  <2>2. PICK g \in Field : g = [hs[k] EXCEPT !.value = h.value]
    <3>1. PICK f \in Field : f = hs[k]
      BY <1>1
    <3>2. [f EXCEPT !.value = h.value] \in Field
      BY DEF Field
    <3> QED
      BY <3>1, <3>2
  <2>3. update_response(hs, h) = [hs EXCEPT ![k] = g]
    BY <1>4, <2>1, <2>2 DEF update_response, found
  <2> QED
    BY <1>1, <2>3, ExceptSeq
<1> QED
  BY <1>3, <1>4

LEMMA HeaderValueIsText ==
  ASSUME NEW hs \in Seq(Field), NEW name
  PROVE  get_header_value(hs, name) \in Text
<1> DEFINE found == {k \in DOMAIN hs : hs[k].name = <<name>>}
<1>1. PICK n \in Nat : DOMAIN hs = 1 .. n /\ \A k \in 1 .. n : hs[k] \in Field
  BY LenProperties, ElementOfSeq
<1>2. \A k \in 1 .. n : hs[k].value \in Text
  <2>1. \A h \in Field : h.value \in Seq(Lexemes \ {"CR", "LF"})
    BY DEF Field, Value
  <2>2. \A h \in Field : h.value \in Seq(Lexemes)
    BY <2>1, SequenceInto
  <2> QED
    BY <1>1, <2>2 DEF Text
<1>3. get_header_value(hs, name) = IF found = {} THEN <<>> ELSE hs[Min(found)].value
  BY DEF get_header_value
<1>4. found \in SUBSET Nat /\ found \subseteq 1 .. n
  BY <1>1
<1> HIDE DEF found
<1>5. found # {} => Min(found) \in 1 .. n
  BY <1>4, LeastIsMin
<1> QED
  BY <1>2, <1>3, <1>5, LexemesAreText

LEMMA ConditionalIsText ==
  ASSUME NEW hs \in Seq(Field)
  PROVE  InspectRequest(construct_conditional_request(hs)) \in Text
<1> DEFINE Headed == [name : Text, value : Text]
           modified == get_header_value(hs, "Last-Modified")
           etag == get_header_value(hs, "ETag")
           ims == IF modified # <<>> THEN <<Item("If-Modified-Since", modified)>> ELSE <<>>
           inm == IF etag # <<>> THEN <<Item("If-None-Match", etag)>> ELSE <<>>
           cs == (<<Item("Host", Host)>> \o ims) \o inm
<1>1. /\ "Host" \in Lexemes /\ "If-Modified-Since" \in Lexemes /\ "If-None-Match" \in Lexemes
      /\ Host \in Text /\ modified \in Text /\ etag \in Text
  <2>1. {"Host", "If-Modified-Since", "If-None-Match"} \subseteq Lexemes
    BY DEF Lexemes, Tokens, Names
  <2> QED
    BY <2>1, HeaderValueIsText, LexemesAreText DEF Host
<1> HIDE DEF modified, etag
<1>2. \A name \in Lexemes, value \in Text : <<Item(name, value)>> \in Seq(Headed)
  <2> SUFFICES ASSUME NEW name \in Lexemes, NEW value \in Text
               PROVE  <<Item(name, value)>> \in Seq(Headed)
    OBVIOUS
  <2>1. Item(name, value) \in Headed
    BY TupleIsText DEF Item
  <2> HIDE DEF Headed
  <2> QED
    BY <2>1
<1>3. ims \in Seq(Headed) /\ inm \in Seq(Headed) /\ <<Item("Host", Host)>> \in Seq(Headed)
  <2> HIDE DEF Headed
  <2> QED
    BY <1>1, <1>2
<1>4. cs \in Seq(Headed)
  <2> HIDE DEF Headed, ims, inm
  <2>1. <<Item("Host", Host)>> \o ims \in Seq(Headed)
    BY <1>3, ConcatProperties
  <2> QED
    BY <1>3, <2>1, ConcatProperties
<1>5. construct_conditional_request(hs) = cs
  BY DEF construct_conditional_request, modified, etag
<1>6. HeaderText(cs) \in Text
  <2> HIDE DEF cs
  <2>1. PICK n \in Nat : DOMAIN cs = 1 .. n /\ \A k \in 1 .. n : cs[k] \in Headed
    BY <1>4, LenProperties, ElementOfSeq
  <2>2. \A k \in 1 .. n : cs[k].name \in Text /\ cs[k].value \in Text
    BY <2>1
  <2> QED
    BY <2>1, <2>2, HeaderTextIsText
<1>7. InspectRequest(cs) = (<<"GET", "HTTP/1.1", "CR", "LF">> \o HeaderText(cs)) \o <<"CR", "LF">>
  BY DEF InspectRequest
<1> HIDE DEF cs
<1>8. <<"GET", "HTTP/1.1", "CR", "LF">> \o HeaderText(cs) \in Text
  BY <1>6, LexemesAreText, ConcatIsText
<1> QED
  BY <1>5, <1>7, <1>8, LexemesAreText, ConcatIsText

---------------------------------------------------------------------------
(* The invariant of the specification *)

IInv ==
  /\ wire \in Text /\ pos \in Nat /\ parser \in Parser
  /\ phase \in {"client", "server"} => stored \in Parser
  /\ ParserOK(parser)

LEMMA NewParserOK ==
  ASSUME NEW start
  PROVE  NewParser(start) \in Parser /\ ParserOK(NewParser(start))
<1>1. PICK s \in States : /\ s \in StartStates
                          /\ s = IF start \in Requests THEN "RequestMethodStart"
                                  ELSE "ResponseStatusStart"
  BY DEF States, StartStates
<1>2. PICK p \in Parser :
        /\ p = NewParser(start) /\ p.state = s /\ p.method = "none" /\ p.headers = <<>>
        /\ p.content = <<>> /\ p.result = "incomplete" /\ p.contentSize = 0
        /\ p.chunked = FALSE
  <2>1. <<>> \in Seq(Field) /\ <<>> \in Seq(Lexemes) /\ <<>> \in Seq(Alnum)
    BY EmptySeq
  <2>2. NewParser(start) \in Parser
    BY <1>1, <2>1 DEF NewParser, Parser
  <2> QED
    BY <1>1, <2>2 DEF NewParser
<1>3. s \notin ChunkStates \cup Partial \cup {"Post", "HeaderLws", "ChunkData"}
  BY <1>1 DEF StartStates, ChunkStates, Partial
<1>4. StateOK(p)
  BY <1>1, <1>2, <1>3 DEF StateOK
<1>5. Complete(p) = <<>> /\ DOMAIN <<>> = {} /\ Len(<<>>) = 0
  BY <1>2, <1>3 DEF Complete
<1>6. p.contentSize + Len(p.content) = Length(p.headers)
  BY <1>2, <1>5, LengthOfNothing
<1>7. FramingOK(p)
  BY <1>2, <1>3, <1>5, <1>6 DEF FramingOK, Partial
<1> QED
  BY <1>2, <1>4, <1>7 DEF ParserOK

LEMMA InitIInv == Init => IInv
<1> SUFFICES ASSUME Init PROVE IInv
  OBVIOUS
<1>1. Wire(message) \in Text
  BY WireIsText DEF Init
<1>2. wire \in Text
  <2>1. CASE wire = Wire(message)
    BY <1>1, <2>1
  <2>2. CASE \E k \in 2 .. Len(Wire(message)), c \in Noise :
               wire = [Wire(message) EXCEPT ![k] = c]
    <3>1. PICK t \in Seq(Lexemes) : t = Wire(message)
      BY <1>1 DEF Text
    <3>2. PICK k \in 2 .. Len(t), c \in Noise : wire = [t EXCEPT ![k] = c]
      BY <2>2, <3>1
    <3>3. c \in Lexemes
      BY MessagesAssumption DEF Lexemes
    <3>4. k \in 1 .. Len(t)
      BY LenProperties
    <3> QED
      BY <3>2, <3>3, <3>4, ExceptSeq DEF Text
  <2>3. CASE \E k \in 2 .. Len(Wire(message)) : wire = RemoveAt(Wire(message), k)
    <3>1. PICK t \in Seq(Lexemes) : t = Wire(message)
      BY <1>1 DEF Text
    <3>2. PICK k \in 2 .. Len(t) : wire = RemoveAt(t, k)
      BY <2>3, <3>1
    <3>3. PICK n \in Nat : n = Len(t) /\ \A i \in 1 .. n : t[i] \in Lexemes
      BY LenProperties, ElementOfSeq
    <3>4. /\ \A i \in 1 .. k - 1 : t[i] \in Lexemes
          /\ \A i \in k + 1 .. n : t[i] \in Lexemes
      BY <3>3
    <3>5. SubSeq(t, 1, k - 1) \in Text /\ SubSeq(t, k + 1, n) \in Text
      <4>1. k - 1 \in Int /\ k + 1 \in Int /\ 1 \in Int
        BY <3>3
      <4> QED
        BY <3>4, <4>1, SubSeqProperties DEF Text
    <3>6. wire = SubSeq(t, 1, k - 1) \o SubSeq(t, k + 1, n)
      BY <3>2, <3>3 DEF RemoveAt
    <3> QED
      BY <3>5, <3>6, ConcatIsText
  <2> QED
    BY <2>1, <2>2, <2>3 DEF Init
<1> QED
  BY <1>2, NewParserOK DEF Init, IInv

LEMMA NextIInv == IInv /\ [Next]_vars => IInv'
<1> SUFFICES ASSUME IInv, [Next]_vars PROVE IInv'
  OBVIOUS
<1>1. CASE Consume
  <2>1. PICK s \in Seq(Lexemes) : s = wire
    BY DEF IInv, Text
  <2>2. wire[pos + 1] \in Lexemes
    <3>1. Len(s) \in Nat /\ pos + 1 \in 1 .. Len(s)
      BY <1>1, <2>1, LenProperties DEF Consume, IInv
    <3> QED
      BY <2>1, <3>1, ElementOfSeq
  <2>3. parser' \in Parser /\ ParserOK(parser')
    <3>1. ParserOK(consume(parser, wire[pos + 1]))
      BY <1>1, <2>2, ConsumeOK DEF Consume, IInv
    <3> QED
      BY <1>1, <3>1 DEF Consume, ParserOK
  <2> QED
    BY <1>1, <2>3 DEF Consume, IInv
<1>2. CASE Throw
  BY <1>2 DEF Throw, IInv
<1>3. CASE Store
  <2>1. parser' \in Parser /\ ParserOK(parser')
    BY <1>3, NewParserOK DEF Store
  <2>2. wire' \in Text /\ stored' \in Parser /\ pos' \in Nat
    BY <1>3, InspectIsText DEF Store, IInv
  <2> QED
    BY <2>1, <2>2 DEF IInv
<1>4. CASE Revalidate
  <2>1. parser' \in Parser /\ ParserOK(parser')
    BY <1>4, NewParserOK DEF Revalidate
  <2>2. stored \in Parser
    BY <1>4 DEF Revalidate, IInv
  <2>3. stored.headers \in Seq(Field)
    BY <2>2 DEF Parser
  <2>4. wire' \in Text /\ stored' = stored /\ pos' = pos
    BY <1>4, <2>3, ConditionalIsText DEF Revalidate
  <2> QED
    BY <2>1, <2>2, <2>4 DEF IInv
<1>5. CASE Freshen
  <2>1. PICK h \in Updates : stored' = [stored EXCEPT !.headers = update_response(@, h)]
    BY <1>5 DEF Freshen
  <2>2. stored' \in Parser
    <3>1. stored.headers \in Seq(Field) /\ h \in Field
      BY <1>5, UpdatesAreFields DEF Freshen, IInv, Parser
    <3>2. PICK hs \in Seq(Field) : hs = update_response(stored.headers, h)
      BY <3>1, UpdatedHeaders
    <3>3. stored' = [stored EXCEPT !.headers = hs]
      BY <2>1, <3>2
    <3> QED
      BY <1>5, <3>3 DEF Freshen, IInv, Parser
  <2>3. wire' \in Text
    BY <1>5, <2>2, InspectIsText DEF Freshen
  <2> QED
    BY <1>5, <2>2, <2>3 DEF Freshen, IInv
<1>6. CASE UNCHANGED vars
  BY <1>6 DEF vars, IInv
<1> QED
  BY <1>1, <1>2, <1>3, <1>4, <1>5, <1>6 DEF Next, StoreFetched, StoreValidated, Done

LEMMA IInvDelimits == IInv => AcceptedIsDelimited
<1> SUFFICES ASSUME IInv PROVE AcceptedIsDelimited
  OBVIOUS
<1>1. PICK p \in Parser : p = parser /\ ParserOK(p)
  BY DEF IInv
<1>2. StateOK(p) /\ (p.result # "error" /\ p.method # "GET" => FramingOK(p))
  BY <1>1 DEF ParserOK
<1>3. p.state = "Post" /\ p.result = "incomplete" => p.contentSize > 0
  BY <1>2 DEF StateOK
<1>4. p.state = "ChunkData" => p.chunkSize > 0
  BY <1>2 DEF StateOK
<1>5. ASSUME p.result = "completed", p.method # "GET", p.chunked = FALSE
      PROVE  Len(p.content) = Length(p.headers)
  <2>1. p.state \notin Partial
    BY <1>2, <1>5 DEF StateOK
  <2>2. p.contentSize = 0 /\ p.contentSize + Len(p.content) = Length(p.headers)
    BY <1>2, <1>5, <2>1 DEF FramingOK
  <2>3. PICK l \in Nat : l = Len(p.content)
    <3>1. p.content \in Seq(Lexemes)
      BY DEF Parser
    <3> QED
      BY <3>1, LenProperties
  <2>4. 0 + l = l
    OBVIOUS
  <2> QED
    BY <2>2, <2>3, <2>4
<1>6. p.chunked \in BOOLEAN
  BY DEF Parser
<1>7. p.result = "completed" /\ p.method # "GET" /\ ~p.chunked => Len(p.content) = Length(p.headers)
  BY <1>5, <1>6
<1> DEFINE k == Max(Announcing(p.headers))
           size == Number(p.headers[k].value, 10)
<1>8. ASSUME p.result = "completed", p.method # "GET", ~p.chunked,
             Announcing(p.headers) # {}, size \in -IntMax .. IntMax
      PROVE  Len(p.content) = size
  <2>1. p.headers[k].value \in Seq(Lexemes \ {"CR", "LF"})
    <3>1. p.headers \in Seq(Field)
      BY DEF Parser
    <3>2. p.headers[k] \in Field
      BY <1>8, <3>1, LastAnnounces
    <3> QED
      BY <3>2 DEF Field, Value
  <2>2. atoi(p.headers[k].value) = size
    BY <1>8, <2>1, LengthIsInt
  <2> QED
    BY <1>7, <1>8, <2>2 DEF Length
<1>9. ASSUME p.result = "completed", p.method # "GET", ~p.chunked, Announcing(p.headers) = {}
      PROVE  p.content = <<>>
  <2>1. Len(p.content) = 0 /\ p.content \in Seq(Lexemes)
    BY <1>7, <1>9 DEF Length, Parser
  <2> QED
    BY <2>1, EmptySeq
<1> QED
  BY <1>1, <1>3, <1>4, <1>8, <1>9 DEF AcceptedIsDelimited

(***************************************************************************)
(* Whatever is received, for every set of messages and every noise: what   *)
(* a parser counts down is never exhausted while it waits for more of it,  *)
(* and what it accepts has the length that its last Content-Length         *)
(* announces (httpresponseparser.h:291-294, 366-372, 429-436, 491-497).    *)
(***************************************************************************)
THEOREM AcceptedDelimited == Spec => []AcceptedIsDelimited
<1>1. Spec => []IInv
  BY InitIInv, NextIInv, PTL DEF Spec
<1> QED
  BY <1>1, IInvDelimits, PTL

---------------------------------------------------------------------------
(* Reading what has been written *)

LEMMA PrefixParts ==
  ASSUME NEW S, NEW s \in Seq(S)
  PROVE  /\ SubSeq(s, 1, 0) = <<>> /\ SubSeq(s, 1, Len(s)) = s
         /\ \A k \in 0 .. Len(s) : SubSeq(s, 1, k) \in Seq(S) /\ Len(SubSeq(s, 1, k)) = k
         /\ \A k \in 1 .. Len(s) : SubSeq(s, 1, k) = Append(SubSeq(s, 1, k - 1), s[k])
<1>1. PICK n \in Nat : n = Len(s)
  BY LenProperties
<1>2. \A i \in 1 .. n : s[i] \in S
  BY <1>1, ElementOfSeq
<1>3. ASSUME NEW k \in 0 .. n
      PROVE  /\ SubSeq(s, 1, k) \in Seq(S) /\ Len(SubSeq(s, 1, k)) = k
             /\ \A i \in 1 .. k : SubSeq(s, 1, k)[i] = s[i]
  <2>1. \A i \in 1 .. k : s[i] \in S
    BY <1>2
  <2>2. /\ SubSeq(s, 1, k) \in Seq(S) /\ Len(SubSeq(s, 1, k)) = k
        /\ \A i \in 1 .. k : SubSeq(s, 1, k)[i] = s[1 + i - 1]
    BY <2>1, SubSeqProperties
  <2>3. \A i \in 1 .. k : 1 + i - 1 = i
    OBVIOUS
  <2> QED
    BY <2>2, <2>3
<1>4. SubSeq(s, 1, 0) = <<>>
  BY <1>3, EmptySeq
<1>5. SubSeq(s, 1, n) = s
  BY <1>1, <1>3, SeqEqual
<1>6. ASSUME NEW k \in 1 .. n
      PROVE  SubSeq(s, 1, k) = Append(SubSeq(s, 1, k - 1), s[k])
  <2>0. k \in 0 .. n
    BY <1>1
  <2>1. PICK t \in Seq(S) : /\ t = SubSeq(s, 1, k) /\ Len(t) = k
                            /\ \A i \in 1 .. k : t[i] = s[i]
    BY <1>3, <2>0
  <2>2. k - 1 \in 0 .. n
    BY <1>1
  <2>3. PICK u \in Seq(S) : /\ u = SubSeq(s, 1, k - 1) /\ Len(u) = k - 1
                            /\ \A i \in 1 .. k - 1 : u[i] = s[i]
    BY <1>3, <2>2
  <2>4. s[k] \in S
    BY <1>2
  <2>5. PICK v \in Seq(S) : v = Append(u, s[k])
    BY <2>4, AppendProperties
  <2>6. Len(v) = (k - 1) + 1 /\ v[(k - 1) + 1] = s[k] /\ \A i \in 1 .. k - 1 : v[i] = u[i]
    BY <2>3, <2>4, <2>5, AppendProperties
  <2>7. (k - 1) + 1 = k /\ \A i \in 1 .. k : i \in 1 .. k - 1 \/ i = k
    OBVIOUS
  <2>8. t = v
    BY <2>1, <2>3, <2>6, <2>7, SeqEqual
  <2> QED
    BY <2>1, <2>3, <2>5, <2>8
<1> QED
  BY <1>1, <1>3, <1>4, <1>5, <1>6

LEMMA LastField ==
  ASSUME NEW gs \in Seq(Field), gs # <<>>, NEW h \in Field
  PROVE  [gs EXCEPT ![Len(gs)] = h] = Append(Front(gs), h)
BY FrontAndLast

LEMMA LastReplaced ==
  ASSUME NEW F \in Seq(Field), NEW l \in Field, NEW h \in Field,
         NEW hs, hs = Append(F, l)
  PROVE  [hs EXCEPT ![Len(hs)] = h] = Append(F, h)
<1>1. PICK gs \in Seq(Field) : gs = hs /\ gs # <<>> /\ Front(gs) = F
  BY Appended
<1>2. [gs EXCEPT ![Len(gs)] = h] = Append(Front(gs), h)
  BY <1>1, LastField, Zenon
<1> QED
  BY <1>1, <1>2, Zenon

LEMMA NameReplaced ==
  ASSUME NEW n, NEW v, NEW c, NEW l, l = [name |-> n, value |-> v]
  PROVE  [l EXCEPT !.name = Append(@, c)] = [name |-> Append(n, c), value |-> v]
OBVIOUS

LEMMA ValueReplaced ==
  \A l \in Field : \A c :
    [l EXCEPT !.value = Append(@, c)] = [name |-> l.name, value |-> Append(l.value, c)]
BY DEF Field

LEMMA HeadersReplaced ==
  ASSUME NEW p \in Parser, NEW hs
  PROVE  /\ [p EXCEPT !.headers = hs].headers = hs
         /\ [p EXCEPT !.headers = hs].state = p.state
         /\ Otherwise(p, [p EXCEPT !.headers = hs])
BY DEF Parser, Otherwise

LEMMA NameAppendedTo ==
  ASSUME NEW p \in Parser, NEW F \in Seq(Field), NEW n \in Name, NEW v \in Value,
         p.headers = Append(F, [name |-> n, value |-> v]), NEW c \in Tokens
  PROVE  /\ AppendToName(p, c).headers = Append(F, [name |-> Append(n, c), value |-> v])
         /\ AppendToName(p, c).state = p.state /\ Otherwise(p, AppendToName(p, c))
<1>1. PICK l \in Field : l = [name |-> n, value |-> v] /\ l.name = n
  BY DEF Field
<1>2. Append(n, c) \in Name
  BY AppendProperties DEF Name
<1>3. PICK h \in Field : h = [name |-> Append(n, c), value |-> v]
  BY <1>2 DEF Field
<1>4. [l EXCEPT !.name = Append(@, c)] = h
  <2>1. [l EXCEPT !.name = Append(@, c)] = [name |-> Append(n, c), value |-> v]
    BY ONLY <1>1, NameReplaced
  <2> QED
    BY <1>3, <2>1, Zenon
<1>5. PICK hs \in Seq(Field) : hs = p.headers /\ hs = Append(F, l)
  BY <1>1 DEF Parser
<1>6. hs[Len(hs)] = l
  BY <1>5, Appended DEF Last
<1>7. [hs EXCEPT ![Len(hs)].name = Append(@, c)] = [hs EXCEPT ![Len(hs)] = h]
  BY <1>4, <1>6
<1>8. [hs EXCEPT ![Len(hs)] = h] = Append(F, h)
  BY <1>5, LastReplaced
<1>9. AppendToName(p, c) = [p EXCEPT !.headers = Append(F, h)]
  BY <1>5, <1>7, <1>8, Zenon DEF AppendToName
<1>10. PICK gs, r : /\ gs = Append(F, h) /\ r = [p EXCEPT !.headers = gs]
                   /\ r.headers = gs /\ r.state = p.state /\ Otherwise(p, r)
  BY HeadersReplaced
<1> QED
  BY <1>3, <1>9, <1>10, Zenon

LEMMA ValueAppendedTo ==
  ASSUME NEW p \in Parser, NEW F \in Seq(Field), NEW n \in Name, NEW v \in Value,
         p.headers = Append(F, [name |-> n, value |-> v]), NEW c \in Lexemes \ {"CR", "LF"}
  PROVE  /\ AppendToValue(p, c).headers = Append(F, [name |-> n, value |-> Append(v, c)])
         /\ AppendToValue(p, c).state = p.state /\ Otherwise(p, AppendToValue(p, c))
<1>1. PICK l \in Field : l = [name |-> n, value |-> v] /\ l.value = v
  BY DEF Field
<1>2. Append(v, c) \in Value
  BY AppendProperties DEF Value
<1>3. PICK h \in Field : h = [name |-> n, value |-> Append(v, c)]
  BY <1>2 DEF Field
<1>4. [l EXCEPT !.value = Append(@, c)] = h
  <2>0. l.name = n /\ l.value = v
    BY <1>1
  <2>1. [l EXCEPT !.value = Append(@, c)] = [name |-> l.name, value |-> Append(l.value, c)]
    BY ValueReplaced
  <2>2. [l EXCEPT !.value = Append(@, c)] = [name |-> n, value |-> Append(v, c)]
    BY ONLY <2>0, <2>1, Zenon
  <2> QED
    BY <1>3, <2>2, Zenon
<1>5. PICK hs \in Seq(Field) : hs = p.headers /\ hs = Append(F, l)
  BY <1>1 DEF Parser
<1>6. hs[Len(hs)] = l
  BY <1>5, Appended DEF Last
<1>7. [hs EXCEPT ![Len(hs)].value = Append(@, c)] = [hs EXCEPT ![Len(hs)] = h]
  BY <1>4, <1>6
<1>8. [hs EXCEPT ![Len(hs)] = h] = Append(F, h)
  BY <1>5, LastReplaced
<1>9. AppendToValue(p, c) = [p EXCEPT !.headers = Append(F, h)]
  BY <1>5, <1>7, <1>8, Zenon DEF AppendToValue
<1>10. PICK gs, r : /\ gs = Append(F, h) /\ r = [p EXCEPT !.headers = gs]
                   /\ r.headers = gs /\ r.state = p.state /\ Otherwise(p, r)
  BY HeadersReplaced
<1> QED
  BY <1>3, <1>9, <1>10, Zenon

\* What a parser does with what inspect() writes, lexeme by lexeme.
LEMMA ReadsStartLine ==
  ASSUME NEW p
  PROVE  /\ p.state = "RequestMethodStart" =>
              consume(p, "GET") = [To(p, "RequestUri") EXCEPT !.method = "GET"]
         /\ p.state = "RequestUri" =>
              consume(p, "HTTP/1.1") = To(p, "RequestHttpVersion_minor")
         /\ p.state = "RequestHttpVersion_minor" =>
              consume(p, "CR") = To(p, "HttpVersion_newLine")
         /\ p.state = "HttpVersion_newLine" =>
              consume(p, "LF") = To(p, "HeaderLineStart")
<1>1. "CR" \notin Digits /\ "GET" \in Requests
  BY DEF Digits, ToSet, Numeral, Requests
<1>2. p.state = "RequestMethodStart" =>
        consume(p, "GET") = [To(p, "RequestUri") EXCEPT !.method = "GET"]
  BY <1>1 DEF consume, RequestLine
<1>3. p.state = "RequestUri" =>
        consume(p, "HTTP/1.1") = To(p, "RequestHttpVersion_minor")
  BY DEF consume, RequestLine
<1>4. p.state = "RequestHttpVersion_minor" =>
        consume(p, "CR") = To(p, "HttpVersion_newLine")
  BY <1>1 DEF consume, RequestLine, Expect
<1>5. p.state = "HttpVersion_newLine" =>
        consume(p, "LF") = To(p, "HeaderLineStart")
  BY DEF consume, Header, Expect
<1> QED
  BY <1>2, <1>3, <1>4, <1>5

\* The status line of a response with code 200.
LEMMA ReadsStatusLine ==
  ASSUME NEW p
  PROVE  /\ p.state = "ResponseStatusStart" =>
              consume(p, "HTTP/1.1") = To(p, "ResponseHttpVersion_minor")
         /\ p.state = "ResponseHttpVersion_minor" =>
              consume(p, "SP") = To(p, "ResponseHttpVersion_statusCodeStart")
         /\ p.state = "ResponseHttpVersion_statusCodeStart" =>
              consume(p, "2") = [To(p, "ResponseHttpVersion_statusCode") EXCEPT !.statusCode = 2]
         /\ p.state = "ResponseHttpVersion_statusCode" /\ p.statusCode = 2 =>
              consume(p, "0") = [p EXCEPT !.statusCode = 20]
         /\ p.state = "ResponseHttpVersion_statusCode" /\ p.statusCode = 20 =>
              consume(p, "0") = [p EXCEPT !.statusCode = 200]
         /\ p.state = "ResponseHttpVersion_statusCode" /\ p.statusCode = 200 =>
              consume(p, "SP") = To(p, "ResponseHttpVersion_statusTextStart")
         /\ p.state = "ResponseHttpVersion_statusTextStart" =>
              \A c : consume(p, c) = [To(p, "ResponseHttpVersion_statusText") EXCEPT
                                        !.status = Append(@, c)]
         /\ p.state = "ResponseHttpVersion_statusText" =>
              /\ consume(p, "CR") = To(p, "HttpVersion_newLine")
              /\ \A c : c # "CR" => consume(p, c) = [p EXCEPT !.status = Append(@, c)]
<1>1. "SP" \notin Digits
  BY DEF Digits, ToSet, Numeral
<1>2. /\ "2" \in Digits /\ Digit("2") = 2 /\ "0" \in Digits /\ Digit("0") = 0
  <2>1. Numeral[0 + 1] = "0" /\ Numeral[2 + 1] = "2" /\ 0 \in 0 .. 2 /\ 2 \in 0 .. 2
    BY DEF Numeral
  <2> QED
    BY <2>1, DigitOfNumeral
<1>3. AddDigit(2, "0") = 20 /\ AddDigit(20, "0") = 200
  <2>1. PICK m \in Nat : m = 2 * (IntMax + 1) /\ m > 200
    BY WidthsAssumption
  <2>2. 20 % m = 20 /\ 200 % m = 200
    BY <2>1
  <2> QED
    BY <1>2, <2>1, <2>2 DEF AddDigit
<1>4. CASE p.state \in {"ResponseStatusStart", "ResponseHttpVersion_minor"}
  BY <1>1, <1>4 DEF consume, StatusLine, Expect
<1>5. CASE p.state = "ResponseHttpVersion_statusCodeStart"
  BY <1>2, <1>5 DEF consume, StatusLine
<1>6. CASE p.state = "ResponseHttpVersion_statusCode"
  <2>1. \A c : consume(p, c) = StatusLine(p, c)
    BY <1>6 DEF consume
  <2>2. StatusLine(p, "0") = [p EXCEPT !.statusCode = AddDigit(p.statusCode, "0")]
    BY <1>2, <1>6 DEF StatusLine
  <2>3. p.statusCode = 200 => StatusLine(p, "SP") = To(p, "ResponseHttpVersion_statusTextStart")
    BY <1>1, <1>6 DEF StatusLine, Expect
  <2> QED
    BY <1>3, <1>6, <2>1, <2>2, <2>3
<1>7. CASE p.state = "ResponseHttpVersion_statusTextStart"
  <2>1. \A c : consume(p, c) = StatusLine(p, c)
    BY <1>7 DEF consume
  <2>2. \A c : StatusLine(p, c) = [To(p, "ResponseHttpVersion_statusText") EXCEPT
                                        !.status = Append(@, c)]
    BY <1>7 DEF StatusLine
  <2> QED
    BY <1>7, <2>1, <2>2
<1>8. CASE p.state = "ResponseHttpVersion_statusText"
  <2>1. \A c : consume(p, c) = StatusLine(p, c)
    BY <1>8 DEF consume
  <2>2. \A c : StatusLine(p, c) = IF c = "CR" THEN To(p, "HttpVersion_newLine")
                                   ELSE [p EXCEPT !.status = Append(@, c)]
    BY <1>8 DEF StatusLine
  <2> QED
    BY <1>8, <2>1, <2>2
<1> QED
  BY <1>4, <1>5, <1>6, <1>7, <1>8

LEMMA ReadsHeaders ==
  ASSUME NEW p
  PROVE  /\ p.state = "HeaderLineStart" =>
              /\ consume(p, "CR") = To(p, "ExpectingNewline_3")
              /\ \A c \in Tokens :
                   consume(p, c) = [To(p, "HeaderName") EXCEPT
                                      !.headers = Append(@, [name |-> <<c>>, value |-> <<>>])]
         /\ p.state = "HeaderName" =>
              /\ consume(p, ":") = To(p, "SpaceBeforeHeaderValue")
              /\ \A c \in Tokens : consume(p, c) = AppendToName(p, c)
         /\ p.state = "SpaceBeforeHeaderValue" => consume(p, "SP") = To(p, "HeaderValue")
         /\ p.state = "HeaderValue" =>
              /\ consume(p, "CR") = HeaderValueEnds(p)
              /\ \A c \in Lexemes \ {"CR", "LF"} : consume(p, c) = AppendToValue(p, c)
         /\ p.state = "ExpectingNewline_2" => consume(p, "LF") = To(p, "HeaderLineStart")
<1>1. CASE p.state = "HeaderLineStart"
  <2>1. \A c : consume(p, c) = Header(p, c)
    BY <1>1 DEF consume
  <2>2. Header(p, "CR") = To(p, "ExpectingNewline_3")
    BY <1>1, NotTokens DEF Header
  <2>3. ASSUME NEW c \in Tokens
        PROVE  Header(p, c) = [To(p, "HeaderName") EXCEPT
                                 !.headers = Append(@, [name |-> <<c>>, value |-> <<>>])]
    <3>1. c # "CR" /\ c # "SP"
      BY NotTokens
    <3> QED
      BY <1>1, <3>1 DEF Header
  <2> QED
    BY <1>1, <2>1, <2>2, <2>3
<1>2. CASE p.state = "HeaderName"
  <2>1. \A c : consume(p, c) = Header(p, c)
    BY <1>2 DEF consume
  <2>2. Header(p, ":") = To(p, "SpaceBeforeHeaderValue")
    BY <1>2, NotTokens DEF Header
  <2>3. ASSUME NEW c \in Tokens PROVE Header(p, c) = AppendToName(p, c)
    <3>1. c # ":"
      BY NotTokens
    <3> QED
      BY <1>2, <3>1 DEF Header
  <2> QED
    BY <1>2, <2>1, <2>2, <2>3
<1>3. CASE p.state = "SpaceBeforeHeaderValue"
  BY <1>3 DEF consume, Header, Expect
<1>4. CASE p.state = "HeaderValue"
  <2>1. \A c : consume(p, c) = Header(p, c)
    BY <1>4 DEF consume
  <2>2. Header(p, "CR") = HeaderValueEnds(p)
    BY <1>4 DEF Header
  <2>3. ASSUME NEW c \in Lexemes \ {"CR", "LF"} PROVE Header(p, c) = AppendToValue(p, c)
    BY <1>4 DEF Header
  <2> QED
    BY <1>4, <2>1, <2>2, <2>3
<1>5. CASE p.state = "ExpectingNewline_2"
  BY <1>5 DEF consume, Header, Expect
<1> QED
  BY <1>1, <1>2, <1>3, <1>4, <1>5

\* Nothing has changed but the state, the headers, and what the parser counts.
Stays(p, q) ==
  /\ q.method = p.method /\ q.content = p.content
  /\ q.chunked = p.chunked /\ q.result = p.result
  /\ q.statusCode = p.statusCode /\ q.status = p.status

Moves(p, q, state, headers) ==
  q.state = state /\ q.headers = headers /\ Stays(p, q)

LEMMA MovesTo ==
  ASSUME NEW p \in Parser, NEW s \in States
  PROVE  Moves(p, To(p, s), s, p.headers)
BY ToState DEF Moves, Stays

LEMMA NameBegins ==
  ASSUME NEW p \in Parser, p.state = "HeaderLineStart", NEW c \in Tokens,
         NEW F \in Seq(Field), p.headers = F
  PROVE  Moves(p, consume(p, c), "HeaderName", Append(F, [name |-> <<c>>, value |-> <<>>]))
<1>1. "HeaderName" \in States
  BY DEF States, HeaderStates, Partial
<1>2. PICK q \in Parser :
        /\ q = To(p, "HeaderName") /\ q.headers = F
        /\ q.state = "HeaderName" /\ q.method = p.method /\ q.content = p.content
        /\ q.chunked = p.chunked /\ q.result = p.result
        /\ q.statusCode = p.statusCode /\ q.status = p.status
  BY <1>1, ToState
<1>3. PICK hs : hs = Append(F, [name |-> <<c>>, value |-> <<>>])
  OBVIOUS
<1>4. consume(p, c) = [q EXCEPT !.headers = hs]
  BY <1>2, <1>3, ReadsHeaders
<1>5. Moves(q, [q EXCEPT !.headers = hs], "HeaderName", hs)
  BY <1>2 DEF Parser, Moves, Stays
<1> QED
  BY <1>2, <1>3, <1>4, <1>5 DEF Moves, Stays

LEMMA NameContinues ==
  ASSUME NEW p \in Parser, p.state = "HeaderName", NEW c \in Tokens,
         NEW F \in Seq(Field), NEW n \in Name, NEW v \in Value,
         p.headers = Append(F, [name |-> n, value |-> v])
  PROVE  Moves(p, consume(p, c), "HeaderName", Append(F, [name |-> Append(n, c), value |-> v]))
<1>1. consume(p, c) = AppendToName(p, c)
  BY ReadsHeaders
<1>2. /\ AppendToName(p, c).headers = Append(F, [name |-> Append(n, c), value |-> v])
      /\ AppendToName(p, c).state = p.state /\ Otherwise(p, AppendToName(p, c))
  BY NameAppendedTo
<1>3. PICK q : /\ q = AppendToName(p, c)
               /\ q.headers = Append(F, [name |-> Append(n, c), value |-> v])
               /\ q.state = p.state /\ Otherwise(p, q)
  BY <1>2
<1> QED
  BY <1>1, <1>3 DEF Moves, Stays, Otherwise

LEMMA ValueContinues ==
  ASSUME NEW p \in Parser, p.state = "HeaderValue", NEW c \in Lexemes \ {"CR", "LF"},
         NEW F \in Seq(Field), NEW n \in Name, NEW v \in Value,
         p.headers = Append(F, [name |-> n, value |-> v])
  PROVE  Moves(p, consume(p, c), "HeaderValue", Append(F, [name |-> n, value |-> Append(v, c)]))
<1>1. consume(p, c) = AppendToValue(p, c)
  BY ReadsHeaders
<1>2. /\ AppendToValue(p, c).headers = Append(F, [name |-> n, value |-> Append(v, c)])
      /\ AppendToValue(p, c).state = p.state /\ Otherwise(p, AppendToValue(p, c))
  BY ValueAppendedTo
<1>3. PICK q : /\ q = AppendToValue(p, c)
               /\ q.headers = Append(F, [name |-> n, value |-> Append(v, c)])
               /\ q.state = p.state /\ Otherwise(p, q)
  BY <1>2
<1> QED
  BY <1>1, <1>3 DEF Moves, Stays, Otherwise

\* A header that neither announces chunks nor a negative length.
LEMMA ValueEnds ==
  ASSUME NEW p \in Parser, p.state = "HeaderValue", p.chunked = FALSE,
         NEW F \in Seq(Field), NEW h \in Field, p.headers = Append(F, h),
         p.method = "GET" \/ FramedAs(h, FALSE)
  PROVE  Moves(p, consume(p, "CR"), "ExpectingNewline_2", p.headers)
<1>1. "ExpectingNewline_2" \in States
  BY DEF States, HeaderStates
<1>2. PICK q \in Parser :
        q = To(p, "ExpectingNewline_2") /\ Moves(p, q, "ExpectingNewline_2", p.headers)
  BY <1>1, ToState, MovesTo
<1>3. Last(p.headers) = h
  BY Appended
<1>4. consume(p, "CR") \in {q, FrameBy(q, h)} /\ (p.method = "GET" => consume(p, "CR") = q)
  <2>1. q.method = p.method
    BY <1>2 DEF Moves, Stays
  <2> QED
    BY <1>2, <1>3, <2>1, ReadsHeaders DEF HeaderValueEnds, RequestFrameBy, Requests
<1>5. CASE consume(p, "CR") = q
  BY <1>2, <1>5
<1>6. CASE consume(p, "CR") = FrameBy(q, h) /\ FramedAs(h, FALSE)
  <2>1. PICK n \in Int : n = atoi(h.value)
    <3>1. h.value \in Seq(Lexemes \ {"CR", "LF"})
      BY DEF Field, Value
    <3> QED
      BY <3>1, LengthIsInt
  <2>2. CASE h.name = <<"Content-Length">>
    <3>1. n >= 0
      BY <1>6, <2>1, <2>2 DEF FramedAs
    <3>2. FrameBy(q, h) = [q EXCEPT !.contentSize = n]
      BY <2>1, <2>2, <3>1 DEF FrameBy
    <3>3. Moves(q, [q EXCEPT !.contentSize = n], q.state, q.headers)
      BY DEF Parser, Moves, Stays
    <3> QED
      BY <1>2, <1>6, <3>2, <3>3 DEF Moves, Stays
  <2>3. CASE h.name = <<"Transfer-Encoding">>
    <3>1. q.chunked = FALSE /\ h.value # <<"chunked">>
      BY <1>2, <1>6, <2>3 DEF FramedAs, Moves, Stays
    <3>2. FrameBy(q, h) = [q EXCEPT !.chunked = FALSE]
      <4>1. FrameBy(q, h) = [q EXCEPT !.chunked = @ \/ h.value = <<"chunked">>]
        BY <2>3 DEF FrameBy
      <4>2. (q.chunked \/ h.value = <<"chunked">>) = FALSE
        BY <3>1
      <4> QED
        BY <4>1, <4>2, Zenon
    <3>3. Moves(q, [q EXCEPT !.chunked = FALSE], q.state, q.headers)
      BY <3>1 DEF Parser, Moves, Stays
    <3> QED
      BY <1>2, <1>6, <3>2, <3>3 DEF Moves, Stays
  <2>4. CASE h.name # <<"Content-Length">> /\ h.name # <<"Transfer-Encoding">>
    BY <1>2, <1>6, <2>4 DEF FrameBy
  <2> QED
    BY <2>2, <2>3, <2>4
<1> QED
  BY <1>4, <1>5, <1>6

\* The end of the headers, and a body that is as long as it was announced.
LEMMA HeadersRead ==
  ASSUME NEW p \in Parser, p.state = "ExpectingNewline_3", p.chunked = FALSE
  PROVE  /\ p.contentSize # 0 => consume(p, "LF") = To(p, "Post")
         /\ p.contentSize = 0 => consume(p, "LF") = Completed(p)
<1>1. consume(p, "LF") = HeadersEnd(p, "LF")
  BY DEF consume
<1>2. p.contentSize # 0 => HeadersEnd(p, "LF") = To(p, "Post")
  BY DEF HeadersEnd
<1>3. p.contentSize = 0 => HeadersEnd(p, "LF") = Completed(p)
  BY DEF HeadersEnd
<1> QED
  BY <1>1, <1>2, <1>3

LEMMA ContentRead ==
  ASSUME NEW p \in Parser, p.state = "Post", NEW c \in Lexemes
  PROVE  /\ consume(p, c).state = "Post" /\ consume(p, c).headers = p.headers
         /\ consume(p, c).method = p.method /\ consume(p, c).chunked = p.chunked
         /\ consume(p, c).statusCode = p.statusCode /\ consume(p, c).status = p.status
         /\ consume(p, c).content = Append(p.content, c)
         /\ consume(p, c).contentSize = p.contentSize - 1
         /\ consume(p, c).result = IF p.contentSize = 1 THEN "completed" ELSE p.result
<1>1. consume(p, c) = Post(p, c)
  BY DEF consume
<1>2. PICK b, n : b = Append(p.content, c) /\ n = p.contentSize - 1
  OBVIOUS
<1>3. PICK q : q = [p EXCEPT !.contentSize = n, !.content = b]
  OBVIOUS
<1>4. /\ q.state = "Post" /\ q.headers = p.headers /\ q.method = p.method
      /\ q.chunked = p.chunked /\ q.content = b /\ q.contentSize = n /\ q.result = p.result
      /\ q.statusCode = p.statusCode /\ q.status = p.status
  BY <1>3 DEF Parser
<1>5. Post(p, c) = IF n = 0 THEN [q EXCEPT !.result = "completed"] ELSE q
  BY <1>2, <1>3, <1>4 DEF Post, Completed
<1>6. PICK r : r = [q EXCEPT !.result = "completed"]
  OBVIOUS
<1>7. /\ r.state = q.state /\ r.headers = q.headers /\ r.method = q.method
      /\ r.chunked = q.chunked /\ r.content = q.content /\ r.contentSize = q.contentSize
      /\ r.result = "completed" /\ r.statusCode = q.statusCode /\ r.status = q.status
  BY <1>3, <1>6 DEF Parser
<1>8. n = 0 <=> p.contentSize = 1
  BY <1>2 DEF Parser
<1> QED
  BY <1>1, <1>2, <1>4, <1>5, <1>6, <1>7, <1>8

---------------------------------------------------------------------------
(* One header line *)

\* Text w has header h written between a and b.
LineAt(w, h, a, b) ==
  /\ b = a + Len(h.name) + Len(h.value) + 4
  /\ \A j \in 1 .. Len(h.name) : w[a + j] = h.name[j]
  /\ w[a + Len(h.name) + 1] = ":" /\ w[a + Len(h.name) + 2] = "SP"
  /\ \A j \in 1 .. Len(h.value) : w[a + Len(h.name) + 2 + j] = h.value[j]
  /\ w[a + Len(h.name) + Len(h.value) + 3] = "CR"
  /\ w[a + Len(h.name) + Len(h.value) + 4] = "LF"

\* Parser p has read up to i, in the middle of the line that begins at a; F are
\* the headers before it.
InLine(p, i, F, h, a) ==
  \/ /\ p.state = "HeaderName"
     /\ \E j \in 1 .. Len(h.name) :
          /\ i = a + j
          /\ p.headers = Append(F, [name |-> SubSeq(h.name, 1, j), value |-> <<>>])
  \/ /\ p.state = "SpaceBeforeHeaderValue" /\ i = a + Len(h.name) + 1
     /\ p.headers = Append(F, [name |-> h.name, value |-> <<>>])
  \/ /\ p.state = "HeaderValue"
     /\ \E j \in 0 .. Len(h.value) :
          /\ i = a + Len(h.name) + 2 + j
          /\ p.headers = Append(F, [name |-> h.name, value |-> SubSeq(h.value, 1, j)])
  \/ /\ p.state = "ExpectingNewline_2" /\ i = a + Len(h.name) + Len(h.value) + 3
     /\ p.headers = Append(F, h)

LEMMA FieldParts ==
  ASSUME NEW h \in Field
  PROVE  \E n \in Seq(Tokens), l \in Nat \ {0}, v \in Seq(Lexemes \ {"CR", "LF"}), m \in Nat :
           /\ n = h.name /\ l = Len(n) /\ n \in Name
           /\ v = h.value /\ m = Len(v) /\ v \in Value
           /\ h = [name |-> n, value |-> v]
<1>1. PICK n \in Name, v \in Value : n = h.name /\ v = h.value /\ h = [name |-> n, value |-> v]
  BY DEF Field
<1>2. n \in Seq(Tokens) /\ n # <<>> /\ v \in Seq(Lexemes \ {"CR", "LF"})
  BY <1>1 DEF Name, Value
<1>3. PICK l \in Nat : l = Len(n)
  BY <1>2, LenProperties
<1>4. PICK m \in Nat : m = Len(v)
  BY <1>2, LenProperties
<1>5. l # 0
  BY <1>2, <1>3, EmptySeq
<1> QED
  BY <1>1, <1>2, <1>3, <1>4, <1>5

\* Prefixes of a name and of a value are such.
LEMMA NamePrefix ==
  ASSUME NEW n \in Name, NEW j \in 1 .. Len(n)
  PROVE  SubSeq(n, 1, j) \in Name
<1>1. PICK s \in Seq(Tokens) : s = n
  BY DEF Name
<1>2. Len(s) \in Nat
  BY LenProperties
<1>3. j \in 0 .. Len(s) /\ j # 0
  BY <1>1, <1>2
<1>4. SubSeq(s, 1, j) \in Seq(Tokens) /\ Len(SubSeq(s, 1, j)) = j
  BY <1>3, PrefixParts
<1>5. SubSeq(s, 1, j) # <<>>
  BY <1>3, <1>4, EmptySeq
<1> QED
  BY <1>1, <1>4, <1>5 DEF Name

LEMMA ValuePrefix ==
  /\ \A v \in Value : \A j \in 0 .. Len(v) : SubSeq(v, 1, j) \in Value
  /\ <<>> \in Value
<1>1. ASSUME NEW v \in Value, NEW j \in 0 .. Len(v) PROVE SubSeq(v, 1, j) \in Value
  BY PrefixParts DEF Value
<1>2. <<>> \in Value
  BY EmptySeq DEF Value
<1> QED
  BY <1>1, <1>2

LEMMA LineBegins ==
  ASSUME NEW p \in Parser, p.state = "HeaderLineStart", NEW F \in Seq(Field), p.headers = F,
         NEW w, NEW h \in Field, NEW a \in Nat, NEW b, LineAt(w, h, a, b)
  PROVE  /\ InLine(consume(p, w[a + 1]), a + 1, F, h, a) /\ Stays(p, consume(p, w[a + 1]))
         /\ a < b
<1>1. PICK s \in Seq(Tokens), l \in Nat \ {0}, v \in Seq(Lexemes \ {"CR", "LF"}), m \in Nat :
        s = h.name /\ l = Len(s) /\ v = h.value /\ m = Len(v)
  BY FieldParts
<1>2. s[1] \in Tokens /\ 1 \in 1 .. l
  BY <1>1, ElementOfSeq
<1>3. w[a + 1] = s[1]
  BY <1>1, <1>2 DEF LineAt
<1>4. SubSeq(s, 1, 1) = <<s[1]>>
  <2>1. SubSeq(s, 1, 1) = Append(SubSeq(s, 1, 1 - 1), s[1]) /\ SubSeq(s, 1, 0) = <<>>
    BY <1>1, <1>2, PrefixParts
  <2>2. 1 - 1 = 0
    OBVIOUS
  <2>3. SubSeq(s, 1, 1) = Append(<<>>, s[1])
    BY <2>1, <2>2, Zenon
  <2>4. Append(<<>>, s[1]) = <<s[1]>>
    OBVIOUS
  <2> QED
    BY <2>3, <2>4, Zenon
<1>5. PICK q : q = consume(p, s[1])
               /\ Moves(p, q, "HeaderName", Append(F, [name |-> <<s[1]>>, value |-> <<>>]))
  BY <1>2, NameBegins
<1>6. InLine(q, a + 1, F, h, a)
  BY <1>1, <1>2, <1>4, <1>5 DEF InLine, Moves, Stays
<1>7. Stays(p, q)
  BY <1>5 DEF Moves, Stays
<1>8. a < b
  BY <1>1 DEF LineAt
<1> QED
  BY <1>3, <1>5, <1>6, <1>7, <1>8

LEMMA PrefixGrows ==
  ASSUME NEW S, NEW s \in Seq(S), NEW n \in Nat, n = Len(s), NEW j \in 0 .. n - 1
  PROVE  s[j + 1] \in S /\ SubSeq(s, 1, j + 1) = Append(SubSeq(s, 1, j), s[j + 1])
<1>1. j + 1 \in 1 .. n /\ (j + 1) - 1 = j
  OBVIOUS
<1>2. s[j + 1] \in S
  BY <1>1, ElementOfSeq
<1>3. SubSeq(s, 1, j + 1) = Append(SubSeq(s, 1, (j + 1) - 1), s[j + 1])
  BY <1>1, PrefixParts
<1> QED
  BY <1>1, <1>2, <1>3, Zenon

LEMMA Sums ==
  ASSUME NEW a \in Nat, NEW l \in Nat, NEW m \in Nat, NEW j \in 0 .. m
  PROVE  /\ j # m => j \in 0 .. m - 1 /\ j + 1 \in 1 .. m /\ j + 1 \in 0 .. m
         /\ a + l + 2 + (j + 1) = (a + l + 2 + j) + 1
         /\ a + l + 2 + j < a + l + m + 4
         /\ (a + l + 2 + m) + 1 = a + l + m + 3
OBVIOUS

LEMMA NameGoesOn ==
  ASSUME NEW p \in Parser, p.state = "HeaderName", NEW F \in Seq(Field),
         NEW w, NEW h \in Field, NEW a \in Nat, NEW b, LineAt(w, h, a, b),
         NEW j \in 1 .. Len(h.name),
         p.headers = Append(F, [name |-> SubSeq(h.name, 1, j), value |-> <<>>])
  PROVE  /\ a + j < b /\ Stays(p, consume(p, w[a + j + 1]))
         /\ InLine(consume(p, w[a + j + 1]), a + j + 1, F, h, a)
<1>1. PICK n \in Seq(Tokens), l \in Nat \ {0}, v \in Seq(Lexemes \ {"CR", "LF"}), m \in Nat :
        /\ n = h.name /\ l = Len(n) /\ n \in Name
        /\ v = h.value /\ m = Len(v) /\ v \in Value
        /\ h = [name |-> n, value |-> v]
  BY FieldParts
<1>2. j \in 1 .. l /\ j \in Nat
  BY <1>1
<1>3. a + j < b
  <2>1. b = a + l + m + 4
    BY <1>1 DEF LineAt
  <2>2. a + j < a + l + m + 4
    BY <1>2
  <2> QED
    BY <2>1, <2>2, Zenon
<1>4. CASE j # l
  <2>1. j \in 0 .. l - 1 /\ j + 1 \in 1 .. l /\ a + (j + 1) = a + j + 1
    BY <1>2, <1>4
  <2>2. PICK c \in Tokens : c = n[j + 1] /\ SubSeq(n, 1, j + 1) = Append(SubSeq(n, 1, j), c)
    <3>1. n[j + 1] \in Tokens /\ SubSeq(n, 1, j + 1) = Append(SubSeq(n, 1, j), n[j + 1])
      BY <1>1, <2>1, PrefixGrows
    <3> QED
      BY <3>1
  <2>3. w[a + (j + 1)] = h.name[j + 1]
    BY <1>1, <2>1 DEF LineAt
  <2>4. w[a + j + 1] = c
    BY <1>1, <2>1, <2>2, <2>3
  <2>5. PICK n1 \in Name : n1 = SubSeq(n, 1, j)
    BY <1>1, <1>2, NamePrefix
  <2>6. PICK none \in Value : none = <<>>
    BY ValuePrefix
  <2>7. p.headers = Append(F, [name |-> n1, value |-> none])
    BY <1>1, <2>5, <2>6
  <2>8. PICK q : q = consume(p, c)
                 /\ Moves(p, q, "HeaderName", Append(F, [name |-> Append(n1, c), value |-> none]))
    BY <2>7, NameContinues
  <2>9. q.headers = Append(F, [name |-> SubSeq(h.name, 1, j + 1), value |-> <<>>])
    BY <1>1, <2>2, <2>5, <2>6, <2>8 DEF Moves
  <2>10. InLine(q, a + j + 1, F, h, a)
    BY <1>1, <2>1, <2>8, <2>9 DEF InLine, Moves
  <2>11. Stays(p, q)
    BY <2>8 DEF Moves
  <2> QED
    BY <1>3, <2>4, <2>8, <2>10, <2>11
<1>5. CASE j = l
  <2>1. w[a + j + 1] = ":"
    BY <1>1, <1>5 DEF LineAt
  <2>2. SubSeq(n, 1, j) = n
    BY <1>1, <1>5, PrefixParts
  <2>3. "SpaceBeforeHeaderValue" \in States
    BY DEF States, HeaderStates, Partial
  <2>4. PICK q : q = consume(p, ":") /\ Moves(p, q, "SpaceBeforeHeaderValue", p.headers)
    BY <2>3, ReadsHeaders, MovesTo
  <2>5. q.headers = Append(F, [name |-> h.name, value |-> <<>>])
    BY <1>1, <2>2, <2>4 DEF Moves
  <2>6. InLine(q, a + j + 1, F, h, a)
    BY <1>1, <1>5, <2>4, <2>5 DEF InLine, Moves
  <2>7. Stays(p, q)
    BY <2>4 DEF Moves
  <2> QED
    BY <1>3, <2>1, <2>4, <2>6, <2>7
<1> QED
  BY <1>4, <1>5

LEMMA ValueStarts ==
  ASSUME NEW p \in Parser, p.state = "SpaceBeforeHeaderValue", NEW F \in Seq(Field),
         NEW w, NEW h \in Field, NEW a \in Nat, NEW b, LineAt(w, h, a, b),
         p.headers = Append(F, [name |-> h.name, value |-> <<>>])
  PROVE  /\ a + Len(h.name) + 1 < b /\ Stays(p, consume(p, w[a + Len(h.name) + 1 + 1]))
         /\ InLine(consume(p, w[a + Len(h.name) + 1 + 1]), a + Len(h.name) + 1 + 1, F, h, a)
<1>1. PICK n \in Seq(Tokens), l \in Nat \ {0}, v \in Seq(Lexemes \ {"CR", "LF"}), m \in Nat :
        /\ n = h.name /\ l = Len(n) /\ n \in Name
        /\ v = h.value /\ m = Len(v) /\ v \in Value
        /\ h = [name |-> n, value |-> v]
  BY FieldParts
<1>2. b = a + l + m + 4 /\ w[a + l + 2] = "SP" /\ a + l + 1 + 1 = a + l + 2
  BY <1>1 DEF LineAt
<1>3. a + l + 1 < b
  BY <1>2
<1>4. "HeaderValue" \in States
  BY DEF States, HeaderStates, Partial
<1>5. PICK q : q = consume(p, "SP") /\ Moves(p, q, "HeaderValue", p.headers)
  BY <1>4, ReadsHeaders, MovesTo
<1>6. SubSeq(h.value, 1, 0) = <<>>
  BY <1>1, PrefixParts
<1>7. q.headers = Append(F, [name |-> h.name, value |-> SubSeq(h.value, 1, 0)])
  BY <1>5, <1>6 DEF Moves
<1>8. 0 \in 0 .. Len(h.value) /\ a + l + 1 + 1 = a + l + 2 + 0
  BY <1>1
<1>9. InLine(q, a + l + 1 + 1, F, h, a)
  BY <1>1, <1>5, <1>7, <1>8 DEF InLine, Moves
<1>10. Stays(p, q)
  BY <1>5 DEF Moves
<1> QED
  BY <1>1, <1>2, <1>3, <1>5, <1>9, <1>10

LEMMA ValueGoesOn ==
  ASSUME NEW p \in Parser, p.state = "HeaderValue", NEW F \in Seq(Field), p.chunked = FALSE,
         NEW w, NEW h \in Field, NEW a \in Nat, NEW b, LineAt(w, h, a, b),
         p.method = "GET" \/ FramedAs(h, FALSE),
         NEW j \in 0 .. Len(h.value), NEW i \in Nat, i = a + Len(h.name) + 2 + j,
         p.headers = Append(F, [name |-> h.name, value |-> SubSeq(h.value, 1, j)])
  PROVE  /\ i < b /\ Stays(p, consume(p, w[i + 1]))
         /\ InLine(consume(p, w[i + 1]), i + 1, F, h, a)
<1>1. PICK n \in Seq(Tokens), l \in Nat \ {0}, v \in Seq(Lexemes \ {"CR", "LF"}), m \in Nat :
        /\ n = h.name /\ l = Len(n) /\ n \in Name
        /\ v = h.value /\ m = Len(v) /\ v \in Value
        /\ h = [name |-> n, value |-> v]
  BY FieldParts
<1>2. j \in 0 .. m /\ j \in Nat /\ i = a + l + 2 + j
  BY <1>1
<1>0. /\ j # m => j \in 0 .. m - 1 /\ j + 1 \in 1 .. m /\ j + 1 \in 0 .. m
      /\ a + l + 2 + (j + 1) = (a + l + 2 + j) + 1
      /\ a + l + 2 + j < a + l + m + 4
      /\ (a + l + 2 + m) + 1 = a + l + m + 3
  BY <1>2, Sums
<1>3. i < b
  <2>1. b = a + l + m + 4
    BY <1>1 DEF LineAt
  <2>2. i < a + l + m + 4
    BY <1>0, <1>2, Zenon
  <2> QED
    BY <2>1, <2>2, Zenon
<1>4. CASE j # m
  <2>1. /\ j \in 0 .. m - 1 /\ j + 1 \in 1 .. m /\ j + 1 \in 0 .. m
        /\ a + l + 2 + (j + 1) = i + 1
    BY <1>0, <1>2, <1>4, Zenon
  <2>2. PICK c \in Lexemes \ {"CR", "LF"} :
          c = v[j + 1] /\ SubSeq(v, 1, j + 1) = Append(SubSeq(v, 1, j), c)
    <3>1. /\ v[j + 1] \in Lexemes \ {"CR", "LF"}
          /\ SubSeq(v, 1, j + 1) = Append(SubSeq(v, 1, j), v[j + 1])
      BY <1>1, <2>1, PrefixGrows
    <3> QED
      BY <3>1, Zenon
  <2>3. w[a + l + 2 + (j + 1)] = h.value[j + 1]
    BY <1>1, <2>1 DEF LineAt
  <2>4. w[i + 1] = c
    BY <1>1, <2>1, <2>2, <2>3
  <2>5. PICK v1 \in Value : v1 = SubSeq(v, 1, j)
    BY <1>1, <1>2, ValuePrefix
  <2>6. PICK n1 \in Name : n1 = h.name
    BY <1>1
  <2>7. p.headers = Append(F, [name |-> n1, value |-> v1])
    BY <1>1, <2>5, <2>6
  <2>8. PICK q : q = consume(p, c)
                 /\ Moves(p, q, "HeaderValue", Append(F, [name |-> n1, value |-> Append(v1, c)]))
    BY <2>7, ValueContinues
  <2>9. q.headers = Append(F, [name |-> h.name, value |-> SubSeq(h.value, 1, j + 1)])
    BY <1>1, <2>2, <2>5, <2>6, <2>8 DEF Moves
  <2>10. j + 1 \in 0 .. Len(h.value) /\ i + 1 = a + Len(h.name) + 2 + (j + 1)
    BY <1>1, <2>1, Zenon
  <2>11. InLine(q, i + 1, F, h, a)
    BY <2>8, <2>9, <2>10 DEF InLine, Moves
  <2>12. Stays(p, q)
    BY <2>8 DEF Moves
  <2> QED
    BY <1>3, <2>4, <2>8, <2>11, <2>12
<1>5. CASE j = m
  <2>1. w[i + 1] = "CR"
    <3>1. i + 1 = a + l + m + 3
      BY <1>0, <1>2, <1>5, Zenon
    <3> QED
      BY <1>1, <3>1 DEF LineAt
  <2>2. SubSeq(v, 1, j) = v
    BY <1>1, <1>5, PrefixParts
  <2>3. p.headers = Append(F, h)
    BY <1>1, <2>2
  <2>4. PICK q : q = consume(p, "CR") /\ Moves(p, q, "ExpectingNewline_2", p.headers)
    BY <2>3, ValueEnds
  <2>5. i + 1 = a + Len(h.name) + Len(h.value) + 3
    BY <1>0, <1>1, <1>2, <1>5, Zenon
  <2>6. InLine(q, i + 1, F, h, a)
    BY <2>3, <2>4, <2>5 DEF InLine, Moves
  <2>7. Stays(p, q)
    BY <2>4 DEF Moves
  <2> QED
    BY <1>3, <2>1, <2>4, <2>6, <2>7
<1> QED
  BY <1>4, <1>5

LEMMA LineEnds ==
  ASSUME NEW p \in Parser, p.state = "ExpectingNewline_2",
         NEW w, NEW h \in Field, NEW a \in Nat, NEW b, LineAt(w, h, a, b)
  PROVE  /\ a + Len(h.name) + Len(h.value) + 3 < b
         /\ a + Len(h.name) + Len(h.value) + 3 + 1 = b
         /\ Moves(p, consume(p, w[a + Len(h.name) + Len(h.value) + 3 + 1]),
                  "HeaderLineStart", p.headers)
<1>1. PICK l \in Nat, m \in Nat : l = Len(h.name) /\ m = Len(h.value)
  BY FieldParts
<1>2. a + l + m + 3 + 1 = a + l + m + 4 /\ a + l + m + 3 < a + l + m + 4
  OBVIOUS
<1>3. a + l + m + 4 = b /\ w[a + l + m + 4] = "LF"
  BY <1>1 DEF LineAt
<1>4. "HeaderLineStart" \in States
  BY DEF States, HeaderStates
<1>5. Moves(p, consume(p, "LF"), "HeaderLineStart", p.headers)
  BY <1>4, ReadsHeaders, MovesTo
<1> QED
  BY <1>1, <1>2, <1>3, <1>5

\* Parser p has read one lexeme more of the line that ends at b, and is q.
LineRead(p, q, i, F, h, a, b) ==
  /\ i < b /\ Stays(p, q)
  /\ \/ InLine(q, i + 1, F, h, a)
     \/ i + 1 = b /\ q.state = "HeaderLineStart" /\ q.headers = Append(F, h)

LEMMA LineGoesOn ==
  ASSUME NEW p \in Parser, NEW F \in Seq(Field), p.chunked = FALSE,
         NEW w, NEW h \in Field, NEW a \in Nat, NEW b, LineAt(w, h, a, b),
         p.method = "GET" \/ FramedAs(h, FALSE), NEW i \in Nat, InLine(p, i, F, h, a)
  PROVE  LineRead(p, consume(p, w[i + 1]), i, F, h, a, b)
<1>1. CASE p.state = "HeaderName"
  <2>1. PICK j \in 1 .. Len(h.name) :
          i = a + j /\ p.headers = Append(F, [name |-> SubSeq(h.name, 1, j), value |-> <<>>])
    BY <1>1 DEF InLine
  <2> QED
    BY <1>1, <2>1, NameGoesOn DEF LineRead
<1>2. CASE p.state = "SpaceBeforeHeaderValue"
  <2>1. /\ i = a + Len(h.name) + 1
        /\ p.headers = Append(F, [name |-> h.name, value |-> <<>>])
    BY <1>2 DEF InLine
  <2> QED
    BY <1>2, <2>1, ValueStarts DEF LineRead
<1>3. CASE p.state = "HeaderValue"
  <2>1. PICK j \in 0 .. Len(h.value) :
          /\ i = a + Len(h.name) + 2 + j
          /\ p.headers = Append(F, [name |-> h.name, value |-> SubSeq(h.value, 1, j)])
    BY <1>3 DEF InLine
  <2> QED
    BY <1>3, <2>1, ValueGoesOn DEF LineRead
<1>4. CASE p.state = "ExpectingNewline_2"
  <2>1. i = a + Len(h.name) + Len(h.value) + 3 /\ p.headers = Append(F, h)
    BY <1>4 DEF InLine
  <2>2. i + 1 = b /\ i < b
    BY <1>4, <2>1, LineEnds
  <2>3. Moves(p, consume(p, w[i + 1]), "HeaderLineStart", p.headers)
    BY <1>4, <2>1, LineEnds
  <2>4. PICK q : q = consume(p, w[i + 1])
    OBVIOUS
  <2>5. Stays(p, q) /\ q.state = "HeaderLineStart" /\ q.headers = Append(F, h)
    BY <2>1, <2>3, <2>4 DEF Moves
  <2> QED
    BY <2>2, <2>4, <2>5 DEF LineRead
<1> QED
  BY <1>1, <1>2, <1>3, <1>4 DEF InLine

---------------------------------------------------------------------------
(* A whole text *)

\* A status that is read as it is written: it does not end before its end.
Worthy(status) ==
  status \in Text /\ status # <<>> /\ \A j \in 2 .. Len(status) : status[j] # "CR"

StartLength(method, status) == IF method = "GET" THEN 4 ELSE 8 + Len(status)

\* The start line of a GET, or of a response with that status.
StartAt(w, method, status) ==
  IF method = "GET"
  THEN w[1] = "GET" /\ w[2] = "HTTP/1.1" /\ w[3] = "CR" /\ w[4] = "LF"
  ELSE /\ w[1] = "HTTP/1.1" /\ w[2] = "SP"
       /\ w[3] = "2" /\ w[4] = "0" /\ w[5] = "0" /\ w[6] = "SP"
       /\ \A j \in 1 .. Len(status) : w[6 + j] = status[j]
       /\ w[7 + Len(status)] = "CR" /\ w[8 + Len(status)] = "LF"

\* Text w is that start line, headers hs, of which the kth ends at at[k], and
\* the body.
Says(w, method, status, hs, at, body) ==
  /\ StartAt(w, method, status) /\ at[0] = StartLength(method, status)
  /\ \A k \in 1 .. Len(hs) : LineAt(w, hs[k], at[k - 1], at[k]) /\ at[k] <= at[Len(hs)]
  /\ w[at[Len(hs)] + 1] = "CR" /\ w[at[Len(hs)] + 2] = "LF"
  /\ Len(w) = at[Len(hs)] + 2 + Len(body)
  /\ \A j \in 1 .. Len(body) : w[at[Len(hs)] + 2 + j] = body[j]

\* Headers that announce the body as it is.
Announce(method, hs, body) ==
  IF method = "GET" THEN body = <<>>
  ELSE Length(hs) = Len(body) /\ \A k \in DOMAIN hs : FramedAs(hs[k], FALSE)

\* The status line of a response is read up to i.
InStatus(p, i, status) ==
  \/ i = 0 /\ p.state = "ResponseStatusStart" /\ p.status = <<>>
  \/ i = 1 /\ p.state = "ResponseHttpVersion_minor" /\ p.status = <<>>
  \/ i = 2 /\ p.state = "ResponseHttpVersion_statusCodeStart" /\ p.status = <<>>
  \/ /\ i \in {3, 4, 5} /\ p.state = "ResponseHttpVersion_statusCode" /\ p.status = <<>>
     /\ p.statusCode = IF i = 3 THEN 2 ELSE IF i = 4 THEN 20 ELSE 200
  \/ /\ i = 6 /\ p.state = "ResponseHttpVersion_statusTextStart"
     /\ p.statusCode = 200 /\ p.status = <<>>
  \/ /\ p.state = "ResponseHttpVersion_statusText" /\ p.statusCode = 200
     /\ \E j \in 1 .. Len(status) : i = 6 + j /\ p.status = SubSeq(status, 1, j)
  \/ /\ i = 7 + Len(status) /\ p.state = "HttpVersion_newLine"
     /\ p.statusCode = 200 /\ p.status = status

InStart(p, i, method, status) ==
  IF method = "GET"
  THEN \/ i = 0 /\ p.state = "RequestMethodStart"
       \/ i = 1 /\ p.state = "RequestUri" /\ p.method = "GET"
       \/ i = 2 /\ p.state = "RequestHttpVersion_minor" /\ p.method = "GET"
       \/ i = 3 /\ p.state = "HttpVersion_newLine" /\ p.method = "GET"
  ELSE p.method = "none" /\ InStatus(p, i, status)

\* The start line has been read.
Begun(p, method, status) ==
  /\ p.method = method
  /\ method = "none" => p.statusCode = 200 /\ p.status = status

InHeaders(p, i, hs, at) ==
  \/ \E k \in 0 .. Len(hs) :
       p.state = "HeaderLineStart" /\ i = at[k] /\ p.headers = SubSeq(hs, 1, k)
  \/ \E k \in 1 .. Len(hs) : InLine(p, i, SubSeq(hs, 1, k - 1), hs[k], at[k - 1])
  \/ p.state = "ExpectingNewline_3" /\ i = at[Len(hs)] + 1 /\ p.headers = hs

InBody(p, i, hs, at, body) ==
  /\ p.state = "Post" /\ p.headers = hs
  /\ \E j \in 0 .. Len(body) - 1 :
       i = at[Len(hs)] + 2 + j /\ p.content = SubSeq(body, 1, j)

\* Parser p has read w up to i, and has made of it what it says.
Reads(p, i, w, method, status, hs, at, body) ==
  /\ p.chunked = FALSE
  /\ \/ /\ p.result = "incomplete" /\ i < Len(w)
        /\ \/ InStart(p, i, method, status) /\ p.headers = <<>> /\ p.content = <<>>
           \/ InHeaders(p, i, hs, at) /\ p.content = <<>> /\ Begun(p, method, status)
           \/ InBody(p, i, hs, at, body) /\ Begun(p, method, status)
     \/ /\ p.result = "completed" /\ i = Len(w) /\ Begun(p, method, status)
        /\ p.headers = hs /\ p.content = body

\* One lexeme more of the start line: q has read it, or the whole line.
StartedOn(p, q, i, method, status) ==
  /\ q.headers = p.headers /\ q.content = p.content
  /\ q.chunked = p.chunked /\ q.result = p.result
  /\ \/ InStart(q, i + 1, method, status) /\ i + 1 < StartLength(method, status)
     \/ /\ i + 1 = StartLength(method, status) /\ q.state = "HeaderLineStart"
        /\ Begun(q, method, status)

\* What the status line leaves alone.
Apart(p, q) ==
  /\ q.headers = p.headers /\ q.content = p.content
  /\ q.chunked = p.chunked /\ q.result = p.result /\ q.method = p.method

LEMMA StateSet ==
  ASSUME NEW p \in Parser, NEW s \in States, NEW q, q = To(p, s)
  PROVE  /\ q \in Parser /\ Apart(p, q) /\ q.state = s
         /\ q.statusCode = p.statusCode /\ q.status = p.status
BY ToState DEF Apart

LEMMA RequestGoesOn ==
  ASSUME NEW p \in Parser, NEW w, NEW status, StartAt(w, "GET", status),
         NEW i \in Nat, InStart(p, i, "GET", status)
  PROVE  StartedOn(p, consume(p, w[i + 1]), i, "GET", status)
<1>1. {"HttpVersion_newLine", "RequestUri", "RequestHttpVersion_minor", "HeaderLineStart"}
        \subseteq States
  BY DEF States, StartStates, HeaderStates
<1>2. w[1] = "GET" /\ w[2] = "HTTP/1.1" /\ w[3] = "CR" /\ w[4] = "LF"
  BY DEF StartAt
<1>3. StartLength("GET", status) = 4
  BY DEF StartLength
<1>4. CASE i = 0 /\ p.state = "RequestMethodStart"
  <2>1. PICK r \in Parser :
          /\ r = To(p, "RequestUri") /\ r.state = "RequestUri"
          /\ r.headers = p.headers /\ r.content = p.content
          /\ r.chunked = p.chunked /\ r.result = p.result
    BY <1>1, ToState
  <2>2. PICK q : /\ q = [r EXCEPT !.method = "GET"] /\ q.state = r.state /\ q.method = "GET"
                 /\ q.headers = r.headers /\ q.content = r.content
                 /\ q.chunked = r.chunked /\ q.result = r.result
    <3>1. PICK q : q = [r EXCEPT !.method = "GET"]
      OBVIOUS
    <3>2. q.state = r.state /\ q.method = "GET" /\ q.headers = r.headers
      BY <3>1 DEF Parser
    <3>3. q.content = r.content /\ q.chunked = r.chunked /\ q.result = r.result
      BY <3>1 DEF Parser
    <3> QED
      BY <3>1, <3>2, <3>3
  <2>3. consume(p, w[i + 1]) = q
    <3>1. consume(p, "GET") = [To(p, "RequestUri") EXCEPT !.method = "GET"]
      BY <1>4, ReadsStartLine
    <3>2. w[i + 1] = "GET"
      BY <1>2, <1>4
    <3> QED
      BY <2>1, <2>2, <3>1, <3>2, Zenon
  <2>4. InStart(q, i + 1, "GET", status)
    BY <1>4, <2>1, <2>2 DEF InStart
  <2> QED
    BY <1>3, <1>4, <2>1, <2>2, <2>3, <2>4 DEF StartedOn
<1>5. CASE i = 1 /\ p.state = "RequestUri" /\ p.method = "GET"
  <2>1. consume(p, w[i + 1]) = To(p, "RequestHttpVersion_minor")
    BY <1>2, <1>5, ReadsStartLine
  <2>2. PICK q : /\ q = To(p, "RequestHttpVersion_minor") /\ q.state = "RequestHttpVersion_minor"
                 /\ Apart(p, q) /\ q.method = "GET"
    <3>1. PICK q : q = To(p, "RequestHttpVersion_minor")
      OBVIOUS
    <3>2. Apart(p, q) /\ q.state = "RequestHttpVersion_minor"
      BY <1>1, <3>1, StateSet
    <3>3. q.method = "GET"
      BY <1>5, <3>2 DEF Apart
    <3> QED
      BY <3>1, <3>2, <3>3
  <2>3. InStart(q, i + 1, "GET", status)
    BY <1>5, <2>2 DEF InStart
  <2>4. i + 1 < StartLength("GET", status)
    BY <1>3, <1>5
  <2>5. StartedOn(p, q, i, "GET", status)
    BY <2>2, <2>3, <2>4, Zenon DEF StartedOn, Apart
  <2> QED
    BY <2>1, <2>2, <2>5
<1>6. CASE i = 2 /\ p.state = "RequestHttpVersion_minor" /\ p.method = "GET"
  <2>1. consume(p, w[i + 1]) = To(p, "HttpVersion_newLine")
    BY <1>2, <1>6, ReadsStartLine
  <2>2. PICK q : /\ q = To(p, "HttpVersion_newLine") /\ q.state = "HttpVersion_newLine"
                 /\ Apart(p, q) /\ q.method = "GET"
    <3>1. PICK q : q = To(p, "HttpVersion_newLine")
      OBVIOUS
    <3>2. Apart(p, q) /\ q.state = "HttpVersion_newLine"
      BY <1>1, <3>1, StateSet
    <3>3. q.method = "GET"
      BY <1>6, <3>2 DEF Apart
    <3> QED
      BY <3>1, <3>2, <3>3
  <2>3. InStart(q, i + 1, "GET", status)
    BY <1>6, <2>2 DEF InStart
  <2>4. i + 1 < StartLength("GET", status)
    BY <1>3, <1>6
  <2>5. StartedOn(p, q, i, "GET", status)
    BY <2>2, <2>3, <2>4, Zenon DEF StartedOn, Apart
  <2> QED
    BY <2>1, <2>2, <2>5
<1>7. CASE i = 3 /\ p.state = "HttpVersion_newLine" /\ p.method = "GET"
  <2>1. consume(p, w[i + 1]) = To(p, "HeaderLineStart")
    BY <1>2, <1>7, ReadsStartLine
  <2>2. PICK q : /\ q = To(p, "HeaderLineStart") /\ q.state = "HeaderLineStart"
                 /\ Apart(p, q) /\ q.method = "GET"
    <3>1. PICK q : q = To(p, "HeaderLineStart")
      OBVIOUS
    <3>2. Apart(p, q) /\ q.state = "HeaderLineStart"
      BY <1>1, <3>1, StateSet
    <3>3. q.method = "GET"
      BY <1>7, <3>2 DEF Apart
    <3> QED
      BY <3>1, <3>2, <3>3
  <2>3. i + 1 = StartLength("GET", status) /\ Begun(q, "GET", status)
    BY <1>3, <1>7, <2>2 DEF Begun
  <2>5. StartedOn(p, q, i, "GET", status)
    BY <2>2, <2>3, Zenon DEF StartedOn, Apart
  <2> QED
    BY <2>1, <2>2, <2>5
<1> QED
  BY <1>4, <1>5, <1>6, <1>7 DEF InStart

LEMMA CodeSet ==
  ASSUME NEW p \in Parser, NEW code, NEW q, q = [p EXCEPT !.statusCode = code]
  PROVE  Apart(p, q) /\ q.statusCode = code /\ q.state = p.state /\ q.status = p.status
BY DEF Apart, Parser

LEMMA StatusSet ==
  ASSUME NEW p \in Parser, NEW text, NEW q, q = [p EXCEPT !.status = text]
  PROVE  Apart(p, q) /\ q.statusCode = p.statusCode /\ q.state = p.state /\ q.status = text
BY DEF Apart, Parser

LEMMA StatusGoesOn ==
  ASSUME NEW p \in Parser, NEW w, NEW status, Worthy(status), StartAt(w, "none", status),
         NEW i \in Nat, InStart(p, i, "none", status)
  PROVE  StartedOn(p, consume(p, w[i + 1]), i, "none", status)
<1>1. {"ResponseHttpVersion_minor", "ResponseHttpVersion_statusCodeStart",
       "ResponseHttpVersion_statusCode", "ResponseHttpVersion_statusTextStart",
       "ResponseHttpVersion_statusText", "HttpVersion_newLine", "HeaderLineStart"}
        \subseteq States
  BY DEF States, StartStates, HeaderStates
<1>2. PICK n \in Nat \ {0} : n = Len(status) /\ \A j \in 2 .. n : status[j] # "CR"
  BY LenProperties, EmptySeq DEF Worthy, Text
<1>3. /\ w[1] = "HTTP/1.1" /\ w[2] = "SP"
      /\ w[3] = "2" /\ w[4] = "0" /\ w[5] = "0" /\ w[6] = "SP"
      /\ \A j \in 1 .. n : w[6 + j] = status[j]
      /\ w[7 + n] = "CR" /\ w[8 + n] = "LF"
  BY <1>2 DEF StartAt
<1>4. StartLength("none", status) = 8 + n /\ p.method = "none" /\ InStatus(p, i, status)
  BY <1>2 DEF StartLength, InStart
<1>5. ASSUME NEW q, Apart(p, q), InStatus(q, i + 1, status), i + 1 < 8 + n
      PROVE  StartedOn(p, q, i, "none", status)
  BY <1>4, <1>5 DEF StartedOn, InStart, Apart
<1>6. ASSUME NEW s \in States
      PROVE  /\ Apart(p, To(p, s)) /\ To(p, s).state = s /\ To(p, s) \in Parser
             /\ To(p, s).statusCode = p.statusCode /\ To(p, s).status = p.status
  BY ToState DEF Apart
<1>7. CASE i = 0 /\ p.state = "ResponseStatusStart" /\ p.status = <<>>
  <2>1. consume(p, w[i + 1]) = To(p, "ResponseHttpVersion_minor")
    BY <1>3, <1>7, ReadsStatusLine
  <2> QED
    BY <1>1, <1>5, <1>6, <1>7, <2>1 DEF InStatus
<1>8. CASE i = 1 /\ p.state = "ResponseHttpVersion_minor" /\ p.status = <<>>
  <2>1. consume(p, w[i + 1]) = To(p, "ResponseHttpVersion_statusCodeStart")
    BY <1>3, <1>8, ReadsStatusLine
  <2> QED
    BY <1>1, <1>5, <1>6, <1>8, <2>1 DEF InStatus
<1>9. CASE i = 2 /\ p.state = "ResponseHttpVersion_statusCodeStart" /\ p.status = <<>>
  <2>1. PICK r \in Parser :
          /\ r = To(p, "ResponseHttpVersion_statusCode") /\ Apart(p, r)
          /\ r.state = "ResponseHttpVersion_statusCode" /\ r.status = <<>>
    BY <1>1, <1>6, <1>9
  <2>2. consume(p, w[i + 1]) = [r EXCEPT !.statusCode = 2]
    BY <1>3, <1>9, <2>1, ReadsStatusLine
  <2>3. PICK q : /\ q = [r EXCEPT !.statusCode = 2] /\ Apart(r, q) /\ q.state = r.state
                 /\ q.statusCode = 2 /\ q.status = r.status
    <3>1. PICK q : q = [r EXCEPT !.statusCode = 2]
      OBVIOUS
    <3> QED
      BY <3>1, CodeSet
  <2>4. Apart(p, q) /\ InStatus(q, i + 1, status)
    BY <1>9, <2>1, <2>3 DEF Apart, InStatus
  <2> QED
    BY <1>5, <1>9, <2>2, <2>3, <2>4
<1>10. CASE /\ i \in {3, 4, 5} /\ p.state = "ResponseHttpVersion_statusCode" /\ p.status = <<>>
            /\ p.statusCode = IF i = 3 THEN 2 ELSE IF i = 4 THEN 20 ELSE 200
  <2>1. CASE i \in {3, 4}
    <3>1. PICK code \in Nat : code = IF i = 3 THEN 20 ELSE 200
      OBVIOUS
    <3>2. consume(p, w[i + 1]) = [p EXCEPT !.statusCode = code]
      BY <1>3, <1>10, <2>1, <3>1, ReadsStatusLine
    <3>3. PICK q : /\ q = [p EXCEPT !.statusCode = code] /\ Apart(p, q) /\ q.state = p.state
                   /\ q.statusCode = code /\ q.status = p.status
      <4>1. PICK q : q = [p EXCEPT !.statusCode = code]
        OBVIOUS
      <4>2. Apart(p, q) /\ q.state = p.state /\ q.statusCode = code /\ q.status = p.status
        BY <4>1, CodeSet
      <4> QED
        BY <4>1, <4>2
    <3>4. InStatus(q, i + 1, status)
      BY <1>10, <2>1, <3>1, <3>3 DEF InStatus
    <3>5. Apart(p, q) /\ i + 1 < 8 + n
      BY <2>1, <3>3
    <3>6. StartedOn(p, q, i, "none", status)
      BY <1>5, <3>4, <3>5
    <3> QED
      BY <3>2, <3>3, <3>6
  <2>2. CASE i = 5
    <3>1. consume(p, w[i + 1]) = To(p, "ResponseHttpVersion_statusTextStart")
      BY <1>3, <1>10, <2>2, ReadsStatusLine
    <3> QED
      BY <1>1, <1>5, <1>6, <1>10, <2>2, <3>1 DEF InStatus
  <2> QED
    BY <1>10, <2>1, <2>2
<1>11. CASE /\ i = 6 /\ p.state = "ResponseHttpVersion_statusTextStart"
            /\ p.statusCode = 200 /\ p.status = <<>>
  <2>1. 1 \in 1 .. n /\ 0 \in 0 .. n - 1 /\ 6 + 1 = 7 /\ 0 + 1 = 1
    OBVIOUS
  <2>2. PICK c : c = status[1] /\ SubSeq(status, 1, 1) = Append(SubSeq(status, 1, 0), c)
    BY <1>2, <2>1, PrefixGrows DEF Worthy, Text
  <2>3. SubSeq(status, 1, 0) = <<>>
    BY PrefixParts DEF Worthy, Text
  <2>4. w[i + 1] = c
    BY <1>3, <1>11, <2>1, <2>2
  <2>5. PICK r \in Parser :
          /\ r = To(p, "ResponseHttpVersion_statusText") /\ Apart(p, r)
          /\ r.state = "ResponseHttpVersion_statusText" /\ r.status = <<>>
          /\ r.statusCode = 200
    BY <1>1, <1>6, <1>11
  <2>6. PICK text : text = Append(<<>>, c) /\ text = SubSeq(status, 1, 1)
    BY <2>2, <2>3
  <2>7. consume(p, c) = [r EXCEPT !.status = text]
    <3>1. consume(p, c) = [r EXCEPT !.status = Append(@, c)]
      BY <1>11, <2>5, ReadsStatusLine
    <3>2. [r EXCEPT !.status = Append(@, c)] = [r EXCEPT !.status = Append(r.status, c)]
      OBVIOUS
    <3>3. Append(r.status, c) = text
      BY <2>5, <2>6
    <3> QED
      BY <3>1, <3>2, <3>3
  <2>8. PICK q : /\ q = [r EXCEPT !.status = text] /\ Apart(r, q) /\ q.state = r.state
                 /\ q.statusCode = r.statusCode /\ q.status = text
    <3>1. PICK q : q = [r EXCEPT !.status = text]
      OBVIOUS
    <3>2. Apart(r, q) /\ q.state = r.state /\ q.statusCode = r.statusCode /\ q.status = text
      BY <3>1, StatusSet
    <3> QED
      BY <3>1, <3>2
  <2>9. Apart(p, q) /\ InStatus(q, i + 1, status)
    BY <1>2, <1>11, <2>1, <2>5, <2>6, <2>8 DEF Apart, InStatus
  <2>10. i + 1 < 8 + n
    BY <1>11
  <2> QED
    BY <1>5, <2>4, <2>7, <2>8, <2>9, <2>10
<1>12. CASE /\ p.state = "ResponseHttpVersion_statusText" /\ p.statusCode = 200
            /\ \E j \in 1 .. Len(status) : i = 6 + j /\ p.status = SubSeq(status, 1, j)
  <2>1. PICK j \in 1 .. n : i = 6 + j /\ p.status = SubSeq(status, 1, j)
    BY <1>2, <1>12
  <2>2. CASE j = n
    <3>1. p.status = status /\ i + 1 = 7 + n /\ i + 1 < 8 + n
      BY <1>2, <2>1, <2>2, PrefixParts DEF Worthy, Text
    <3>2. consume(p, w[i + 1]) = To(p, "HttpVersion_newLine")
      BY <1>3, <1>12, <3>1, ReadsStatusLine
    <3>3. PICK q : /\ q = To(p, "HttpVersion_newLine") /\ Apart(p, q)
                   /\ q.state = "HttpVersion_newLine"
                   /\ q.statusCode = p.statusCode /\ q.status = p.status
      <4>1. PICK q : q = To(p, "HttpVersion_newLine")
        OBVIOUS
      <4>2. "HttpVersion_newLine" \in States
        BY <1>1
      <4>3. /\ Apart(p, q) /\ q.state = "HttpVersion_newLine"
            /\ q.statusCode = p.statusCode /\ q.status = p.status
        BY <4>1, <4>2, StateSet
      <4> QED
        BY <4>1, <4>3
    <3>4. InStatus(q, i + 1, status)
      BY <1>2, <1>12, <3>1, <3>3 DEF InStatus
    <3>5. StartedOn(p, q, i, "none", status)
      BY <1>5, <3>1, <3>3, <3>4
    <3> QED
      BY <3>2, <3>3, <3>5
  <2>3. CASE j # n
    <3>1. /\ j \in 0 .. n - 1 /\ j + 1 \in 1 .. n /\ j + 1 \in 2 .. n
          /\ i + 1 = 6 + (j + 1) /\ i + 1 < 8 + n
      BY <2>1, <2>3
    <3>2. PICK c : c = status[j + 1] /\ c # "CR"
                   /\ SubSeq(status, 1, j + 1) = Append(SubSeq(status, 1, j), c)
      <4>1. PICK z \in Seq(Lexemes) : z = status
        BY DEF Worthy, Text
      <4>2. SubSeq(z, 1, j + 1) = Append(SubSeq(z, 1, j), z[j + 1])
        BY <1>2, <3>1, <4>1, PrefixGrows
      <4>3. status[j + 1] # "CR"
        BY <1>2, <3>1
      <4> QED
        BY <4>1, <4>2, <4>3
    <3>3. w[i + 1] = c
      BY <1>3, <3>1, <3>2
    <3>4. PICK text : text = Append(p.status, c) /\ text = SubSeq(status, 1, j + 1)
      BY <2>1, <3>2
    <3>5. consume(p, c) = [p EXCEPT !.status = text]
      <4>1. \A d : d # "CR" => consume(p, d) = [p EXCEPT !.status = Append(@, d)]
        BY <1>12, ReadsStatusLine
      <4>2. [p EXCEPT !.status = Append(@, c)] = [p EXCEPT !.status = Append(p.status, c)]
        OBVIOUS
      <4> QED
        BY <3>2, <3>4, <4>1, <4>2
    <3>6. PICK q : /\ q = [p EXCEPT !.status = text] /\ Apart(p, q) /\ q.state = p.state
                   /\ q.statusCode = p.statusCode /\ q.status = text
      <4>1. PICK q : q = [p EXCEPT !.status = text]
        OBVIOUS
      <4>2. Apart(p, q) /\ q.state = p.state /\ q.statusCode = p.statusCode /\ q.status = text
        BY <4>1, StatusSet
      <4> QED
        BY <4>1, <4>2
    <3>7. InStatus(q, i + 1, status)
      BY <1>2, <1>12, <3>1, <3>4, <3>6 DEF InStatus
    <3> QED
      BY <1>5, <3>1, <3>3, <3>5, <3>6, <3>7
  <2> QED
    BY <2>2, <2>3
<1>13. CASE /\ i = 7 + Len(status) /\ p.state = "HttpVersion_newLine"
            /\ p.statusCode = 200 /\ p.status = status
  <2>1. i + 1 = 8 + n
    BY <1>2, <1>13
  <2>2. consume(p, w[i + 1]) = To(p, "HeaderLineStart")
    BY <1>3, <1>13, <2>1, ReadsStartLine
  <2> QED
    BY <1>1, <1>4, <1>6, <1>13, <2>1, <2>2 DEF StartedOn, Begun, Apart
<1> QED
  BY <1>4, <1>7, <1>8, <1>9, <1>10, <1>11, <1>12, <1>13 DEF InStatus

\* In the body only a response can be, and what it has left is the rest of it.
LEMMA LeftToRead ==
  ASSUME NEW p \in Parser, ParserOK(p), p.chunked = FALSE, p.result = "incomplete",
         p.state \in {"ExpectingNewline_3", "Post"},
         NEW method \in {"GET", "none"}, p.method = method,
         NEW body \in Text, Announce(method, p.headers, body)
  PROVE  /\ \/ p.contentSize + Len(p.content) = Len(body)
            \/ p.contentSize = 0 /\ method = "GET"
         /\ p.state = "Post" => p.contentSize > 0
         /\ method = "GET" => body = <<>>
<1>1. StateOK(p) /\ (p.method # "GET" => FramingOK(p))
  BY DEF ParserOK
<1>2. p.state \notin Partial
  BY DEF Partial
<1>3. p.state = "Post" => p.contentSize > 0
  BY <1>1 DEF StateOK
<1>4. CASE method = "GET"
  <2>1. p.contentSize = 0
    BY <1>1, <1>4 DEF StateOK
  <2>2. body = <<>>
    BY <1>4 DEF Announce
  <2> QED
    BY <1>3, <1>4, <2>1, <2>2
<1>5. CASE method = "none"
  <2>1. p.contentSize + Len(p.content) = Length(p.headers)
    BY <1>1, <1>2, <1>5 DEF FramingOK
  <2>2. Length(p.headers) = Len(body)
    BY <1>5 DEF Announce
  <2>3. p.contentSize + Len(p.content) = Len(body)
    BY <2>1, <2>2, Zenon
  <2>4. method # "GET"
    BY <1>5
  <2> QED
    BY <1>3, <2>3, <2>4, Zenon
<1> QED
  BY <1>4, <1>5

\* The text up to its body ends before the text does.
LEMMA Places ==
  ASSUME NEW hs \in Seq(Field), NEW n \in Nat, n = Len(hs), NEW at \in [0 .. n -> Nat],
         NEW body \in Text, NEW w, NEW method, NEW status,
         Says(w, method, status, hs, at, body)
  PROVE  /\ \A k \in 0 .. n : at[k] \in Nat /\ at[k] <= at[n] /\ at[k] < Len(w)
                              /\ at[k] + 1 < Len(w)
         /\ Len(w) \in Nat
<1>1. PICK m \in Nat : m = Len(body)
  BY LenProperties DEF Text
<1>2. PICK e \in Nat : e = at[n]
  OBVIOUS
<1>3. Len(w) = e + 2 + m
  BY <1>1, <1>2 DEF Says
<1>4. ASSUME NEW k \in 0 .. n
      PROVE  at[k] \in Nat /\ at[k] <= e
  <2>1. CASE k = 0
    <3>1. CASE n = 0
      BY <1>2, <2>1, <3>1
    <3>2. CASE n # 0
      <4>1. 1 \in 1 .. n /\ 1 - 1 = 0
        BY <3>2
      <4>2. LineAt(w, hs[1], at[0], at[1]) /\ at[1] <= e
        BY <1>2, <4>1 DEF Says
      <4>3. hs[1] \in Field
        BY <4>1, ElementOfSeq
      <4>4. PICK l \in Nat, v \in Nat : l = Len(hs[1].name) /\ v = Len(hs[1].value)
        BY <4>3, FieldParts
      <4>5. PICK x \in Nat, y \in Nat : x = at[0] /\ y = at[1]
        BY <4>1
      <4>6. y = x + l + v + 4
        BY <4>2, <4>4, <4>5 DEF LineAt
      <4>7. x <= e
        BY <4>2, <4>5, <4>6
      <4> QED
        BY <2>1, <4>5, <4>7
    <3> QED
      BY <3>1, <3>2
  <2>2. CASE k # 0
    <3>1. k \in 1 .. n
      BY <2>2
    <3> QED
      BY <1>2, <3>1 DEF Says
  <2> QED
    BY <2>1, <2>2
<1>5. ASSUME NEW k \in 0 .. n
      PROVE  at[k] < Len(w) /\ at[k] + 1 < Len(w)
  <2>1. PICK x \in Nat : x = at[k] /\ x <= e
    BY <1>4
  <2>2. x < e + 2 + m /\ x + 1 < e + 2 + m
    BY <2>1
  <2> QED
    BY <1>3, <2>1, <2>2
<1>6. e + 2 + m \in Nat
  OBVIOUS
<1> QED
  BY <1>2, <1>3, <1>4, <1>5, <1>6

LEMMA StartReadOn ==
  ASSUME NEW hs \in Seq(Field), NEW n \in Nat, n = Len(hs), NEW at \in [0 .. n -> Nat],
         NEW body \in Text, NEW w, NEW method \in {"GET", "none"}, NEW status \in Text,
         method = "none" => Worthy(status),
         Says(w, method, status, hs, at, body), NEW p \in Parser, NEW i \in Nat,
         p.chunked = FALSE, p.result = "incomplete",
         InStart(p, i, method, status), p.headers = <<>>, p.content = <<>>
  PROVE  Reads(consume(p, w[i + 1]), i + 1, w, method, status, hs, at, body)
<1>1. StartAt(w, method, status) /\ at[0] = StartLength(method, status)
  BY DEF Says
<1>2. PICK q : q = consume(p, w[i + 1]) /\ StartedOn(p, q, i, method, status)
  BY <1>1, RequestGoesOn, StatusGoesOn
<1>3. at[0] < Len(w) /\ Len(w) \in Nat /\ 0 \in 0 .. n /\ at[0] \in Nat
  BY Places
<1>4. /\ q.headers = <<>> /\ q.content = <<>> /\ q.chunked = FALSE /\ q.result = "incomplete"
  BY <1>2 DEF StartedOn
<1>5. CASE InStart(q, i + 1, method, status) /\ i + 1 < StartLength(method, status)
  <2>1. i + 1 < Len(w)
    BY <1>1, <1>3, <1>5
  <2> QED
    BY <1>2, <1>4, <1>5, <2>1 DEF Reads
<1>6. CASE i + 1 = StartLength(method, status) /\ q.state = "HeaderLineStart"
           /\ Begun(q, method, status)
  <2>1. i + 1 = at[0] /\ i + 1 < Len(w)
    BY <1>1, <1>3, <1>6
  <2>2. q.headers = SubSeq(hs, 1, 0)
    BY <1>4, PrefixParts
  <2>3. InHeaders(q, i + 1, hs, at)
    BY <1>3, <1>6, <2>1, <2>2 DEF InHeaders
  <2> QED
    BY <1>2, <1>4, <1>6, <2>1, <2>3 DEF Reads
<1> QED
  BY <1>2, <1>5, <1>6 DEF StartedOn

LEMMA HeadersReadOn ==
  ASSUME NEW hs \in Seq(Field), NEW n \in Nat, n = Len(hs), NEW at \in [0 .. n -> Nat],
         NEW body \in Text, NEW w, NEW method \in {"GET", "none"}, NEW status \in Text,
         Says(w, method, status, hs, at, body), NEW p \in Parser, NEW i \in Nat,
         p.chunked = FALSE, p.result = "incomplete", p.content = <<>>, Begun(p, method, status),
         NEW k \in 0 .. n, p.state = "HeaderLineStart", i = at[k],
         p.headers = SubSeq(hs, 1, k)
  PROVE  Reads(consume(p, w[i + 1]), i + 1, w, method, status, hs, at, body)
<1>1. i + 1 < Len(w)
  BY Places
<1>2. ASSUME NEW q, Stays(p, q), InHeaders(q, i + 1, hs, at)
      PROVE  Reads(q, i + 1, w, method, status, hs, at, body)
  BY <1>1, <1>2 DEF Reads, Stays, Begun
<1>3. PICK F \in Seq(Field) : F = SubSeq(hs, 1, k) /\ F = p.headers
  BY PrefixParts
<1>4. CASE k # n
  <2>1. k + 1 \in 1 .. n /\ (k + 1) - 1 = k
    BY <1>4
  <2>2. PICK h \in Field : h = hs[k + 1]
    BY <2>1, ElementOfSeq
  <2>3. LineAt(w, hs[k + 1], at[(k + 1) - 1], at[k + 1])
    BY <2>1 DEF Says
  <2>4. LineAt(w, h, i, at[k + 1])
    BY <2>1, <2>2, <2>3
  <2>5. PICK q : q = consume(p, w[i + 1]) /\ InLine(q, i + 1, F, h, i) /\ Stays(p, q)
    BY <1>3, <2>4, LineBegins
  <2>6. InLine(q, i + 1, SubSeq(hs, 1, (k + 1) - 1), hs[k + 1], at[(k + 1) - 1])
    BY <1>3, <2>1, <2>2, <2>5
  <2>7. InHeaders(q, i + 1, hs, at)
    BY <2>1, <2>6 DEF InHeaders
  <2> QED
    BY <1>2, <2>5, <2>7
<1>5. CASE k = n
  <2>1. w[i + 1] = "CR"
    BY <1>5 DEF Says
  <2>2. "ExpectingNewline_3" \in States
    BY DEF States, HeaderStates
  <2>3. PICK q : q = consume(p, w[i + 1]) /\ Moves(p, q, "ExpectingNewline_3", p.headers)
    BY <2>1, <2>2, ReadsHeaders, MovesTo
  <2>4. q.headers = hs
    BY <1>5, <2>3, PrefixParts DEF Moves
  <2>5. InHeaders(q, i + 1, hs, at)
    BY <1>5, <2>3, <2>4 DEF InHeaders, Moves
  <2>6. Stays(p, q)
    BY <2>3 DEF Moves
  <2> QED
    BY <1>2, <2>3, <2>5, <2>6
<1> QED
  BY <1>4, <1>5

LEMMA LineReadOn ==
  ASSUME NEW hs \in Seq(Field), NEW n \in Nat, n = Len(hs), NEW at \in [0 .. n -> Nat],
         NEW body \in Text, NEW w, NEW method \in {"GET", "none"}, NEW status \in Text,
         Says(w, method, status, hs, at, body), Announce(method, hs, body),
         NEW p \in Parser, NEW i \in Nat,
         p.chunked = FALSE, p.result = "incomplete", p.content = <<>>, Begun(p, method, status),
         NEW k \in 1 .. n, InLine(p, i, SubSeq(hs, 1, k - 1), hs[k], at[k - 1])
  PROVE  Reads(consume(p, w[i + 1]), i + 1, w, method, status, hs, at, body)
<1>1. k - 1 \in 0 .. n /\ k \in 0 .. n
  OBVIOUS
<1>2. PICK h \in Field, F \in Seq(Field), a \in Nat, b \in Nat :
        h = hs[k] /\ F = SubSeq(hs, 1, k - 1) /\ a = at[k - 1] /\ b = at[k]
  BY <1>1, ElementOfSeq, PrefixParts
<1>3. LineAt(w, h, a, b)
  BY <1>2 DEF Says
<1>4. p.method = "GET" \/ FramedAs(h, FALSE)
  <2>1. CASE method = "none"
    <3>1. \A m \in DOMAIN hs : FramedAs(hs[m], FALSE)
      BY <2>1 DEF Announce
    <3>2. k \in DOMAIN hs
      BY LenProperties
    <3> QED
      BY <1>2, <3>1, <3>2
  <2> QED
    BY <2>1 DEF Begun
<1>5. InLine(p, i, F, h, a)
  BY <1>2
<1>6. LineRead(p, consume(p, w[i + 1]), i, F, h, a, b)
  <2>1. p.chunked = FALSE
    OBVIOUS
  <2> QED
    BY ONLY <1>3, <1>4, <1>5, <2>1, LineGoesOn, Zenon
<1>7. PICK q : /\ q = consume(p, w[i + 1]) /\ i < b /\ Stays(p, q)
               /\ \/ InLine(q, i + 1, F, h, a)
                  \/ i + 1 = b /\ q.state = "HeaderLineStart" /\ q.headers = Append(F, h)
  BY <1>6 DEF LineRead
<1>8. i + 1 < Len(w)
  <2>1. b < Len(w) /\ Len(w) \in Nat
    BY <1>1, <1>2, Places
  <2> QED
    BY <1>7, <2>1
<1>9. InHeaders(q, i + 1, hs, at)
  <2>1. CASE InLine(q, i + 1, F, h, a)
    BY <1>2, <2>1 DEF InHeaders
  <2>2. CASE i + 1 = b /\ q.state = "HeaderLineStart" /\ q.headers = Append(F, h)
    <3>1. SubSeq(hs, 1, k) = Append(SubSeq(hs, 1, k - 1), hs[k])
      BY PrefixParts
    <3>2. i + 1 = at[k] /\ q.headers = SubSeq(hs, 1, k)
      BY <1>2, <2>2, <3>1
    <3> QED
      BY <1>1, <2>2, <3>2 DEF InHeaders
  <2> QED
    BY <1>7, <2>1, <2>2
<1> QED
  BY <1>7, <1>8, <1>9 DEF Reads, Stays, Begun

LEMMA EndReadOn ==
  ASSUME NEW hs \in Seq(Field), NEW n \in Nat, n = Len(hs), NEW at \in [0 .. n -> Nat],
         NEW body \in Text, NEW w, NEW method \in {"GET", "none"}, NEW status \in Text,
         Says(w, method, status, hs, at, body), Announce(method, hs, body),
         NEW p \in Parser, ParserOK(p), NEW i \in Nat,
         p.chunked = FALSE, p.result = "incomplete", p.content = <<>>, Begun(p, method, status),
         p.state = "ExpectingNewline_3", i = at[n] + 1, p.headers = hs
  PROVE  Reads(consume(p, w[i + 1]), i + 1, w, method, status, hs, at, body)
<1>1. PICK e \in Nat, m \in Nat : e = at[n] /\ m = Len(body)
  <2>1. Len(body) \in Nat
    BY LenProperties DEF Text
  <2>2. at[n] \in Nat
    OBVIOUS
  <2> QED
    BY <2>1, <2>2
<1>2. i + 1 = e + 2 /\ w[i + 1] = "LF" /\ Len(w) = e + 2 + m
  BY <1>1 DEF Says
<1>3. p.contentSize = m
  <2>1. /\ \/ p.contentSize + Len(p.content) = Len(body)
           \/ p.contentSize = 0 /\ method = "GET"
        /\ method = "GET" => body = <<>>
    <3>1. p.method = method
      BY DEF Begun
    <3> QED
      BY <3>1, LeftToRead
  <2>2. p.contentSize \in Nat
    BY DEF Parser
  <2>3. Len(p.content) = 0 /\ Len(<<>>) = 0
    OBVIOUS
  <2> QED
    BY <1>1, <2>1, <2>2, <2>3
<1>4. CASE m = 0
  <2>1. consume(p, w[i + 1]) = Completed(p)
    BY <1>2, <1>3, <1>4, HeadersRead
  <2>2. PICK q : /\ q = consume(p, w[i + 1]) /\ q.result = "completed" /\ q.chunked = p.chunked
                 /\ q.method = p.method /\ q.headers = p.headers /\ q.content = p.content
                 /\ q.statusCode = p.statusCode /\ q.status = p.status
    BY <2>1, CompletedState
  <2>3. body = <<>>
    BY <1>1, <1>4, EmptySeq DEF Text
  <2>4. i + 1 = Len(w)
    BY <1>2, <1>4
  <2> QED
    BY <2>2, <2>3, <2>4 DEF Reads, Begun
<1>5. CASE m # 0
  <2>1. consume(p, w[i + 1]) = To(p, "Post")
    BY <1>2, <1>3, <1>5, HeadersRead
  <2>2. "Post" \in States
    BY DEF States
  <2>3. PICK q : q = consume(p, w[i + 1]) /\ Moves(p, q, "Post", p.headers)
    BY <2>1, <2>2, MovesTo
  <2>4. SubSeq(body, 1, 0) = <<>>
    BY PrefixParts DEF Text
  <2>5. 0 \in 0 .. Len(body) - 1 /\ i + 1 = at[Len(hs)] + 2 + 0 /\ i + 1 < Len(w)
    BY <1>1, <1>2, <1>5
  <2>6. InBody(q, i + 1, hs, at, body)
    BY <2>3, <2>4, <2>5 DEF InBody, Moves, Stays
  <2> QED
    BY <2>3, <2>5, <2>6 DEF Reads, Moves, Stays, Begun
<1> QED
  BY <1>4, <1>5

LEMMA BodyReadOn ==
  ASSUME NEW hs \in Seq(Field), NEW n \in Nat, n = Len(hs), NEW at \in [0 .. n -> Nat],
         NEW body \in Text, NEW w, NEW method \in {"GET", "none"}, NEW status \in Text,
         Says(w, method, status, hs, at, body), Announce(method, hs, body),
         NEW p \in Parser, ParserOK(p), NEW i \in Nat,
         p.chunked = FALSE, p.result = "incomplete", Begun(p, method, status),
         InBody(p, i, hs, at, body)
  PROVE  Reads(consume(p, w[i + 1]), i + 1, w, method, status, hs, at, body)
<1>1. PICK e \in Nat, m \in Nat : e = at[n] /\ m = Len(body)
  BY LenProperties DEF Text
<1>2. p.state = "Post" /\ p.headers = hs
  BY DEF InBody
<1>3. PICK j \in 0 .. m - 1 : i = e + 2 + j /\ p.content = SubSeq(body, 1, j)
  BY <1>1 DEF InBody
<1>4. /\ j \in Nat /\ j + 1 \in 1 .. m /\ j \in 0 .. m
      /\ i + 1 = e + 2 + (j + 1)
  BY <1>3
<1>5. Len(w) = e + 2 + m /\ w[e + 2 + (j + 1)] = body[j + 1]
  BY <1>1, <1>4 DEF Says
<1>6. PICK c \in Lexemes :
        c = body[j + 1] /\ SubSeq(body, 1, j + 1) = Append(SubSeq(body, 1, j), c)
  BY <1>1, PrefixGrows DEF Text
<1>7. w[i + 1] = c
  BY <1>4, <1>5, <1>6, Zenon
<1>8. p.contentSize + j = m /\ p.contentSize > 0
  <2>1. /\ \/ p.contentSize + Len(p.content) = Len(body)
           \/ p.contentSize = 0 /\ method = "GET"
        /\ p.contentSize > 0
    BY <1>2, LeftToRead DEF Begun
  <2>2. p.contentSize \in Nat
    BY DEF Parser
  <2>3. Len(p.content) = j
    BY <1>1, <1>3, <1>4, PrefixParts DEF Text
  <2> QED
    BY <1>1, <2>1, <2>2, <2>3
<1>9. PICK q : /\ q = consume(p, c) /\ q.state = "Post" /\ q.headers = p.headers
               /\ q.method = p.method /\ q.chunked = p.chunked
               /\ q.statusCode = p.statusCode /\ q.status = p.status
               /\ q.content = Append(p.content, c)
               /\ q.result = IF p.contentSize = 1 THEN "completed" ELSE p.result
  BY <1>2, ContentRead
<1>10. q.content = SubSeq(body, 1, j + 1)
  BY <1>3, <1>6, <1>9
<1>11. p.contentSize \in Nat
  BY DEF Parser
<1>12. CASE p.contentSize = 1
  <2>1. j + 1 = m
    BY <1>4, <1>8, <1>12
  <2>2. i + 1 = Len(w)
    BY <1>4, <1>5, <2>1
  <2>3. q.content = body
    BY <1>1, <1>10, <2>1, PrefixParts DEF Text
  <2> QED
    BY <1>2, <1>7, <1>9, <1>12, <2>2, <2>3 DEF Reads, Begun
<1>13. CASE p.contentSize # 1
  <2>1. j + 1 \in 0 .. m - 1
    BY <1>4, <1>8, <1>11, <1>13
  <2>2. i + 1 < Len(w)
    BY <1>4, <1>5, <2>1
  <2>3. InBody(q, i + 1, hs, at, body)
    BY <1>1, <1>2, <1>4, <1>9, <1>10, <2>1 DEF InBody
  <2> QED
    BY <1>7, <1>9, <1>13, <2>2, <2>3 DEF Reads, Begun
<1> QED
  BY <1>12, <1>13

\* One lexeme more.
LEMMA ReadsOn ==
  ASSUME NEW hs \in Seq(Field), NEW n \in Nat, n = Len(hs), NEW at \in [0 .. n -> Nat],
         NEW body \in Text, NEW w, NEW method \in {"GET", "none"}, NEW status \in Text,
         method = "none" => Worthy(status),
         Says(w, method, status, hs, at, body), Announce(method, hs, body),
         NEW p \in Parser, ParserOK(p), NEW i \in Nat, p.result = "incomplete",
         Reads(p, i, w, method, status, hs, at, body)
  PROVE  Reads(consume(p, w[i + 1]), i + 1, w, method, status, hs, at, body)
<1>1. /\ p.chunked = FALSE
      /\ \/ InStart(p, i, method, status) /\ p.headers = <<>> /\ p.content = <<>>
         \/ InHeaders(p, i, hs, at) /\ p.content = <<>> /\ Begun(p, method, status)
         \/ InBody(p, i, hs, at, body) /\ Begun(p, method, status)
  BY DEF Reads
<1>2. CASE InStart(p, i, method, status) /\ p.headers = <<>> /\ p.content = <<>>
  BY <1>1, <1>2, StartReadOn
<1>3. CASE InHeaders(p, i, hs, at) /\ p.content = <<>> /\ Begun(p, method, status)
  <2>1. CASE \E k \in 0 .. n :
               p.state = "HeaderLineStart" /\ i = at[k] /\ p.headers = SubSeq(hs, 1, k)
    BY <1>1, <1>3, <2>1, HeadersReadOn
  <2>2. CASE \E k \in 1 .. n : InLine(p, i, SubSeq(hs, 1, k - 1), hs[k], at[k - 1])
    BY <1>1, <1>3, <2>2, LineReadOn
  <2>3. CASE p.state = "ExpectingNewline_3" /\ i = at[n] + 1 /\ p.headers = hs
    <3>1. p.chunked = FALSE /\ p.content = <<>> /\ Begun(p, method, status)
      BY <1>1, <1>3
    <3>2. p.state = "ExpectingNewline_3" /\ p.headers = hs
      BY <2>3
    <3>3. i = at[n] + 1
      BY <2>3
    <3> QED
      BY <3>1, <3>2, <3>3, EndReadOn, SMTT(60)
  <2> QED
    BY <1>3, <2>1, <2>2, <2>3 DEF InHeaders
<1>4. CASE InBody(p, i, hs, at, body) /\ Begun(p, method, status)
  BY <1>1, <1>4, BodyReadOn
<1> QED
  BY <1>1, <1>2, <1>3, <1>4

---------------------------------------------------------------------------
(* What is written says what it was written of *)

\* Text st is s, and t after it.
Joined(st, s, t) ==
  /\ st = s \o t /\ Len(st) = Len(s) + Len(t)
  /\ \A j \in 1 .. Len(s) : st[j] = s[j]
  /\ \A j \in 1 .. Len(t) : st[Len(s) + j] = t[j]

LEMMA ConcatPlaces ==
  ASSUME NEW s \in Text, NEW t \in Text
  PROVE  /\ s \o t \in Text /\ Joined(s \o t, s, t)
         /\ Len(s) \in Nat /\ Len(t) \in Nat
<1>1. /\ s \o t \in Text /\ Len(s \o t) = Len(s) + Len(t)
      /\ \A j \in 1 .. Len(s) + Len(t) :
           (s \o t)[j] = IF j <= Len(s) THEN s[j] ELSE t[j - Len(s)]
  BY ConcatProperties DEF Text
<1>2. PICK l \in Nat, m \in Nat : l = Len(s) /\ m = Len(t)
  BY LenProperties DEF Text
<1>3. ASSUME NEW j \in 1 .. l PROVE (s \o t)[j] = s[j]
  <2>1. j \in 1 .. l + m /\ j <= l
    OBVIOUS
  <2> QED
    BY <1>1, <1>2, <2>1
<1>4. ASSUME NEW j \in 1 .. m PROVE (s \o t)[l + j] = t[j]
  <2>1. l + j \in 1 .. l + m /\ ~(l + j <= l) /\ (l + j) - l = j
    OBVIOUS
  <2> QED
    BY <1>1, <1>2, <2>1
<1> QED
  BY <1>1, <1>2, <1>3, <1>4 DEF Joined

LEMMA WrittenPlaces ==
  ASSUME NEW h \in Field
  PROVE  /\ Written(h) \in Text /\ LineAt(Written(h), h, 0, Len(Written(h)))
         /\ Len(Written(h)) = Len(h.name) + Len(h.value) + 4
<1>1. PICK n \in Text, v \in Text : n = h.name /\ v = h.value
  BY FieldText
<1>2. PICK l \in Nat, m \in Nat : l = Len(n) /\ m = Len(v)
  BY LenProperties DEF Text
<1>3. PICK s \in Text : s = <<":", "SP">> /\ Len(s) = 2 /\ s[1] = ":" /\ s[2] = "SP"
  BY LexemesAreText
<1>4. PICK e \in Text : e = <<"CR", "LF">> /\ Len(e) = 2 /\ e[1] = "CR" /\ e[2] = "LF"
  BY LexemesAreText
<1>5. PICK a \in Text : Joined(a, n, s)
  BY ConcatPlaces
<1>6. /\ a = n \o s /\ Len(a) = l + 2
      /\ \A j \in 1 .. l : a[j] = n[j]
      /\ \A j \in 1 .. 2 : a[l + j] = s[j]
  BY <1>2, <1>3, <1>5 DEF Joined
<1>7. PICK b \in Text : Joined(b, a, v)
  BY ConcatPlaces
<1>8. /\ b = a \o v /\ Len(b) = l + 2 + m
      /\ \A j \in 1 .. l + 2 : b[j] = a[j]
      /\ \A j \in 1 .. m : b[l + 2 + j] = v[j]
  BY <1>2, <1>6, <1>7 DEF Joined
<1>9. PICK c \in Text : Joined(c, b, e)
  BY ConcatPlaces
<1>10. /\ c = b \o e /\ Len(c) = l + 2 + m + 2
       /\ \A j \in 1 .. l + 2 + m : c[j] = b[j]
       /\ \A j \in 1 .. 2 : c[l + 2 + m + j] = e[j]
  BY <1>4, <1>8, <1>9 DEF Joined
<1>11. c = Written(h)
  BY <1>1, <1>3, <1>4, <1>6, <1>8, <1>10 DEF Written
<1>12. Len(c) = l + m + 4
  BY <1>10
<1>13. ASSUME NEW j \in 1 .. l PROVE c[j] = n[j]
  <2>1. j \in 1 .. l + 2 /\ j \in 1 .. l + 2 + m
    OBVIOUS
  <2> QED
    BY <1>6, <1>8, <1>10, <2>1
<1>14. c[l + 1] = ":" /\ c[l + 2] = "SP"
  <2>1. /\ l + 1 \in 1 .. l + 2 /\ l + 1 \in 1 .. l + 2 + m /\ 1 \in 1 .. 2
        /\ l + 2 \in 1 .. l + 2 /\ l + 2 \in 1 .. l + 2 + m /\ 2 \in 1 .. 2
    OBVIOUS
  <2> QED
    BY <1>3, <1>6, <1>8, <1>10, <2>1
<1>15. ASSUME NEW j \in 1 .. m PROVE c[l + 2 + j] = v[j]
  <2>1. l + 2 + j \in 1 .. l + 2 + m
    OBVIOUS
  <2> QED
    BY <1>8, <1>10, <2>1
<1>16. c[l + m + 3] = "CR" /\ c[l + m + 4] = "LF"
  <2>1. /\ l + m + 3 = l + 2 + m + 1 /\ 1 \in 1 .. 2
        /\ l + m + 4 = l + 2 + m + 2 /\ 2 \in 1 .. 2
    OBVIOUS
  <2> QED
    BY <1>4, <1>10, <2>1
<1>17. LineAt(c, h, 0, l + m + 4)
  <2>1. l + m + 4 = 0 + l + m + 4
    OBVIOUS
  <2>2. \A j \in 1 .. l : 0 + j = j
    OBVIOUS
  <2>3. \A j \in 1 .. m : 0 + l + 2 + j = l + 2 + j
    OBVIOUS
  <2>4. c[0 + l + 1] = ":" /\ c[0 + l + 2] = "SP"
    BY <1>14
  <2>5. c[0 + l + m + 3] = "CR" /\ c[0 + l + m + 4] = "LF"
    BY <1>16
  <2>6. \A j \in 1 .. l : c[0 + j] = n[j]
    BY <1>13, <2>2
  <2>7. \A j \in 1 .. m : c[0 + l + 2 + j] = v[j]
    BY <1>15, <2>3
  <2> QED
    BY <1>1, <1>2, <2>1, <2>4, <2>5, <2>6, <2>7, Zenon DEF LineAt
<1> QED
  BY <1>1, <1>2, <1>11, <1>12, <1>17

\* A line that stands somewhere else in another text.
LEMMA LineMoved ==
  ASSUME NEW h \in Field, NEW w, NEW a \in Nat,
         \A j \in 1 .. Len(Written(h)) : w[a + j] = Written(h)[j]
  PROVE  LineAt(w, h, a, a + Len(Written(h)))
<1>1. PICK n \in Seq(Tokens), l \in Nat \ {0}, v \in Seq(Lexemes \ {"CR", "LF"}), m \in Nat :
        n = h.name /\ l = Len(n) /\ v = h.value /\ m = Len(v)
  BY FieldParts
<1>2. PICK t \in Text : t = Written(h) /\ LineAt(t, h, 0, l + m + 4) /\ Len(t) = l + m + 4
  BY <1>1, WrittenPlaces
<1>3. \A j \in 1 .. l + m + 4 : w[a + j] = t[j]
  BY <1>2
<1>4. /\ \A j \in 1 .. l : t[0 + j] = n[j]
      /\ t[0 + l + 1] = ":" /\ t[0 + l + 2] = "SP"
      /\ \A j \in 1 .. m : t[0 + l + 2 + j] = v[j]
      /\ t[0 + l + m + 3] = "CR" /\ t[0 + l + m + 4] = "LF"
  BY <1>1, <1>2 DEF LineAt
<1>5. ASSUME NEW j \in 1 .. l PROVE w[a + j] = n[j]
  <2>1. j \in 1 .. l + m + 4 /\ 0 + j = j
    OBVIOUS
  <2> QED
    BY <1>3, <1>4, <2>1
<1>6. ASSUME NEW j \in 1 .. m PROVE w[a + l + 2 + j] = v[j]
  <2>1. /\ l + 2 + j \in 1 .. l + m + 4 /\ 0 + l + 2 + j = l + 2 + j
        /\ a + l + 2 + j = a + (l + 2 + j)
    OBVIOUS
  <2> QED
    BY <1>3, <1>4, <2>1
<1>7. w[a + l + 1] = ":" /\ w[a + l + 2] = "SP"
  <2>1. /\ l + 1 \in 1 .. l + m + 4 /\ 0 + l + 1 = l + 1 /\ a + l + 1 = a + (l + 1)
        /\ l + 2 \in 1 .. l + m + 4 /\ 0 + l + 2 = l + 2 /\ a + l + 2 = a + (l + 2)
    OBVIOUS
  <2> QED
    BY <1>3, <1>4, <2>1
<1>8. w[a + l + m + 3] = "CR" /\ w[a + l + m + 4] = "LF"
  <2>1. /\ l + m + 3 \in 1 .. l + m + 4 /\ 0 + l + m + 3 = l + m + 3
        /\ a + l + m + 3 = a + (l + m + 3)
        /\ l + m + 4 \in 1 .. l + m + 4 /\ 0 + l + m + 4 = l + m + 4
        /\ a + l + m + 4 = a + (l + m + 4)
    OBVIOUS
  <2> QED
    BY <1>3, <1>4, <2>1
<1>9. a + Len(Written(h)) = a + l + m + 4
  BY <1>2
<1> QED
  BY <1>1, <1>5, <1>6, <1>7, <1>8, <1>9 DEF LineAt

\* A start line, the headers as they are written, the empty line and the body.
LEMMA TextSays ==
  ASSUME NEW hs \in Seq(Field), NEW method \in {"GET", "none"}, NEW body \in Text,
         NEW status \in Text, NEW start \in Text, Len(start) = StartLength(method, status),
         StartAt(start, method, status)
  PROVE  \E at \in [0 .. Len(hs) -> Nat] :
           Says(((start \o HeaderText(hs)) \o <<"CR", "LF">>) \o body, method, status, hs, at, body)
<1>1. PICK n \in Nat : /\ n = Len(hs) /\ DOMAIN hs = 1 .. n
                       /\ \A k \in 1 .. n : hs[k] \in Field
  BY LenProperties, ElementOfSeq
<1>2. PICK ss \in Seq(Text) : /\ ss = [k \in DOMAIN hs |-> Written(hs[k])] /\ Len(ss) = n
                              /\ \A k \in 1 .. n : ss[k] = Written(hs[k])
  <2>1. \A k \in 1 .. n : Written(hs[k]) \in Text
    BY <1>1, WrittenPlaces
  <2> DEFINE ss == [k \in 1 .. n |-> Written(hs[k])]
  <2>2. ss \in Seq(Text) /\ Len(ss) = n
    BY <2>1, IsASeq
  <2>3. ss = [k \in DOMAIN hs |-> Written(hs[k])] /\ \A k \in 1 .. n : ss[k] = Written(hs[k])
    BY <1>1
  <2> QED
    BY <2>2, <2>3, Zenon
<1>3. PICK t \in Text : t = HeaderText(hs) /\ t = FlattenSeq(ss)
  BY <1>2, FieldsAreText DEF HeaderText
<1>4. PICK to \in [0 .. n -> Nat] : PiecesTo(t, ss, to, n)
  BY <1>2, <1>3, FlattenedPieces DEF Text
<1>5. PICK s \in Nat : s = StartLength(method, status) /\ s = Len(start)
  BY LenProperties DEF Text
<1>6. PICK e \in Nat, m \in Nat : e = to[n] /\ e = Len(t) /\ m = Len(body)
  <2>1. Len(t) = to[n]
    BY <1>4 DEF PiecesTo
  <2> QED
    BY <2>1, LenProperties DEF Text
<1>7. PICK end \in Text : end = <<"CR", "LF">> /\ Len(end) = 2 /\ end[1] = "CR" /\ end[2] = "LF"
  BY LexemesAreText
<1>8. PICK a \in Text : Joined(a, start, t)
  BY ConcatPlaces
<1>9. /\ a = start \o t /\ Len(a) = s + e
      /\ \A j \in 1 .. s : a[j] = start[j]
      /\ \A j \in 1 .. e : a[s + j] = t[j]
  BY <1>5, <1>6, <1>8 DEF Joined
<1>10. PICK b \in Text : Joined(b, a, end)
  BY ConcatPlaces
<1>11. /\ b = a \o end /\ Len(b) = s + e + 2
       /\ \A j \in 1 .. s + e : b[j] = a[j]
       /\ \A j \in 1 .. 2 : b[s + e + j] = end[j]
  BY <1>7, <1>9, <1>10 DEF Joined
<1>12. PICK w \in Text : Joined(w, b, body)
  BY ConcatPlaces
<1>13. /\ w = b \o body /\ Len(w) = s + e + 2 + m
       /\ \A j \in 1 .. s + e + 2 : w[j] = b[j]
       /\ \A j \in 1 .. m : w[s + e + 2 + j] = body[j]
  BY <1>6, <1>11, <1>12 DEF Joined
<1>14. ASSUME NEW j \in 1 .. s PROVE w[j] = start[j]
  <2>1. j \in 1 .. s + e + 2 /\ j \in 1 .. s + e
    OBVIOUS
  <2> QED
    BY <1>9, <1>11, <1>13, <2>1
<1>15. ASSUME NEW j \in 1 .. e PROVE w[s + j] = t[j]
  <2>1. s + j \in 1 .. s + e + 2 /\ s + j \in 1 .. s + e
    OBVIOUS
  <2> QED
    BY <1>9, <1>11, <1>13, <2>1
<1>16. w[s + e + 1] = "CR" /\ w[s + e + 2] = "LF"
  <2>1. /\ s + e + 1 \in 1 .. s + e + 2 /\ 1 \in 1 .. 2
        /\ s + e + 2 \in 1 .. s + e + 2 /\ 2 \in 1 .. 2
    OBVIOUS
  <2> QED
    BY <1>7, <1>11, <1>13, <2>1
<1>17. PICK at \in [0 .. n -> Nat] : \A k \in 0 .. n : at[k] = s + to[k]
  <2>1. [k \in 0 .. n |-> s + to[k]] \in [0 .. n -> Nat]
    OBVIOUS
  <2> QED
    BY <2>1
<1>18. to[0] = 0 /\ at[0] = s /\ at[n] = s + e
  BY <1>4, <1>6, <1>17 DEF PiecesTo
<1>19. ASSUME NEW k \in 1 .. n
       PROVE  LineAt(w, hs[k], at[k - 1], at[k]) /\ at[k] <= at[n]
  <2>1. k \in 0 .. n /\ k - 1 \in 0 .. n
    OBVIOUS
  <2>2. PICK x \in Nat, y \in Nat, l \in Nat :
          x = to[k - 1] /\ y = to[k] /\ l = Len(Written(hs[k]))
    <3>1. Len(Written(hs[k])) \in Nat
      BY <1>1, WrittenPlaces, LenProperties DEF Text
    <3> QED
      BY <2>1, <3>1
  <2>3. y = x + l /\ y <= e /\ \A j \in 1 .. l : t[x + j] = Written(hs[k])[j]
    <3>1. /\ to[k] = to[k - 1] + Len(ss[k]) /\ to[k] <= Len(t)
          /\ \A j \in 1 .. Len(ss[k]) : t[to[k - 1] + j] = ss[k][j]
      BY <1>4 DEF PiecesTo
    <3>2. ss[k] = Written(hs[k])
      BY <1>2
    <3>3. y = x + l /\ y <= e
      BY <1>6, <2>2, <3>1, <3>2
    <3>4. ASSUME NEW j \in 1 .. l PROVE t[x + j] = Written(hs[k])[j]
      <4>1. j \in 1 .. Len(ss[k])
        BY <2>2, <3>2
      <4>2. t[to[k - 1] + j] = ss[k][j]
        BY <3>1, <4>1
      <4> QED
        BY <2>2, <3>2, <4>2
    <3> QED
      BY <3>3, <3>4
  <2>4. ASSUME NEW j \in 1 .. l PROVE w[(s + x) + j] = Written(hs[k])[j]
    <3>1. y = x + l /\ y <= e
      BY <2>3
    <3>2. x + j \in 1 .. e /\ (s + x) + j = s + (x + j)
      BY ONLY <3>1, SMT
    <3>3. t[x + j] = Written(hs[k])[j]
      BY <2>3
    <3> QED
      BY <1>15, <3>2, <3>3
  <2>5. LineAt(w, hs[k], s + x, (s + x) + l)
    <3>1. PICK h \in Field, z \in Nat : h = hs[k] /\ z = s + x
      BY <1>1
    <3>2. \A j \in 1 .. Len(Written(h)) : w[z + j] = Written(h)[j]
      BY <2>2, <2>4, <3>1
    <3>3. LineAt(w, h, z, z + Len(Written(h)))
      BY <3>2, LineMoved
    <3> QED
      BY <2>2, <3>1, <3>3, Zenon
  <2>6. at[k - 1] = s + x /\ at[k] = (s + x) + l /\ at[k] <= s + e
    <3>1. at[k - 1] = s + x /\ at[k] = s + y
      BY <1>17, <2>1, <2>2
    <3>2. s + y = (s + x) + l /\ s + y <= s + e
      BY <2>3
    <3> QED
      BY <3>1, <3>2, Zenon
  <2> QED
    BY <1>18, <2>5, <2>6
<1>20. StartAt(w, method, status)
  <2>1. CASE method = "GET"
    <3>1. s = 4
      BY <1>5, <2>1 DEF StartLength
    <3>2. w[1] = start[1] /\ w[2] = start[2] /\ w[3] = start[3] /\ w[4] = start[4]
      BY <1>14, <3>1
    <3> QED
      BY <2>1, <3>2 DEF StartAt
  <2>2. CASE method = "none"
    <3>1. PICK l \in Nat : l = Len(status) /\ s = 8 + l
      BY <1>5, <2>2, LenProperties DEF StartLength, Text
    <3>2. /\ w[1] = start[1] /\ w[2] = start[2] /\ w[3] = start[3] /\ w[4] = start[4]
          /\ w[5] = start[5] /\ w[6] = start[6]
          /\ w[7 + l] = start[7 + l] /\ w[8 + l] = start[8 + l]
      <4>1. /\ 1 \in 1 .. s /\ 2 \in 1 .. s /\ 3 \in 1 .. s /\ 4 \in 1 .. s
            /\ 5 \in 1 .. s /\ 6 \in 1 .. s /\ 7 + l \in 1 .. s /\ 8 + l \in 1 .. s
        BY <3>1
      <4> QED
        BY <1>14, <4>1
    <3>3. ASSUME NEW j \in 1 .. l PROVE w[6 + j] = status[j]
      <4>1. 6 + j \in 1 .. s
        BY <3>1
      <4>2. start[6 + j] = status[j]
        BY <2>2, <3>1 DEF StartAt
      <4> QED
        BY <1>14, <4>1, <4>2
    <3> QED
      BY <2>2, <3>1, <3>2, <3>3 DEF StartAt
  <2> QED
    BY <2>1, <2>2
<1>21. Says(w, method, status, hs, at, body)
  BY <1>1, <1>5, <1>6, <1>13, <1>16, <1>18, <1>19, <1>20 DEF Says
<1> QED
  BY <1>1, <1>3, <1>7, <1>9, <1>11, <1>13, <1>21

---------------------------------------------------------------------------
(* A parser of responses does not come to take a request for one, and keeps *)
(* the status it has read                                                   *)

RequestStates ==
  {"RequestMethodStart", "RequestUri", "RequestHttpVersion_h", "RequestHttpVersion_minor"}

StatusStates ==
  {"ResponseStatusStart", "ResponseHttpVersion_minor", "ResponseHttpVersion_statusCodeStart",
   "ResponseHttpVersion_statusCode", "ResponseHttpVersion_statusTextStart",
   "ResponseHttpVersion_statusText"}

LineStates == RequestStates \cup StatusStates

Kept(p, q) == q.method = p.method /\ q.status = p.status /\ q.state \notin LineStates

LEMMA StepsKeep ==
  ASSUME NEW p \in Parser, p.state \notin LineStates
  PROVE  /\ Kept(p, p) /\ Kept(p, Error(p)) /\ Kept(p, Completed(p))
         /\ \A s \in States \ LineStates : Kept(p, To(p, s))
         /\ \A c, e : \A s \in States \ LineStates : Kept(p, Expect(p, c, e, s))
         /\ \A hs : Kept(p, [p EXCEPT !.headers = hs])
<1>1. Kept(p, p) /\ Kept(p, Error(p))
  BY DEF Kept, Error, Parser
<1>2. Kept(p, Completed(p))
  BY CompletedState DEF Kept
<1>3. ASSUME NEW s \in States \ LineStates PROVE Kept(p, To(p, s))
  BY ToState DEF Kept
<1>4. \A c, e : \A s \in States \ LineStates : Kept(p, Expect(p, c, e, s))
  BY <1>1, <1>3 DEF Expect
<1>5. \A hs : Kept(p, [p EXCEPT !.headers = hs])
  BY DEF Kept, Parser
<1> QED
  BY <1>1, <1>2, <1>3, <1>4, <1>5

LEMMA AppendsKeep ==
  ASSUME NEW p \in Parser, p.state \notin LineStates, NEW c
  PROVE  Kept(p, AppendToName(p, c)) /\ Kept(p, AppendToValue(p, c))
BY DEF Kept, AppendToName, AppendToValue, Parser

LEMMA NamedStates ==
  {"HttpVersion_newLine", "HeaderLineStart", "HeaderLws", "HeaderName",
   "SpaceBeforeHeaderValue", "HeaderValue", "ExpectingNewline_2", "ExpectingNewline_3",
   "Post", "ChunkSize", "ChunkExtensionName",
   "ChunkExtensionValue", "ChunkSizeNewLine", "ChunkSizeNewLine_2", "ChunkSizeNewLine_3",
   "ChunkTrailerName", "ChunkTrailerValue", "ChunkData", "ChunkDataNewLine_1",
   "ChunkDataNewLine_2"}
    \subseteq States \ LineStates
BY DEF States, StartStates, HeaderStates, Partial, ChunkStates, LineStates, RequestStates,
       StatusStates

LEMMA FrameKeeps ==
  ASSUME NEW p \in Parser, p.state \notin LineStates, NEW h
  PROVE  Kept(p, FrameBy(p, h))
<1>1. \A n, b : Kept(p, [p EXCEPT !.contentSize = n]) /\ Kept(p, [p EXCEPT !.chunked = b])
  BY DEF Kept, Parser
<1>2. Kept(p, p) /\ Kept(p, Error(p))
  BY StepsKeep
<1> QED
  BY <1>1, <1>2 DEF FrameBy

LEMMA HeaderKeeps ==
  ASSUME NEW p \in Parser, p.state \notin LineStates,
         p.state \in {"HttpVersion_newLine", "HeaderLineStart", "HeaderLws", "HeaderName",
                      "SpaceBeforeHeaderValue", "HeaderValue", "ExpectingNewline_2"},
         NEW c
  PROVE  Kept(p, Header(p, c))
<1>1. /\ Kept(p, p) /\ Kept(p, Error(p))
      /\ \A s \in States \ LineStates : Kept(p, To(p, s))
      /\ \A e : \A s \in States \ LineStates : Kept(p, Expect(p, c, e, s))
      /\ Kept(p, AppendToName(p, c)) /\ Kept(p, AppendToValue(p, c))
  BY StepsKeep, AppendsKeep
<1>2. ASSUME NEW s \in States \ LineStates, NEW hs
      PROVE  /\ Kept(p, [To(p, s) EXCEPT !.headers = hs])
             /\ Kept(p, AppendToValue(To(p, s), c)) /\ Kept(p, FrameBy(To(p, s), Last(p.headers)))
  <2>1. PICK q \in Parser : q = To(p, s) /\ q.state = s /\ q.method = p.method /\ q.status = p.status
    BY ToState
  <2>2. /\ Kept(q, [q EXCEPT !.headers = hs]) /\ Kept(q, AppendToValue(q, c))
        /\ Kept(q, FrameBy(q, Last(p.headers)))
    BY <2>1, StepsKeep, AppendsKeep, FrameKeeps
  <2> QED
    BY <2>1, <2>2 DEF Kept
<1>3. Kept(p, HeaderValueEnds(p))
  BY <1>1, <1>2, NamedStates DEF HeaderValueEnds, RequestFrameBy
<1>4. CASE p.state \in {"HttpVersion_newLine", "SpaceBeforeHeaderValue", "ExpectingNewline_2"}
  BY <1>1, <1>4, NamedStates DEF Header
<1>5. CASE p.state = "HeaderLineStart"
  BY <1>1, <1>2, <1>5, NamedStates DEF Header
<1>6. CASE p.state = "HeaderLws"
  BY <1>1, <1>2, <1>6, NamedStates DEF Header
<1>7. CASE p.state = "HeaderName"
  BY <1>1, <1>7, NamedStates DEF Header
<1>8. CASE p.state = "HeaderValue"
  BY <1>1, <1>3, <1>8, NamedStates DEF Header
<1> QED
  BY <1>4, <1>5, <1>6, <1>7, <1>8

LEMMA BodyKeeps ==
  ASSUME NEW p \in Parser, p.state \notin LineStates, NEW c
  PROVE  /\ Kept(p, HeadersEnd(p, c))
         /\ Kept(p, Post(p, c))
<1>1. /\ Kept(p, p) /\ Kept(p, Error(p)) /\ Kept(p, Completed(p))
      /\ \A s \in States \ LineStates : Kept(p, To(p, s))
  BY StepsKeep
<1>2. Kept(p, HeadersEnd(p, c))
  BY <1>1, NamedStates DEF HeadersEnd
<1>3. Kept(p, Post(p, c))
  BY DEF Post, Completed, Parser, Kept
<1> QED
  BY <1>2, <1>3

LEMMA ChunkKeeps ==
  ASSUME NEW p \in Parser, p.state \in ChunkStates, NEW c
  PROVE  Kept(p, Chunk(p, c))
<1>0. p.state \notin LineStates
  BY DEF ChunkStates, LineStates, RequestStates, StatusStates
<1>1. /\ Kept(p, p) /\ Kept(p, Error(p)) /\ Kept(p, Completed(p))
      /\ \A s \in States \ LineStates : Kept(p, To(p, s))
      /\ \A e : \A s \in States \ LineStates : Kept(p, Expect(p, c, e, s))
  BY <1>0, StepsKeep
<1>2. CASE p.state = "ChunkSize"
  <2>1. \A ds : Kept(p, [p EXCEPT !.chunkSizeStr = ds])
    BY <1>0 DEF Kept, Parser
  <2> QED
    BY <1>1, <1>2, <2>1, NamedStates DEF Chunk
<1>3. CASE p.state \in {"ChunkExtensionName", "ChunkExtensionValue", "ChunkTrailerValue"}
  BY <1>1, <1>3, NamedStates DEF Chunk
<1>4. CASE p.state = "ChunkSizeNewLine"
  <2>1. ASSUME NEW s \in States \ LineStates
        PROVE  \A n, ds : Kept(p, [To(p, s) EXCEPT !.chunkSize = n, !.chunkSizeStr = ds])
    <3>1. PICK q \in Parser : q = To(p, s) /\ q.state = s /\ q.method = p.method /\ q.status = p.status
      BY ToState
    <3>2. \A n, ds : /\ [q EXCEPT !.chunkSize = n, !.chunkSizeStr = ds].state = q.state
                     /\ [q EXCEPT !.chunkSize = n, !.chunkSizeStr = ds].method = q.method
                     /\ [q EXCEPT !.chunkSize = n, !.chunkSizeStr = ds].status = q.status
      BY DEF Parser
    <3> QED
      BY <3>1, <3>2 DEF Kept
  <2>2. Kept(p, ChunkLine(p, c))
    BY <1>1, <2>1, NamedStates DEF ChunkLine
  <2> QED
    BY <1>4, <2>2 DEF Chunk
<1>5. CASE p.state \in {"ChunkSizeNewLine_2", "ChunkSizeNewLine_3", "ChunkTrailerName"}
  BY <1>1, <1>5, NamedStates DEF Chunk
<1>6. CASE p.state = "ChunkData"
  <2>1. ASSUME NEW s \in States \ LineStates
        PROVE  \A n, b : Kept(p, [To(p, s) EXCEPT !.chunkSize = n, !.content = b])
    <3>1. PICK q \in Parser : q = To(p, s) /\ q.state = s /\ q.method = p.method /\ q.status = p.status
      BY ToState
    <3>2. \A n, b : /\ [q EXCEPT !.chunkSize = n, !.content = b].state = q.state
                    /\ [q EXCEPT !.chunkSize = n, !.content = b].method = q.method
                    /\ [q EXCEPT !.chunkSize = n, !.content = b].status = q.status
      BY DEF Parser
    <3> QED
      BY <3>1, <3>2 DEF Kept
  <2> QED
    BY <1>6, <2>1, NamedStates DEF Chunk
<1>7. CASE p.state \in {"ChunkDataNewLine_1", "ChunkDataNewLine_2"}
  BY <1>1, <1>7, NamedStates DEF Chunk
<1> QED
  BY <1>2, <1>3, <1>4, <1>5, <1>6, <1>7 DEF ChunkStates

LEMMA ConsumeKeeps ==
  ASSUME NEW p \in Parser, p.state \notin LineStates, NEW c
  PROVE  Kept(p, consume(p, c))
<1>1. CASE p.state \in {"HttpVersion_newLine", "HeaderLineStart", "HeaderLws", "HeaderName",
                        "SpaceBeforeHeaderValue", "HeaderValue", "ExpectingNewline_2"}
  <2>1. consume(p, c) = Header(p, c)
    BY <1>1 DEF consume
  <2> QED
    BY <1>1, <2>1, HeaderKeeps
<1>2. CASE p.state = "ExpectingNewline_3"
  BY <1>2, BodyKeeps DEF consume
<1>3. CASE p.state = "Post"
  BY <1>3, BodyKeeps DEF consume
<1>4. CASE p.state \in ChunkStates
  <2>1. consume(p, c) = Chunk(p, c)
    BY <1>4 DEF consume, ChunkStates
  <2> QED
    BY <1>4, <2>1, ChunkKeeps
<1> QED
  BY <1>1, <1>2, <1>3, <1>4
     DEF Parser, States, StartStates, HeaderStates, Partial, LineStates, RequestStates,
         StatusStates

\* A parser of a response: the status it has begun to read can be read again.
Responds(p) ==
  /\ p.method = "none" /\ p.state \notin RequestStates
  /\ p.state \in StatusStates => p.result # "completed"
  /\ IF p.state \in StatusStates \ {"ResponseHttpVersion_statusText"} THEN p.status = <<>>
     ELSE Worthy(p.status)

LEMMA WorthyGrows ==
  ASSUME NEW status, NEW c \in Lexemes,
         status = <<>> \/ (Worthy(status) /\ c # "CR")
  PROVE  Worthy(Append(status, c))
<1>1. PICK s \in Seq(Lexemes), n \in Nat : s = status /\ n = Len(s)
  BY EmptySeq, LenProperties DEF Worthy, Text
<1>2. PICK t \in Seq(Lexemes) :
        /\ t = Append(s, c) /\ Len(t) = n + 1 /\ t[n + 1] = c
        /\ \A j \in 1 .. n : t[j] = s[j]
  <2>1. PICK t \in Seq(Lexemes) : t = Append(s, c)
    BY <1>1, AppendProperties
  <2>2. /\ Len(t) = Len(s) + 1 /\ t[Len(s) + 1] = c
        /\ \A j \in 1 .. Len(s) : t[j] = s[j]
    BY <2>1, AppendProperties
  <2> QED
    BY <1>1, <2>1, <2>2
<1>3. t # <<>>
  BY <1>1, <1>2, EmptySeq
<1>4. ASSUME NEW j \in 2 .. Len(t) PROVE t[j] # "CR"
  <2>1. CASE n = 0
    BY <1>2, <2>1
  <2>2. CASE n # 0
    <3>1. status # <<>>
      BY <1>1, <2>2
    <3>2. Worthy(s) /\ c # "CR"
      BY <1>1, <3>1
    <3>3. CASE j = n + 1
      BY <1>2, <3>2, <3>3
    <3>4. CASE j # n + 1
      <4>1. j \in 2 .. n /\ j \in 1 .. n
        BY <1>2, <3>4
      <4> QED
        BY <1>1, <1>2, <3>2, <4>1 DEF Worthy
    <3> QED
      BY <3>3, <3>4
  <2> QED
    BY <2>1, <2>2
<1> QED
  BY <1>1, <1>2, <1>3, <1>4 DEF Worthy, Text

LEMMA StatusResponds ==
  ASSUME NEW p \in Parser, Responds(p), p.state \in StatusStates, p.result = "incomplete",
         NEW c \in Lexemes
  PROVE  Responds(consume(p, c))
<1>1. consume(p, c) = StatusLine(p, c)
  BY DEF consume, StatusStates
<1>2. StatusStates \subseteq States /\ "HttpVersion_newLine" \in States
  BY DEF StatusStates, States, StartStates
<1>3. Responds(Error(p))
  BY DEF Responds, Error, Parser
<1>4. ASSUME p.status = <<>>,
             NEW s \in StatusStates \ {"ResponseHttpVersion_statusText"}
      PROVE  /\ Responds(To(p, s))
             /\ \A code : Responds([To(p, s) EXCEPT !.statusCode = code])
  <2>1. PICK q \in Parser :
          /\ q = To(p, s) /\ q.state = s /\ q.result = p.result /\ q.method = p.method
          /\ q.status = p.status
    BY <1>2, ToState
  <2>2. s \notin RequestStates /\ q.result = "incomplete" /\ q.method = "none" /\ q.status = <<>>
    BY <1>4, <2>1 DEF StatusStates, RequestStates, Responds
  <2>3. ASSUME NEW code
        PROVE  Responds([q EXCEPT !.statusCode = code])
    <3>1. PICK r : /\ r = [q EXCEPT !.statusCode = code] /\ r.state = s
                   /\ r.result = "incomplete" /\ r.method = "none" /\ r.status = <<>>
      <4>1. PICK r : r = [q EXCEPT !.statusCode = code]
        OBVIOUS
      <4> QED
        BY <2>1, <2>2, <4>1, CodeSet DEF Apart
    <3> QED
      BY <2>2, <3>1 DEF Responds
  <2>4. Responds(q)
    BY <2>1, <2>2 DEF Responds
  <2> QED
    BY <2>1, <2>3, <2>4
<1>5. p.method = "none"
  BY DEF Responds
<1>6. CASE p.state \in {"ResponseStatusStart", "ResponseHttpVersion_minor",
                        "ResponseHttpVersion_statusCodeStart"}
  <2>1. p.status = <<>>
    BY <1>6 DEF Responds, StatusStates
  <2>2. {"ResponseHttpVersion_minor", "ResponseHttpVersion_statusCodeStart",
         "ResponseHttpVersion_statusCode"}
          \subseteq StatusStates \ {"ResponseHttpVersion_statusText"}
    BY DEF StatusStates
  <2>3. ASSUME NEW lexeme, NEW s \in StatusStates \ {"ResponseHttpVersion_statusText"}
        PROVE  Responds(Expect(p, c, lexeme, s))
    BY <1>3, <1>4, <2>1, <2>3 DEF Expect
  <2>4. CASE p.state = "ResponseStatusStart"
    <3>1. StatusLine(p, c) = Expect(p, c, "HTTP/1.1", "ResponseHttpVersion_minor")
      BY <2>4 DEF StatusLine
    <3> QED
      BY <1>1, <2>2, <2>3, <3>1
  <2>5. CASE p.state = "ResponseHttpVersion_minor"
    <3>1. StatusLine(p, c) = IF c \in Digits THEN p
                             ELSE Expect(p, c, "SP", "ResponseHttpVersion_statusCodeStart")
      BY <2>5 DEF StatusLine
    <3> QED
      BY <1>1, <2>2, <2>3, <3>1
  <2>6. CASE p.state = "ResponseHttpVersion_statusCodeStart"
    <3>1. StatusLine(p, c) =
            IF c \in Digits
            THEN [To(p, "ResponseHttpVersion_statusCode") EXCEPT !.statusCode = Digit(c)]
            ELSE Error(p)
      BY <2>6 DEF StatusLine
    <3>2. Responds([To(p, "ResponseHttpVersion_statusCode") EXCEPT !.statusCode = Digit(c)])
      BY <1>4, <2>1, <2>2
    <3> QED
      BY <1>1, <1>3, <3>1, <3>2
  <2> QED
    BY <1>6, <2>4, <2>5, <2>6
<1>7. CASE p.state = "ResponseHttpVersion_statusCode"
  <2>1. p.status = <<>>
    BY <1>7 DEF Responds, StatusStates
  <2>2. ASSUME NEW code PROVE Responds([p EXCEPT !.statusCode = code])
    <3>1. PICK r : /\ r = [p EXCEPT !.statusCode = code] /\ r.state = p.state
                   /\ r.result = p.result /\ r.method = p.method /\ r.status = p.status
      <4>1. PICK r : r = [p EXCEPT !.statusCode = code]
        OBVIOUS
      <4> QED
        BY <4>1, CodeSet DEF Apart
    <3> QED
      BY <3>1 DEF Responds
  <2>3. "ResponseHttpVersion_statusTextStart"
          \in StatusStates \ {"ResponseHttpVersion_statusText"}
    BY DEF StatusStates
  <2>4. StatusLine(p, c) \in {[p EXCEPT !.statusCode = AddDigit(p.statusCode, c)], Error(p),
                              To(p, "ResponseHttpVersion_statusTextStart")}
    <3>1. CASE c \in Digits
      BY <1>7, <3>1 DEF StatusLine
    <3>2. CASE c \notin Digits
      BY <1>7, <3>2 DEF StatusLine, Expect
    <3> QED
      BY <3>1, <3>2
  <2> QED
    BY <1>1, <1>3, <1>4, <2>1, <2>2, <2>3, <2>4
<1>8. CASE p.state = "ResponseHttpVersion_statusTextStart"
  <2>1. p.status = <<>>
    BY <1>8 DEF Responds, StatusStates
  <2>2. PICK text : text = Append(<<>>, c) /\ Worthy(text)
    BY WorthyGrows
  <2>3. PICK q \in Parser :
          /\ q = To(p, "ResponseHttpVersion_statusText") /\ q.status = <<>>
          /\ q.state = "ResponseHttpVersion_statusText" /\ q.method = "none"
          /\ q.result = p.result
    <3>1. "ResponseHttpVersion_statusText" \in States
      BY <1>2 DEF StatusStates
    <3> QED
      BY <1>5, <2>1, <3>1, ToState
  <2>4. StatusLine(p, c) = [q EXCEPT !.status = text]
    <3>1. StatusLine(p, c) = [q EXCEPT !.status = Append(@, c)]
      BY <1>8, <2>3 DEF StatusLine
    <3>2. [q EXCEPT !.status = Append(@, c)] = [q EXCEPT !.status = Append(q.status, c)]
      OBVIOUS
    <3> QED
      BY <2>2, <2>3, <3>1, <3>2
  <2>5. PICK r : /\ r = [q EXCEPT !.status = text] /\ r.state = q.state
                 /\ r.result = q.result /\ r.method = q.method /\ r.status = text
    <3>1. PICK r : r = [q EXCEPT !.status = text]
      OBVIOUS
    <3>2. Apart(q, r) /\ r.state = q.state /\ r.status = text
      BY <2>3, <3>1, StatusSet
    <3> QED
      BY <3>1, <3>2 DEF Apart
  <2>6. "ResponseHttpVersion_statusText" \notin RequestStates
    BY DEF RequestStates
  <2> QED
    BY <1>1, <2>2, <2>3, <2>4, <2>5, <2>6 DEF Responds
<1>9. CASE p.state = "ResponseHttpVersion_statusText"
  <2>1. Worthy(p.status) /\ p.state \notin RequestStates
    BY <1>9 DEF Responds
  <2>2. CASE c = "CR"
    <3>1. StatusLine(p, c) = To(p, "HttpVersion_newLine")
      BY <1>9, <2>2 DEF StatusLine
    <3>2. PICK q : /\ q = To(p, "HttpVersion_newLine") /\ q.state = "HttpVersion_newLine"
                   /\ q.method = p.method /\ q.status = p.status
      BY <1>2, ToState
    <3>3. "HttpVersion_newLine" \notin RequestStates \cup StatusStates
      BY DEF RequestStates, StatusStates
    <3> QED
      BY <1>1, <1>5, <2>1, <3>1, <3>2, <3>3 DEF Responds
  <2>3. CASE c # "CR"
    <3>1. PICK text : text = Append(p.status, c) /\ Worthy(text)
      BY <2>1, <2>3, WorthyGrows
    <3>2. StatusLine(p, c) = [p EXCEPT !.status = text]
      <4>1. StatusLine(p, c) = [p EXCEPT !.status = Append(@, c)]
        BY <1>9, <2>3 DEF StatusLine
      <4>2. [p EXCEPT !.status = Append(@, c)] = [p EXCEPT !.status = Append(p.status, c)]
        OBVIOUS
      <4> QED
        BY <3>1, <4>1, <4>2
    <3>3. PICK r : /\ r = [p EXCEPT !.status = text] /\ r.state = p.state
                   /\ r.result = p.result /\ r.method = p.method /\ r.status = text
      <4>1. PICK r : r = [p EXCEPT !.status = text]
        OBVIOUS
      <4> QED
        BY <4>1, StatusSet DEF Apart
    <3> QED
      BY <1>1, <1>5, <1>9, <2>1, <3>1, <3>2, <3>3 DEF Responds
  <2> QED
    BY <2>2, <2>3
<1> QED
  BY <1>6, <1>7, <1>8, <1>9 DEF StatusStates

LEMMA ConsumeResponds ==
  ASSUME NEW p \in Parser, Responds(p), p.result = "incomplete", NEW c \in Lexemes
  PROVE  Responds(consume(p, c))
<1>1. CASE p.state \in StatusStates
  BY <1>1, StatusResponds
<1>2. CASE p.state \notin StatusStates
  <2>1. PICK q : q = consume(p, c) /\ Kept(p, q)
    BY <1>2, ConsumeKeeps DEF Responds, LineStates
  <2> QED
    BY <1>2, <2>1 DEF Responds, Kept, LineStates
<1> QED
  BY <1>1, <1>2

---------------------------------------------------------------------------
(* The request that asks about a stored response *)

LEMMA HeaderValueIsValue ==
  ASSUME NEW hs \in Seq(Field), NEW name
  PROVE  get_header_value(hs, name) \in Value
<1> DEFINE found == {k \in DOMAIN hs : hs[k].name = <<name>>}
<1>1. PICK n \in Nat : DOMAIN hs = 1 .. n /\ \A k \in 1 .. n : hs[k] \in Field
  BY LenProperties, ElementOfSeq
<1>2. \A k \in 1 .. n : hs[k].value \in Value
  BY <1>1 DEF Field
<1>3. get_header_value(hs, name) = IF found = {} THEN <<>> ELSE hs[Min(found)].value
  BY DEF get_header_value
<1>4. found \in SUBSET Nat /\ found \subseteq 1 .. n
  BY <1>1
<1> HIDE DEF found
<1>5. found # {} => Min(found) \in 1 .. n
  BY <1>4, LeastIsMin
<1> QED
  BY <1>2, <1>3, <1>5, ValuePrefix

\* The value of a header of which there is one, or none.
LEMMA OneOfThatName ==
  ASSUME NEW hs \in Seq(Field), NEW name, NEW n \in Nat, n = Len(hs)
  PROVE  /\ \A k \in 1 .. n :
              /\ hs[k].name = <<name>>
              /\ \A j \in 1 .. n : hs[j].name = <<name>> => j = k
              => get_header_value(hs, name) = hs[k].value
         /\ (\A k \in 1 .. n : hs[k].name # <<name>>) => get_header_value(hs, name) = <<>>
<1> DEFINE found == {k \in DOMAIN hs : hs[k].name = <<name>>}
<1>1. DOMAIN hs = 1 .. n
  BY LenProperties
<1>2. get_header_value(hs, name) = IF found = {} THEN <<>> ELSE hs[Min(found)].value
  BY DEF get_header_value
<1>3. ASSUME NEW k \in 1 .. n, hs[k].name = <<name>>,
             \A j \in 1 .. n : hs[j].name = <<name>> => j = k
      PROVE  get_header_value(hs, name) = hs[k].value
  <2>1. found = {k}
    BY <1>1, <1>3
  <2>2. Min({k}) = k
    <3>1. {k} \in SUBSET Nat /\ {k} # {}
      OBVIOUS
    <3>2. Min({k}) \in {k}
      BY <3>1, LeastIsMin
    <3> QED
      BY <3>2
  <2> HIDE DEF found
  <2> QED
    BY <1>2, <2>1, <2>2
<1>4. (\A k \in 1 .. n : hs[k].name # <<name>>) => found = {}
  BY <1>1
<1> HIDE DEF found
<1> QED
  BY <1>2, <1>3, <1>4

LEMMA FewItems ==
  ASSUME NEW hs \in Seq(Field), NEW name
  PROVE  /\ Len(hs) = 1 =>
              get_header_value(hs, name) = IF hs[1].name = <<name>> THEN hs[1].value ELSE <<>>
         /\ Len(hs) = 2 /\ hs[1].name # hs[2].name =>
              get_header_value(hs, name) =
                CASE hs[1].name = <<name>> -> hs[1].value
                  [] hs[2].name = <<name>> -> hs[2].value
                  [] OTHER -> <<>>
         /\ /\ Len(hs) = 3 /\ hs[1].name # hs[2].name /\ hs[1].name # hs[3].name
            /\ hs[2].name # hs[3].name
            => get_header_value(hs, name) =
                 CASE hs[1].name = <<name>> -> hs[1].value
                   [] hs[2].name = <<name>> -> hs[2].value
                   [] hs[3].name = <<name>> -> hs[3].value
                   [] OTHER -> <<>>
<1>1. PICK n \in Nat : n = Len(hs)
  BY LenProperties
<1>2. ASSUME NEW k \in 1 .. n, hs[k].name = <<name>>,
             \A j \in 1 .. n : hs[j].name = <<name>> => j = k
      PROVE  get_header_value(hs, name) = hs[k].value
  BY <1>1, <1>2, OneOfThatName
<1>3. (\A k \in 1 .. n : hs[k].name # <<name>>) => get_header_value(hs, name) = <<>>
  BY <1>1, OneOfThatName
<1>4. CASE n = 1
  <2>1. 1 \in 1 .. n /\ \A j \in 1 .. n : j = 1
    BY <1>4
  <2>2. CASE hs[1].name = <<name>>
    BY <1>1, <1>2, <1>4, <2>1, <2>2
  <2>3. CASE hs[1].name # <<name>>
    BY <1>1, <1>3, <1>4, <2>1, <2>3
  <2> QED
    BY <2>2, <2>3
<1>5. CASE n = 2 /\ hs[1].name # hs[2].name
  <2>1. 1 \in 1 .. n /\ 2 \in 1 .. n /\ \A j \in 1 .. n : j = 1 \/ j = 2
    BY <1>5
  <2>2. CASE hs[1].name = <<name>>
    BY <1>1, <1>2, <1>5, <2>1, <2>2
  <2>3. CASE hs[2].name = <<name>>
    BY <1>1, <1>2, <1>5, <2>1, <2>3
  <2>4. CASE hs[1].name # <<name>> /\ hs[2].name # <<name>>
    BY <1>1, <1>3, <1>5, <2>1, <2>4
  <2> QED
    BY <2>2, <2>3, <2>4
<1>6. CASE /\ n = 3 /\ hs[1].name # hs[2].name /\ hs[1].name # hs[3].name
           /\ hs[2].name # hs[3].name
  <2>1. /\ 1 \in 1 .. n /\ 2 \in 1 .. n /\ 3 \in 1 .. n
        /\ \A j \in 1 .. n : j = 1 \/ j = 2 \/ j = 3
    BY <1>6
  <2>2. CASE hs[1].name = <<name>>
    BY <1>1, <1>2, <1>6, <2>1, <2>2
  <2>3. CASE hs[2].name = <<name>>
    BY <1>1, <1>2, <1>6, <2>1, <2>3
  <2>4. CASE hs[3].name = <<name>>
    BY <1>1, <1>2, <1>6, <2>1, <2>4
  <2>5. CASE hs[1].name # <<name>> /\ hs[2].name # <<name>> /\ hs[3].name # <<name>>
    BY <1>1, <1>3, <1>6, <2>1, <2>5
  <2> QED
    BY <2>2, <2>3, <2>4, <2>5
<1> QED
  BY <1>1, <1>4, <1>5, <1>6

LEMMA ItemIsField ==
  /\ \A v \in Value : /\ Item("Host", v) \in Field /\ Item("If-Modified-Since", v) \in Field
                      /\ Item("If-None-Match", v) \in Field
  /\ \A name, v : Item(name, v).name = <<name>> /\ Item(name, v).value = v
  /\ Host \in Value
<1>1. {"Host", "If-Modified-Since", "If-None-Match", "y"} \subseteq Tokens
  BY DEF Tokens, Names, Alnum
<1>2. ASSUME NEW t \in Tokens, NEW v \in Value PROVE Item(t, v) \in Field
  <2>1. <<t>> \in Name
    BY DEF Name
  <2> QED
    BY <2>1 DEF Item, Field
<1>3. \A name, v : Item(name, v).name = <<name>> /\ Item(name, v).value = v
  BY DEF Item
<1>4. Host \in Value
  <2>1. "y" \in Lexemes \ {"CR", "LF"}
    BY TokensAreLexemes
  <2> QED
    BY <2>1 DEF Host, Value
<1> QED
  BY <1>1, <1>2, <1>3, <1>4

LEMMA Tuples ==
  ASSUME NEW S
  PROVE  /\ \A a \in S : <<a>> \in Seq(S) /\ Len(<<a>>) = 1 /\ <<a>>[1] = a
         /\ \A a, b \in S : /\ <<a, b>> \in Seq(S) /\ Len(<<a, b>>) = 2
                            /\ <<a, b>>[1] = a /\ <<a, b>>[2] = b
         /\ \A a, b, c \in S :
              /\ <<a, b, c>> \in Seq(S) /\ Len(<<a, b, c>>) = 3
              /\ <<a, b, c>>[1] = a /\ <<a, b, c>>[2] = b /\ <<a, b, c>>[3] = c
OBVIOUS

LEMMA TuplesJoined ==
  ASSUME NEW S, NEW a \in S, NEW b \in S, NEW c \in S
  PROVE  /\ <<a>> \o <<>> \o <<>> = <<a>> /\ <<a>> \o <<b>> \o <<>> = <<a, b>>
         /\ <<a>> \o <<>> \o <<b>> = <<a, b>> /\ <<a>> \o <<b>> \o <<c>> = <<a, b, c>>
<1>1. <<a>> \o <<>> = <<a>> /\ <<a, b>> \o <<>> = <<a, b>>
  OBVIOUS
<1>2. <<a>> \o <<b>> = <<a, b>>
  <2> DEFINE s == <<a>>
             t == <<b>>
             u == <<a, b>>
  <2>1. s \in Seq(S) /\ Len(s) = 1 /\ s[1] = a
    BY Tuples
  <2>2. t \in Seq(S) /\ Len(t) = 1 /\ t[1] = b
    BY Tuples
  <2>3. u \in Seq(S) /\ Len(u) = 2 /\ u[1] = a /\ u[2] = b
    BY Tuples
  <2> HIDE DEF s, t, u
  <2>4. /\ s \o t \in Seq(S) /\ Len(s \o t) = Len(s) + Len(t)
        /\ \A k \in 1 .. Len(s) + Len(t) :
             (s \o t)[k] = IF k <= Len(s) THEN s[k] ELSE t[k - Len(s)]
    BY <2>1, <2>2, ConcatProperties
  <2>5. PICK v \in Seq(S) : v = s \o t /\ Len(v) = 2 /\ v[1] = a /\ v[2] = b
    <3>1. /\ 1 \in 1 .. 1 + 1 /\ 1 <= 1 /\ 1 + 1 = 2
          /\ 2 \in 1 .. 1 + 1 /\ ~(2 <= 1) /\ 2 - 1 = 1
      OBVIOUS
    <3>2. Len(s \o t) = 2 /\ (s \o t)[1] = a /\ (s \o t)[2] = b
      BY <2>1, <2>2, <2>4, <3>1
    <3> QED
      BY <2>4, <3>2, Zenon
  <2>6. \A k \in 1 .. 2 : k = 1 \/ k = 2
    OBVIOUS
  <2>7. u = v
    BY <2>3, <2>5, <2>6, SeqEqual
  <2> QED
    BY <2>5, <2>7 DEF s, t, u
<1>3. <<a, b>> \o <<c>> = <<a, b, c>>
  <2> DEFINE s == <<a, b>>
             t == <<c>>
             u == <<a, b, c>>
  <2>1. s \in Seq(S) /\ Len(s) = 2 /\ s[1] = a /\ s[2] = b
    BY Tuples
  <2>2. t \in Seq(S) /\ Len(t) = 1 /\ t[1] = c
    BY Tuples
  <2>3. u \in Seq(S) /\ Len(u) = 3 /\ u[1] = a /\ u[2] = b /\ u[3] = c
    BY Tuples
  <2> HIDE DEF s, t, u
  <2>4. /\ s \o t \in Seq(S) /\ Len(s \o t) = Len(s) + Len(t)
        /\ \A k \in 1 .. Len(s) + Len(t) :
             (s \o t)[k] = IF k <= Len(s) THEN s[k] ELSE t[k - Len(s)]
    BY <2>1, <2>2, ConcatProperties
  <2>5. PICK v \in Seq(S) : v = s \o t /\ Len(v) = 3 /\ v[1] = a /\ v[2] = b /\ v[3] = c
    <3>1. /\ 1 \in 1 .. 2 + 1 /\ 1 <= 2 /\ 2 + 1 = 3 /\ 2 \in 1 .. 2 + 1 /\ 2 <= 2
          /\ 3 \in 1 .. 2 + 1 /\ ~(3 <= 2) /\ 3 - 2 = 1
      OBVIOUS
    <3>2. Len(s \o t) = 3 /\ (s \o t)[1] = a /\ (s \o t)[2] = b /\ (s \o t)[3] = c
      BY <2>1, <2>2, <2>4, <3>1
    <3> QED
      BY <2>4, <3>2, Zenon
  <2>6. \A k \in 1 .. 3 : k = 1 \/ k = 2 \/ k = 3
    OBVIOUS
  <2>7. u = v
    BY <2>3, <2>5, <2>6, SeqEqual
  <2> QED
    BY <2>5, <2>7 DEF s, t, u
<1> QED
  BY <1>1, <1>2, <1>3, Zenon

\* What a list of headers asks about headers hs.
Asks(cs, hs) ==
  /\ cs \in Seq(Field)
  /\ get_header_value(cs, "Host") = Host
  /\ get_header_value(cs, "If-Modified-Since") = get_header_value(hs, "Last-Modified")
  /\ get_header_value(cs, "If-None-Match") = get_header_value(hs, "ETag")
  /\ Len(cs) = 1 + Cardinality({name \in Validators : get_header_value(hs, name) # <<>>})

LEMMA ConditionalAsks ==
  ASSUME NEW hs \in Seq(Field)
  PROVE  Asks(construct_conditional_request(hs), hs)
<1>1. PICK m \in Value, e \in Value :
        m = get_header_value(hs, "Last-Modified") /\ e = get_header_value(hs, "ETag")
  BY HeaderValueIsValue
<1>2. PICK a \in Field : a = Item("Host", Host) /\ a.name = <<"Host">> /\ a.value = Host
  BY ItemIsField
<1>3. PICK b \in Field : /\ b = Item("If-Modified-Since", m)
                         /\ b.name = <<"If-Modified-Since">> /\ b.value = m
  BY ItemIsField
<1>4. PICK c \in Field : /\ c = Item("If-None-Match", e)
                         /\ c.name = <<"If-None-Match">> /\ c.value = e
  BY ItemIsField
<1>5. construct_conditional_request(hs) =
        <<a>> \o (IF m # <<>> THEN <<b>> ELSE <<>>) \o (IF e # <<>> THEN <<c>> ELSE <<>>)
  BY <1>1, <1>2, <1>3, <1>4, Zenon DEF construct_conditional_request
<1>6. PICK asked : asked = {name \in Validators : get_header_value(hs, name) # <<>>}
  OBVIOUS
<1>7. asked = (IF m # <<>> THEN {"Last-Modified"} ELSE {})
                \cup (IF e # <<>> THEN {"ETag"} ELSE {})
  BY <1>1, <1>6 DEF Validators
<1>8. /\ <<"Host">> # <<"If-Modified-Since">> /\ <<"Host">> # <<"If-None-Match">>
      /\ <<"If-Modified-Since">> # <<"If-None-Match">>
  OBVIOUS
<1>9. CASE m = <<>> /\ e = <<>>
  <2>1. PICK cs \in Seq(Field) : /\ cs = construct_conditional_request(hs)
                                 /\ Len(cs) = 1 /\ cs[1] = a
    <3>1. construct_conditional_request(hs) = <<a>> \o <<>> \o <<>>
      BY <1>5, <1>9, Zenon
    <3>2. construct_conditional_request(hs) = <<a>>
      BY <3>1, TuplesJoined, Zenon
    <3>3. <<a>> \in Seq(Field) /\ Len(<<a>>) = 1 /\ <<a>>[1] = a
      BY Tuples, Zenon
    <3> QED
      BY <3>2, <3>3, Zenon
  <2>2. Cardinality(asked) = 0
    BY <1>7, <1>9, FS_EmptySet
  <2>3. get_header_value(cs, "Host") = Host
    BY <1>2, <2>1, FewItems
  <2>4. get_header_value(cs, "If-Modified-Since") = <<>>
    BY <1>2, <1>8, <2>1, FewItems
  <2>5. get_header_value(cs, "If-None-Match") = <<>>
    BY <1>2, <1>8, <2>1, FewItems
  <2>6. Len(cs) = 1 + Cardinality(asked)
    BY <2>1, <2>2
  <2> QED
    BY <1>1, <1>6, <1>9, <2>1, <2>3, <2>4, <2>5, <2>6 DEF Asks
<1>10. CASE m # <<>> /\ e = <<>>
  <2>1. PICK cs \in Seq(Field) : /\ cs = construct_conditional_request(hs)
                                 /\ Len(cs) = 2 /\ cs[1] = a /\ cs[2] = b
    <3>1. construct_conditional_request(hs) = <<a>> \o <<b>> \o <<>>
      BY <1>5, <1>10, Zenon
    <3>2. construct_conditional_request(hs) = <<a, b>>
      BY <3>1, TuplesJoined, Zenon
    <3>3. <<a, b>> \in Seq(Field) /\ Len(<<a, b>>) = 2 /\ <<a, b>>[1] = a /\ <<a, b>>[2] = b
      BY Tuples, Zenon
    <3> QED
      BY <3>2, <3>3, Zenon
  <2>2. Cardinality(asked) = 1
    BY <1>7, <1>10, FS_Singleton
  <2>3. get_header_value(cs, "Host") = Host
    BY <1>2, <1>3, <1>8, <2>1, FewItems
  <2>4. get_header_value(cs, "If-Modified-Since") = m
    BY <1>2, <1>3, <1>8, <2>1, FewItems
  <2>5. get_header_value(cs, "If-None-Match") = <<>>
    BY <1>2, <1>3, <1>8, <2>1, FewItems
  <2>6. Len(cs) = 1 + Cardinality(asked)
    BY <2>1, <2>2
  <2> QED
    BY <1>1, <1>6, <1>10, <2>1, <2>3, <2>4, <2>5, <2>6 DEF Asks
<1>11. CASE m = <<>> /\ e # <<>>
  <2>1. PICK cs \in Seq(Field) : /\ cs = construct_conditional_request(hs)
                                 /\ Len(cs) = 2 /\ cs[1] = a /\ cs[2] = c
    <3>1. construct_conditional_request(hs) = <<a>> \o <<>> \o <<c>>
      BY <1>5, <1>11, Zenon
    <3>2. construct_conditional_request(hs) = <<a, c>>
      BY <3>1, TuplesJoined, Zenon
    <3>3. <<a, c>> \in Seq(Field) /\ Len(<<a, c>>) = 2 /\ <<a, c>>[1] = a /\ <<a, c>>[2] = c
      BY Tuples, Zenon
    <3> QED
      BY <3>2, <3>3, Zenon
  <2>2. Cardinality(asked) = 1
    BY <1>7, <1>11, FS_Singleton
  <2>3. get_header_value(cs, "Host") = Host
    BY <1>2, <1>4, <1>8, <2>1, FewItems
  <2>4. get_header_value(cs, "If-Modified-Since") = <<>>
    BY <1>2, <1>4, <1>8, <2>1, FewItems
  <2>5. get_header_value(cs, "If-None-Match") = e
    BY <1>2, <1>4, <1>8, <2>1, FewItems
  <2>6. Len(cs) = 1 + Cardinality(asked)
    BY <2>1, <2>2
  <2> QED
    BY <1>1, <1>6, <1>11, <2>1, <2>3, <2>4, <2>5, <2>6 DEF Asks
<1>12. CASE m # <<>> /\ e # <<>>
  <2>1. PICK cs \in Seq(Field) :
          /\ cs = construct_conditional_request(hs)
          /\ Len(cs) = 3 /\ cs[1] = a /\ cs[2] = b /\ cs[3] = c
    <3>1. construct_conditional_request(hs) = <<a>> \o <<b>> \o <<c>>
      BY <1>5, <1>12, Zenon
    <3>2. construct_conditional_request(hs) = <<a, b, c>>
      BY <3>1, TuplesJoined, Zenon
    <3>3. /\ <<a, b, c>> \in Seq(Field) /\ Len(<<a, b, c>>) = 3
          /\ <<a, b, c>>[1] = a /\ <<a, b, c>>[2] = b /\ <<a, b, c>>[3] = c
      BY Tuples, Zenon
    <3> QED
      BY <3>2, <3>3, Zenon
  <2>2. Cardinality(asked) = 2
    <3>1. asked = {"Last-Modified"} \cup {"ETag"}
      BY <1>7, <1>12
    <3>2. IsFiniteSet({"Last-Modified"}) /\ Cardinality({"Last-Modified"}) = 1
      BY FS_Singleton
    <3>3. Cardinality({"Last-Modified"} \cup {"ETag"}) = Cardinality({"Last-Modified"}) + 1
      BY <3>2, FS_AddElement
    <3> QED
      BY <3>1, <3>2, <3>3
  <2>3. get_header_value(cs, "Host") = Host
    BY <1>2, <1>3, <1>4, <1>8, <2>1, FewItems
  <2>4. get_header_value(cs, "If-Modified-Since") = m
    BY <1>2, <1>3, <1>4, <1>8, <2>1, FewItems
  <2>5. get_header_value(cs, "If-None-Match") = e
    BY <1>2, <1>3, <1>4, <1>8, <2>1, FewItems
  <2>6. Len(cs) = 1 + Cardinality(asked)
    BY <2>1, <2>2
  <2> QED
    BY <1>1, <1>6, <1>12, <2>1, <2>3, <2>4, <2>5, <2>6 DEF Asks
<1> QED
  BY <1>9, <1>10, <1>11, <1>12

---------------------------------------------------------------------------
(* What is read of a stored response, and of the request that asks about it *)

\* Parser p has read text w up to i, and w is what is written of headers hs and
\* the body.
Reading(p, i, w, method, status, hs, body) ==
  \E at \in [0 .. Len(hs) -> Nat] :
    Says(w, method, status, hs, at, body) /\ Reads(p, i, w, method, status, hs, at, body)

LEMMA ReadingBegins ==
  ASSUME NEW hs \in Seq(Field), NEW body \in Text, NEW w, NEW start, NEW status, NEW method,
         \/ start = "GET" /\ method = "GET"
         \/ start \notin Requests /\ method = "none",
         NEW at \in [0 .. Len(hs) -> Nat], Says(w, method, status, hs, at, body)
  PROVE  Reading(NewParser(start), 0, w, method, status, hs, body)
<1>1. PICK n \in Nat : n = Len(hs)
  BY LenProperties
<1>2. PICK p : /\ p = NewParser(start) /\ p.chunked = FALSE /\ p.result = "incomplete"
               /\ p.headers = <<>> /\ p.content = <<>> /\ p.method = "none" /\ p.status = <<>>
               /\ p.state = IF start \in Requests THEN "RequestMethodStart"
                             ELSE "ResponseStatusStart"
  BY DEF NewParser
<1>3. InStart(p, 0, method, status)
  BY <1>2 DEF InStart, InStatus, Requests
<1>4. 0 < Len(w)
  <2>1. at[0] < Len(w) /\ Len(w) \in Nat /\ at[0] \in Nat
    BY <1>1, Places
  <2> QED
    BY <2>1
<1>5. Reads(p, 0, w, method, status, hs, at, body)
  BY <1>2, <1>3, <1>4 DEF Reads
<1> QED
  BY <1>2, <1>5 DEF Reading

LEMMA ReadingGoesOn ==
  ASSUME NEW hs \in Seq(Field), NEW body \in Text, NEW w, NEW method \in {"GET", "none"},
         NEW status \in Text, method = "none" => Worthy(status),
         Announce(method, hs, body), NEW p \in Parser, ParserOK(p), p.result = "incomplete",
         NEW i \in Nat, Reading(p, i, w, method, status, hs, body)
  PROVE  Reading(consume(p, w[i + 1]), i + 1, w, method, status, hs, body)
<1>1. PICK n \in Nat : n = Len(hs)
  BY LenProperties
<1>2. PICK at \in [0 .. n -> Nat] :
        Says(w, method, status, hs, at, body) /\ Reads(p, i, w, method, status, hs, at, body)
  BY <1>1 DEF Reading
<1>3. Reads(consume(p, w[i + 1]), i + 1, w, method, status, hs, at, body)
  BY <1>1, <1>2, ReadsOn
<1> QED
  BY <1>1, <1>2, <1>3 DEF Reading

LEMMA ReadingEnds ==
  ASSUME NEW hs \in Seq(Field), NEW body \in Text, NEW w, NEW method, NEW status, NEW p, NEW i \in Nat,
         Reading(p, i, w, method, status, hs, body)
  PROVE  /\ p.result # "error"
         /\ i = Len(w) <=> p.result = "completed"
         /\ p.result = "completed" => Begun(p, method, status) /\ p.headers = hs /\ p.content = body
<1>1. PICK n \in Nat : n = Len(hs)
  BY LenProperties
<1>2. PICK at \in [0 .. n -> Nat] :
        Says(w, method, status, hs, at, body) /\ Reads(p, i, w, method, status, hs, at, body)
  BY <1>1 DEF Reading
<1>3. Len(w) \in Nat
  BY <1>1, <1>2, Places
<1> QED
  BY <1>2, <1>3 DEF Reads

LEMMA InspectSays ==
  ASSUME NEW p \in Parser
  PROVE  \E at \in [0 .. Len(p.headers) -> Nat] :
           Says(Inspect(p), "none", p.status, p.headers, at, p.content)
<1>1. PICK hs \in Seq(Field), body \in Text, status \in Text :
        hs = p.headers /\ body = p.content /\ status = p.status
  BY DEF Parser, Text
<1>2. PICK begins \in Text :
        /\ begins = <<"HTTP/1.1", "SP", "2", "0", "0", "SP">> /\ Len(begins) = 6
        /\ begins[1] = "HTTP/1.1" /\ begins[2] = "SP" /\ begins[3] = "2" /\ begins[4] = "0"
        /\ begins[5] = "0" /\ begins[6] = "SP"
  BY LexemesAreText
<1>3. PICK ends \in Text : ends = <<"CR", "LF">> /\ Len(ends) = 2 /\ ends[1] = "CR" /\ ends[2] = "LF"
  BY LexemesAreText
<1>4. PICK a \in Text : Joined(a, begins, status)
  BY ConcatPlaces
<1>5. PICK start \in Text : Joined(start, a, ends)
  BY ConcatPlaces
<1>6. PICK l \in Nat : l = Len(status)
  BY LenProperties DEF Text
<1>7. /\ a = begins \o status /\ Len(a) = 6 + l
      /\ \A j \in 1 .. 6 : a[j] = begins[j]
      /\ \A j \in 1 .. l : a[6 + j] = status[j]
  BY <1>2, <1>4, <1>6 DEF Joined
<1>8. /\ start = a \o ends /\ Len(start) = 6 + l + 2
      /\ \A j \in 1 .. 6 + l : start[j] = a[j]
      /\ \A j \in 1 .. 2 : start[6 + l + j] = ends[j]
  BY <1>3, <1>5, <1>7 DEF Joined
<1>9. Len(start) = StartLength("none", status)
  BY <1>6, <1>8 DEF StartLength
<1>10. StartAt(start, "none", status)
  <2>1. ASSUME NEW j \in 1 .. 6 PROVE start[j] = begins[j]
    <3>1. j \in 1 .. 6 + l
      OBVIOUS
    <3> QED
      BY <1>7, <1>8, <3>1
  <2>2. ASSUME NEW j \in 1 .. l PROVE start[6 + j] = status[j]
    <3>1. 6 + j \in 1 .. 6 + l
      OBVIOUS
    <3> QED
      BY <1>7, <1>8, <3>1
  <2>3. start[7 + l] = "CR" /\ start[8 + l] = "LF"
    <3>1. 6 + l + 1 = 7 + l /\ 6 + l + 2 = 8 + l /\ 1 \in 1 .. 2 /\ 2 \in 1 .. 2
      OBVIOUS
    <3>2. start[6 + l + 1] = "CR" /\ start[6 + l + 2] = "LF"
      BY <1>3, <1>8, <3>1
    <3> QED
      BY <3>1, <3>2
  <2> QED
    BY <1>2, <1>6, <2>1, <2>2, <2>3 DEF StartAt
<1>11. \E at \in [0 .. Len(hs) -> Nat] :
         Says(((start \o HeaderText(hs)) \o <<"CR", "LF">>) \o body, "none", status, hs, at, body)
  BY <1>9, <1>10, TextSays
<1>12. StatusText(p) = start
  BY <1>1, <1>2, <1>3, <1>7, <1>8 DEF StatusText
<1>13. Inspect(p) = ((start \o HeaderText(hs)) \o <<"CR", "LF">>) \o body
  BY <1>1, <1>12 DEF Inspect
<1> QED
  BY <1>1, <1>11, <1>13

LEMMA RequestSays ==
  ASSUME NEW hs \in Seq(Field), NEW status \in Text
  PROVE  \E at \in [0 .. Len(hs) -> Nat] :
           Says(InspectRequest(hs), "GET", status, hs, at, <<>>)
<1>1. PICK body \in Text : body = <<>>
  BY LexemesAreText
<1>2. PICK start \in Text :
        /\ start = <<"GET", "HTTP/1.1", "CR", "LF">>
        /\ Len(start) = StartLength("GET", status) /\ StartAt(start, "GET", status)
  BY LexemesAreText DEF StartLength, StartAt
<1>3. \E at \in [0 .. Len(hs) -> Nat] :
        Says(((start \o HeaderText(hs)) \o <<"CR", "LF">>) \o body, "GET", status, hs, at, body)
  BY <1>2, TextSays
<1>4. PICK t \in Text : t = (start \o HeaderText(hs)) \o <<"CR", "LF">>
  <2>1. start \o HeaderText(hs) \in Text
    BY FieldsAreText, ConcatIsText
  <2> QED
    BY <2>1, LexemesAreText, ConcatIsText
<1>5. t \o body = t
  BY <1>1, ConcatEmptySeq DEF Text
<1>6. InspectRequest(hs) = t
  BY <1>2, <1>4 DEF InspectRequest
<1> QED
  BY <1>1, <1>3, <1>4, <1>5, <1>6

\* The headers of a response that is parsed frame its content.
LEMMA ParsedIsFramed ==
  ASSUME NEW p \in Parser, ParserOK(p), p.result = "completed", p.method = "none",
         p.chunked = FALSE
  PROVE  Framed(p)
<1>1. StateOK(p) /\ FramingOK(p)
  BY DEF ParserOK
<1>2. p.state \notin Partial
  BY <1>1 DEF StateOK
<1>3. \A k \in DOMAIN p.headers : FramedAs(p.headers[k], FALSE)
  BY <1>1, <1>2 DEF FramingOK, Complete
<1>4. p.contentSize = 0 /\ p.contentSize + Len(p.content) = Length(p.headers)
  BY <1>1, <1>2 DEF FramingOK
<1>5. PICK l \in Nat : l = Len(p.content)
  BY LenProperties DEF Parser
<1>6. Len(p.content) = Length(p.headers)
  <2>1. 0 + l = Length(p.headers)
    BY <1>4, <1>5
  <2> QED
    BY <1>5, <2>1
<1>7. ASSUME NEW h \in ToSet(p.headers)
      PROVE  /\ h.name = <<"Content-Length">> => atoi(h.value) >= 0
             /\ h.name = <<"Transfer-Encoding">> => h.value # <<"chunked">>
  <2>1. PICK k \in DOMAIN p.headers : h = p.headers[k]
    BY DEF ToSet
  <2> QED
    BY <1>3, <2>1 DEF FramedAs
<1> QED
  BY <1>6, <1>7 DEF Framed

LEMMA FramedAnnounces ==
  ASSUME NEW p \in Parser, Framed(p)
  PROVE  Announce("none", p.headers, p.content)
<1>1. ASSUME NEW k \in DOMAIN p.headers PROVE FramedAs(p.headers[k], FALSE)
  <2>1. p.headers[k] \in ToSet(p.headers)
    BY DEF ToSet
  <2> QED
    BY <2>1 DEF Framed, FramedAs
<1> QED
  BY <1>1 DEF Framed, Announce

\* What is stored, whatever the headers are freshened to.
StoredOK(p) == p \in Parser /\ p.statusCode = 200 /\ Worthy(p.status)

\* The inductive invariant: the parser of what is received never takes a
\* response for a request, and who reads what was stored has read what it says.
ReadInv ==
  /\ IInv
  /\ phase = "origin" /\ message.start \notin Requests => Responds(parser)
  /\ phase \in {"client", "server"} => StoredOK(stored)
  /\ phase = "client" => message.start \notin Requests
  /\ phase = "client" /\ pos = 0 => parser = NewParser(message.start)
  /\ phase = "client" /\ Framed(stored) =>
       Reading(parser, pos, wire, "none", stored.status, stored.headers, stored.content)
  /\ phase = "server" =>
       Reading(parser, pos, wire, "GET", <<>>,
               construct_conditional_request(stored.headers), <<>>)

LEMMA InitReadInv == Init => ReadInv
<1> SUFFICES ASSUME Init PROVE ReadInv
  OBVIOUS
<1>1. IInv
  BY InitIInv
<1>2. message.start \notin Requests => Responds(parser)
  <2> SUFFICES ASSUME message.start \notin Requests PROVE Responds(parser)
    OBVIOUS
  <2>1. /\ parser.method = "none" /\ parser.state = "ResponseStatusStart"
        /\ parser.result = "incomplete" /\ parser.status = <<>>
    BY DEF Init, NewParser
  <2>2. "ResponseStatusStart" \notin RequestStates /\ "ResponseStatusStart" \in StatusStates
    BY DEF RequestStates, StatusStates
  <2> QED
    BY <2>1, <2>2 DEF Responds
<1>3. phase = "origin"
  BY DEF Init
<1> QED
  BY <1>1, <1>2, <1>3 DEF ReadInv

\* A stored response is written, and none of it has been read.
LEMMA ReplayBegins ==
  ASSUME NEW p, StoredOK(p), NEW start, start \notin Requests
  PROVE  Reading(NewParser(start), 0, Inspect(p), "none", p.status, p.headers, p.content)
<1>1. PICK hs \in Seq(Field), body \in Text, status \in Text :
        hs = p.headers /\ body = p.content /\ status = p.status
  BY DEF StoredOK, Parser, Text
<1>2. PICK at \in [0 .. Len(hs) -> Nat] : Says(Inspect(p), "none", status, hs, at, body)
  BY <1>1, InspectSays DEF StoredOK
<1>3. Reading(NewParser(start), 0, Inspect(p), "none", status, hs, body)
  BY <1>2, ReadingBegins
<1> QED
  BY <1>1, <1>3

LEMMA NextReadInv == ReadInv /\ [Next]_vars => ReadInv'
<1> SUFFICES ASSUME ReadInv, [Next]_vars PROVE ReadInv'
  OBVIOUS
<1>1. IInv /\ IInv'
  BY NextIInv DEF ReadInv
<1>2. CASE Consume
  <2>1. /\ parser' = consume(parser, wire[pos + 1]) /\ pos' = pos + 1
        /\ parser.result = "incomplete" /\ pos < Len(wire)
        /\ UNCHANGED <<message, phase, stored, wire>>
    BY <1>2 DEF Consume
  <2>2. parser \in Parser /\ ParserOK(parser) /\ pos \in Nat /\ wire \in Text
    BY <1>1 DEF IInv
  <2>3. phase = "origin" /\ message.start \notin Requests => Responds(parser')
    <3>1. pos + 1 \in 1 .. Len(wire)
      BY <2>1, <2>2, LenProperties DEF Text
    <3>2. wire[pos + 1] \in Lexemes
      BY <2>2, <3>1, ElementOfSeq DEF Text
    <3> QED
      BY <2>1, <2>2, <3>2, ConsumeResponds DEF ReadInv
  <2>4. phase = "client" /\ Framed(stored) =>
          Reading(parser', pos', wire, "none", stored.status, stored.headers, stored.content)
    <3> SUFFICES ASSUME phase = "client", Framed(stored)
                 PROVE  Reading(parser', pos', wire, "none", stored.status, stored.headers,
                                stored.content)
      OBVIOUS
    <3>1. PICK p \in Parser : p = stored /\ Worthy(p.status) /\ Framed(p)
      BY DEF ReadInv, StoredOK
    <3>2. PICK hs \in Seq(Field), body \in Text, status \in Text :
            hs = p.headers /\ body = p.content /\ status = p.status
      BY DEF Parser, Text
    <3>3. Announce("none", hs, body) /\ Worthy(status)
      BY <3>1, <3>2, FramedAnnounces
    <3>4. Reading(parser, pos, wire, "none", status, hs, body)
      BY <3>1, <3>2 DEF ReadInv
    <3>5. Reading(consume(parser, wire[pos + 1]), pos + 1, wire, "none", status, hs, body)
      BY <2>1, <2>2, <3>3, <3>4, ReadingGoesOn
    <3> QED
      BY <2>1, <3>1, <3>2, <3>5
  <2>5. phase = "server" =>
          Reading(parser', pos', wire, "GET", <<>>,
                  construct_conditional_request(stored.headers), <<>>)
    <3> SUFFICES ASSUME phase = "server"
                 PROVE  Reading(parser', pos', wire, "GET", <<>>,
                                construct_conditional_request(stored.headers), <<>>)
      OBVIOUS
    <3>1. stored.headers \in Seq(Field)
      BY <1>1 DEF IInv, Parser
    <3>2. PICK cs \in Seq(Field) : cs = construct_conditional_request(stored.headers)
      BY <3>1, ConditionalAsks DEF Asks
    <3>3. PICK body \in Text : body = <<>>
      BY LexemesAreText
    <3>4. Announce("GET", cs, body)
      BY <3>3 DEF Announce
    <3>5. Reading(parser, pos, wire, "GET", body, cs, body)
      BY <3>2, <3>3 DEF ReadInv
    <3>6. Reading(consume(parser, wire[pos + 1]), pos + 1, wire, "GET", body, cs, body)
      BY <2>1, <2>2, <3>4, <3>5, ReadingGoesOn
    <3> QED
      BY <2>1, <3>2, <3>3, <3>6
  <2>6. phase \in {"client", "server"} => StoredOK(stored)
    BY DEF ReadInv
  <2>7. pos' # 0
    BY <2>1, <2>2
  <2> QED
    BY <1>1, <2>1, <2>3, <2>4, <2>5, <2>6, <2>7 DEF ReadInv
<1>3. CASE Throw
  BY <1>1, <1>3 DEF Throw, ReadInv
<1>4. CASE Store
  <2>1. /\ phase = "origin" /\ parser.result = "completed" /\ message.start \notin Requests
        /\ parser.statusCode = 200
        /\ stored' = parser /\ phase' = "client" /\ wire' = Inspect(parser) /\ pos' = 0
        /\ parser' = NewParser(message.start) /\ message' = message
    BY <1>4 DEF Store
  <2>2. PICK p : p = parser /\ StoredOK(p)
    <3>1. Responds(parser) /\ parser \in Parser
      BY <1>1, <2>1 DEF ReadInv, IInv
    <3>2. parser.state \notin StatusStates
      BY <2>1, <3>1 DEF Responds
    <3> QED
      BY <2>1, <3>1, <3>2 DEF Responds, StoredOK
  <2>3. Reading(NewParser(message.start), 0, Inspect(p), "none", p.status, p.headers, p.content)
    BY <2>1, <2>2, ReplayBegins
  <2>4. Reading(parser', pos', wire', "none", stored'.status, stored'.headers, stored'.content)
    BY <2>1, <2>2, <2>3
  <2> QED
    BY <1>1, <2>1, <2>2, <2>4 DEF ReadInv
<1>5. CASE Freshen
  <2>1. /\ phase = "client" /\ pos = 0 /\ wire' = Inspect(stored')
        /\ UNCHANGED <<message, phase, pos, parser>>
    BY <1>5 DEF Freshen
  <2>2. PICK hs : stored' = [stored EXCEPT !.headers = hs]
    BY <1>5 DEF Freshen
  <2>3. StoredOK(stored')
    <3>1. stored \in Parser /\ stored' \in Parser
      BY <1>1, <2>1 DEF IInv
    <3>2. stored'.statusCode = stored.statusCode /\ stored'.status = stored.status
      BY <2>2, <3>1 DEF Parser
    <3> QED
      BY <2>1, <3>1, <3>2 DEF ReadInv, StoredOK
  <2>4. parser = NewParser(message.start) /\ message.start \notin Requests
    BY <2>1 DEF ReadInv
  <2>5. Reading(parser', pos', wire', "none", stored'.status, stored'.headers, stored'.content)
    BY <2>1, <2>3, <2>4, ReplayBegins
  <2> QED
    BY <1>1, <2>1, <2>3, <2>4, <2>5 DEF ReadInv
<1>6. CASE Revalidate
  <2>1. /\ phase = "client" /\ phase' = "server" /\ pos' = 0 /\ stored' = stored
        /\ wire' = InspectRequest(construct_conditional_request(stored.headers))
        /\ parser' = NewParser("GET")
    BY <1>6 DEF Revalidate
  <2>2. StoredOK(stored) /\ stored.headers \in Seq(Field)
    BY <2>1 DEF ReadInv, StoredOK, Parser
  <2>3. PICK cs \in Seq(Field) : cs = construct_conditional_request(stored.headers)
    BY <2>2, ConditionalAsks DEF Asks
  <2>4. PICK body \in Text : body = <<>>
    BY LexemesAreText
  <2>5. PICK at \in [0 .. Len(cs) -> Nat] :
          Says(InspectRequest(cs), "GET", body, cs, at, body)
    BY <2>4, RequestSays
  <2>6. Reading(NewParser("GET"), 0, InspectRequest(cs), "GET", body, cs, body)
    BY <2>5, ReadingBegins
  <2>7. Reading(parser', pos', wire', "GET", <<>>,
                construct_conditional_request(stored'.headers), <<>>)
    BY <2>1, <2>3, <2>4, <2>6
  <2> QED
    BY <1>1, <2>1, <2>2, <2>7 DEF ReadInv
<1>7. CASE UNCHANGED vars
  BY <1>1, <1>7 DEF vars, ReadInv
<1> QED
  BY <1>2, <1>3, <1>4, <1>5, <1>6, <1>7 DEF Next, StoreFetched, StoreValidated, Done

LEMMA ReadInvFrames == ReadInv => StoredIsFramed
<1> SUFFICES ASSUME ReadInv, phase = "origin", parser.result = "completed",
                    message.start \notin Requests, ~parser.chunked
             PROVE  Framed(parser)
  BY DEF StoredIsFramed
<1>1. parser \in Parser /\ ParserOK(parser) /\ Responds(parser)
  BY DEF ReadInv, IInv
<1>2. parser.method = "none" /\ parser.chunked \in BOOLEAN
  BY <1>1 DEF Responds, Parser
<1>3. parser.chunked = FALSE
  BY <1>2
<1> QED
  BY <1>1, <1>2, <1>3, ParsedIsFramed

LEMMA ReadInvReplays == ReadInv => ReplayIsFaithful
<1> SUFFICES ASSUME ReadInv, phase = "client", Framed(stored)
             PROVE  /\ parser.result # "error"
                    /\ pos = Len(wire) <=> parser.result = "completed"
                    /\ parser.result = "completed" =>
                         /\ parser.statusCode = stored.statusCode
                         /\ parser.status = stored.status
                         /\ parser.headers = stored.headers
                         /\ parser.content = stored.content
  BY DEF ReplayIsFaithful
<1>1. pos \in Nat
  BY DEF ReadInv, IInv
<1>2. PICK p \in Parser : p = stored /\ p.statusCode = 200
  BY DEF ReadInv, StoredOK
<1>3. PICK hs \in Seq(Field), body \in Text, status \in Text :
        hs = p.headers /\ body = p.content /\ status = p.status
  BY DEF Parser, Text
<1>4. Reading(parser, pos, wire, "none", status, hs, body)
  BY <1>2, <1>3 DEF ReadInv
<1>5. /\ parser.result # "error"
      /\ pos = Len(wire) <=> parser.result = "completed"
      /\ parser.result = "completed" =>
           Begun(parser, "none", status) /\ parser.headers = hs /\ parser.content = body
  BY <1>1, <1>4, ReadingEnds
<1> QED
  BY <1>2, <1>3, <1>5 DEF Begun

LEMMA ReadInvAsks == ReadInv => ConditionalAsksAboutStored
<1> SUFFICES ASSUME ReadInv, phase = "server" PROVE ConditionalAsksAboutStored
  BY DEF ConditionalAsksAboutStored
<1>1. pos \in Nat /\ stored.headers \in Seq(Field)
  BY DEF ReadInv, IInv, StoredOK, Parser
<1>2. PICK cs \in Seq(Field) :
        cs = construct_conditional_request(stored.headers) /\ Asks(cs, stored.headers)
  BY <1>1, ConditionalAsks DEF Asks
<1>3. PICK body \in Text : body = <<>>
  BY LexemesAreText
<1>4. Reading(parser, pos, wire, "GET", body, cs, body)
  BY <1>2, <1>3 DEF ReadInv
<1>5. /\ parser.result # "error"
      /\ pos = Len(wire) <=> parser.result = "completed"
      /\ parser.result = "completed" => parser.headers = cs
  BY <1>1, <1>4, ReadingEnds
<1> QED
  BY <1>2, <1>5 DEF ConditionalAsksAboutStored, Asks

(***************************************************************************)
(* Whatever was received, for every set of messages and every noise: the   *)
(* headers of a response that is parsed, and not chunked, frame its        *)
(* content (httpresponseparser.h:289-304, 347-373).                        *)
(***************************************************************************)
THEOREM StoredFramed == Spec => []StoredIsFramed
<1>1. Spec => []ReadInv
  BY InitReadInv, NextReadInv, PTL DEF Spec
<1> QED
  BY <1>1, ReadInvFrames, PTL

(***************************************************************************)
(* Whatever was received, stored and freshened, for every set of messages, *)
(* noise and headers of 304 responses: a stored response whose headers     *)
(* still frame its content is read by its client, lexeme by lexeme, as     *)
(* what is stored, and to the end (response.h:33-47, proxy.cpp:353-359).   *)
(***************************************************************************)
THEOREM ReplayFaithful == Spec => []ReplayIsFaithful
<1>1. Spec => []ReadInv
  BY InitReadInv, NextReadInv, PTL DEF Spec
<1> QED
  BY <1>1, ReadInvReplays, PTL

(***************************************************************************)
(* Whatever was received, stored and freshened: the server reads the       *)
(* conditional request, to its end, as one with the validators of the      *)
(* stored response and nothing else (proxy.cpp:353-385, request.h:31-47).  *)
(***************************************************************************)
THEOREM ConditionalFaithful == Spec => []ConditionalAsksAboutStored
<1>1. Spec => []ReadInv
  BY InitReadInv, NextReadInv, PTL DEF Spec
<1> QED
  BY <1>1, ReadInvAsks, PTL

---------------------------------------------------------------------------
(* What a parser reads of what a sender writes *)

LEMMA NoDigits == ASSUME NEW base PROVE Number(<<>>, base) = 0
<1> DEFINE s == <<>>
           length == CHOOSE n \in 0 .. Len(s) :
                       /\ \A k \in 1 .. n : s[k] \in Digits
                       /\ n < Len(s) => s[n + 1] \notin Digits
<1>1. length = 0
  OBVIOUS
<1> DEFINE Step(f) == [k \in 0 .. length |->
                         IF k = 0 THEN 0 ELSE base * f[k - 1] + Digit(s[k])]
           upTo == CHOOSE f : f = Step(f)
<1>2. Unsigned(s, base) = upTo[length]
  BY DEF Unsigned
<1> HIDE DEF length
<1>3. \E f : f = Step(f)
  <2> DEFINE f == [k \in 0 .. 0 |-> 0]
  <2>1. \A k \in 0 .. 0 : k = 0
    OBVIOUS
  <2>2. f = [k \in 0 .. 0 |-> IF k = 0 THEN 0 ELSE base * f[k - 1] + Digit(s[k])]
    BY <2>1
  <2> QED
    BY <1>1, <2>2
<1>4. upTo = Step(upTo)
  BY <1>3
<1> HIDE DEF upTo
<1>5. upTo[0] = 0
  BY <1>1, <1>4
<1>6. Number(s, base) = Unsigned(s, base)
  <2> DEFINE blanks == CHOOSE n \in 0 .. Len(s) :
                         /\ \A k \in 1 .. n : s[k] = "SP"
                         /\ n < Len(s) => s[n + 1] # "SP"
             text == SubSeq(s, blanks + 1, Len(s))
  <2>1. text = <<>>
    <3>1. blanks = 0
      OBVIOUS
    <3>2. SubSeq(<<>>, 1, 0) = <<>> /\ Len(<<>>) = 0
      OBVIOUS
    <3> HIDE DEF blanks
    <3> QED
      BY <3>1, <3>2
  <2>2. Number(s, base) = CASE text # <<>> /\ text[1] = "-" -> -Unsigned(Tail(text), base)
                            [] text # <<>> /\ text[1] = "+" -> Unsigned(Tail(text), base)
                            [] OTHER -> Unsigned(text, base)
    BY Zenon DEF Number
  <2> HIDE DEF text
  <2> QED
    BY <2>1, <2>2
<1> QED
  BY <1>1, <1>2, <1>5, <1>6

LEMMA OneDigit ==
  ASSUME NEW base \in Nat, NEW n \in 0 .. 2
  PROVE  Number(<<Numeral[n + 1]>>, base) = n
<1>1. PICK d \in Digits : d = Numeral[n + 1] /\ Digit(d) = n
  BY DigitOfNumeral
<1> DEFINE s == <<d>>
           length == CHOOSE m \in 0 .. Len(s) :
                       /\ \A k \in 1 .. m : s[k] \in Digits
                       /\ m < Len(s) => s[m + 1] \notin Digits
<1>2. length = 1
  <2>1. Len(s) = 1 /\ s[1] = d /\ s[0 + 1] = d
    OBVIOUS
  <2>2. \A m \in 0 .. 1 : m = 0 \/ m = 1
    OBVIOUS
  <2> QED
    BY <2>1, <2>2
<1> DEFINE Step(f) == [k \in 0 .. length |->
                         IF k = 0 THEN 0 ELSE base * f[k - 1] + Digit(s[k])]
           upTo == CHOOSE f : f = Step(f)
<1>3. Unsigned(s, base) = upTo[length]
  BY DEF Unsigned
<1> HIDE DEF length
<1>4. \E f : f = Step(f)
  <2> DEFINE f == [k \in 0 .. 1 |-> IF k = 0 THEN 0 ELSE n]
  <2>1. ASSUME NEW k \in 0 .. 1, k # 0 PROVE base * f[k - 1] + Digit(s[k]) = n
    <3>1. k = 1 /\ f[0] = 0 /\ s[1] = d /\ base * 0 + n = n
      BY <2>1
    <3> QED
      BY <1>1, <3>1
  <2>2. f = [k \in 0 .. 1 |-> IF k = 0 THEN 0 ELSE base * f[k - 1] + Digit(s[k])]
    BY <2>1
  <2> QED
    BY <1>2, <2>2
<1>5. upTo = Step(upTo)
  BY <1>4
<1> HIDE DEF upTo
<1>6. upTo[0] = 0 /\ upTo[1] = base * upTo[0] + Digit(s[1])
  BY <1>2, <1>5
<1>7. upTo[1] = n
  <2>1. base * 0 + n = n
    OBVIOUS
  <2> QED
    BY <1>1, <1>6, <2>1
<1>8. d \notin {"-", "+", "SP"}
  BY DEF Digits, ToSet, Numeral
<1>9. Number(s, base) = Unsigned(s, base)
  <2> DEFINE blanks == CHOOSE m \in 0 .. Len(s) :
                         /\ \A k \in 1 .. m : s[k] = "SP"
                         /\ m < Len(s) => s[m + 1] # "SP"
             text == SubSeq(s, blanks + 1, Len(s))
  <2>1. text = s /\ s # <<>> /\ s[1] = d
    <3>1. Len(s) = 1 /\ s[1] = d /\ s[0 + 1] = d /\ \A m \in 0 .. 1 : m = 0 \/ m = 1
      OBVIOUS
    <3>2. blanks = 0
      BY <1>8, <3>1
    <3>3. SubSeq(s, 1, 1) = s
      <4>1. s \in Seq(Digits) /\ 1 = Len(s)
        OBVIOUS
      <4> QED
        BY <4>1, PrefixParts
    <3> HIDE DEF blanks
    <3> QED
      BY <3>1, <3>2, <3>3
  <2>2. Number(s, base) = CASE text # <<>> /\ text[1] = "-" -> -Unsigned(Tail(text), base)
                            [] text # <<>> /\ text[1] = "+" -> Unsigned(Tail(text), base)
                            [] OTHER -> Unsigned(text, base)
    BY Zenon DEF Number
  <2> HIDE DEF text, s
  <2> QED
    BY <1>8, <2>1, <2>2
<1> QED
  BY <1>1, <1>2, <1>3, <1>7, <1>9

\* What is written of a size is read as that size.
LEMMA SizesRead ==
  /\ strtol(<<>>, 16) = 0
  /\ \A n \in 0 .. 2 : strtol(<<Numeral[n + 1]>>, 16) = n /\ atoi(<<Numeral[n + 1]>>) = n
<1>1. 2 < IntMax /\ IntMax \in Nat /\ 2 < LongMax /\ LongMax \in Nat
  BY WidthsAssumption
<1>2. strtol(<<>>, 16) = 0
  BY <1>1, NoDigits DEF strtol
<1>3. ASSUME NEW n \in 0 .. 2 PROVE strtol(<<Numeral[n + 1]>>, 16) = n
  BY <1>1, OneDigit DEF strtol
<1>4. ASSUME NEW n \in 0 .. 2 PROVE atoi(<<Numeral[n + 1]>>) = n
  <2>1. PICK s \in Seq(Digits) : s = <<Numeral[n + 1]>>
    <3>1. \A d \in Digits : <<d>> \in Seq(Digits)
      OBVIOUS
    <3> QED
      BY <3>1, DigitOfNumeral
  <2>2. Number(s, 10) = n /\ n \in -IntMax .. IntMax
    BY <1>1, <2>1, OneDigit
  <2> QED
    BY <2>1, <2>2, LengthIsInt
<1> QED
  BY <1>2, <1>3, <1>4

---------------------------------------------------------------------------
(* Reading a text from one state of the parser to another *)

\* f is what becomes of parser p as it reads text s, which ends at q.
Trace(f, p, s, q) ==
  /\ f[0] = p /\ f[Len(s)] = q
  /\ \A k \in 1 .. Len(s) : f[k - 1].result = "incomplete" /\ f[k] = consume(f[k - 1], s[k])

ReadsTo(p, s, q) == \E f : Trace(f, p, s, q)

\* Parser p takes lexeme c and is q.
Takes(p, c, q) == p.result = "incomplete" /\ q = consume(p, c)

LEMMA NothingRead == ASSUME NEW p PROVE ReadsTo(p, <<>>, p)
<1> DEFINE f == [k \in 0 .. 0 |-> p]
<1>1. Trace(f, p, <<>>, p)
  BY EmptySeq DEF Trace
<1> QED
  BY <1>1 DEF ReadsTo

LEMMA ReadsBoth ==
  ASSUME NEW s \in Text, NEW t \in Text, NEW p, NEW q, NEW r,
         ReadsTo(p, s, q), ReadsTo(q, t, r)
  PROVE  ReadsTo(p, s \o t, r)
<1>1. PICK f, g : Trace(f, p, s, q) /\ Trace(g, q, t, r)
  BY DEF ReadsTo
<1>2. PICK m \in Nat, n \in Nat : m = Len(s) /\ n = Len(t)
  BY LenProperties DEF Text
<1>3. /\ Len(s \o t) = m + n
      /\ \A k \in 1 .. m + n : (s \o t)[k] = IF k <= m THEN s[k] ELSE t[k - m]
  BY <1>2, ConcatProperties DEF Text
<1> DEFINE h == [k \in 0 .. m + n |-> IF k <= m THEN f[k] ELSE g[k - m]]
<1>4. \A k \in 0 .. m + n : h[k] = IF k <= m THEN f[k] ELSE g[k - m]
  OBVIOUS
<1> HIDE DEF h
<1>5. f[0] = p /\ f[m] = q /\ g[0] = q /\ g[n] = r
  BY <1>1, <1>2 DEF Trace
<1>6. h[0] = p
  BY <1>4, <1>5
<1>7. h[m + n] = r
  <2>1. CASE n = 0
    BY <1>4, <1>5, <2>1
  <2>2. CASE n # 0
    <3>1. ~(m + n <= m) /\ (m + n) - m = n /\ m + n \in 0 .. m + n
      BY <2>2
    <3> QED
      BY <1>4, <1>5, <3>1
  <2> QED
    BY <2>1, <2>2
<1>8. ASSUME NEW k \in 1 .. m + n
      PROVE  h[k - 1].result = "incomplete" /\ h[k] = consume(h[k - 1], (s \o t)[k])
  <2>1. CASE k <= m
    <3>1. k \in 1 .. m /\ k - 1 \in 0 .. m + n /\ k - 1 <= m /\ k \in 0 .. m + n
      BY <2>1
    <3>2. h[k - 1] = f[k - 1] /\ h[k] = f[k] /\ (s \o t)[k] = s[k]
      BY <1>3, <1>4, <2>1, <3>1
    <3>3. f[k - 1].result = "incomplete" /\ f[k] = consume(f[k - 1], s[k])
      BY <1>1, <1>2, <3>1 DEF Trace
    <3> QED
      BY <3>2, <3>3
  <2>2. CASE ~(k <= m)
    <3>1. k - m \in 1 .. n /\ k - 1 \in 0 .. m + n /\ k \in 0 .. m + n /\ (k - m) - 1 = (k - 1) - m
      BY <2>2
    <3>2. h[k] = g[k - m] /\ (s \o t)[k] = t[k - m]
      BY <1>3, <1>4, <2>2, <3>1
    <3>3. h[k - 1] = g[(k - m) - 1]
      <4>1. CASE k - 1 = m
        <5>1. k - 1 <= m /\ (k - m) - 1 = 0
          BY <4>1
        <5> QED
          BY <1>4, <1>5, <3>1, <4>1, <5>1
      <4>2. CASE k - 1 # m
        <5>1. ~(k - 1 <= m)
          BY <2>2, <4>2
        <5> QED
          BY <1>4, <3>1, <5>1
      <4> QED
        BY <4>1, <4>2
    <3>4. g[(k - m) - 1].result = "incomplete" /\ g[k - m] = consume(g[(k - m) - 1], t[k - m])
      BY <1>1, <1>2, <3>1 DEF Trace
    <3> QED
      BY <3>2, <3>3, <3>4
  <2> QED
    BY <2>1, <2>2
<1>9. Trace(h, p, s \o t, r)
  BY <1>3, <1>6, <1>7, <1>8 DEF Trace
<1> QED
  BY <1>9 DEF ReadsTo

LEMMA ReadsOne == ASSUME NEW p, NEW a, NEW q, Takes(p, a, q) PROVE ReadsTo(p, <<a>>, q)
<1> DEFINE f == [k \in 0 .. 1 |-> IF k = 0 THEN p ELSE q]
<1>1. Len(<<a>>) = 1 /\ <<a>>[1] = a /\ f[0] = p /\ f[1] = q /\ \A k \in 1 .. 1 : k = 1
  OBVIOUS
<1> HIDE DEF f
<1>2. Trace(f, p, <<a>>, q)
  BY <1>1 DEF Trace, Takes
<1> QED
  BY <1>2 DEF ReadsTo

LEMMA ReadsTwo ==
  ASSUME NEW p, NEW a, NEW b, NEW q, NEW r, Takes(p, a, q), Takes(q, b, r)
  PROVE  ReadsTo(p, <<a, b>>, r)
<1> DEFINE f == [k \in 0 .. 2 |-> IF k = 0 THEN p ELSE IF k = 1 THEN q ELSE r]
<1>1. /\ Len(<<a, b>>) = 2 /\ <<a, b>>[1] = a /\ <<a, b>>[2] = b
      /\ f[0] = p /\ f[1] = q /\ f[2] = r /\ \A k \in 1 .. 2 : k = 1 \/ k = 2
  OBVIOUS
<1> HIDE DEF f
<1>2. Trace(f, p, <<a, b>>, r)
  BY <1>1 DEF Trace, Takes
<1> QED
  BY <1>2 DEF ReadsTo

LEMMA ReadsFour ==
  ASSUME NEW p, NEW a, NEW b, NEW c, NEW d, NEW q, NEW r, NEW t, NEW u,
         Takes(p, a, q), Takes(q, b, r), Takes(r, c, t), Takes(t, d, u)
  PROVE  ReadsTo(p, <<a, b, c, d>>, u)
<1> DEFINE f == [k \in 0 .. 4 |-> IF k = 0 THEN p ELSE IF k = 1 THEN q
                                   ELSE IF k = 2 THEN r ELSE IF k = 3 THEN t ELSE u]
<1>1. /\ Len(<<a, b, c, d>>) = 4 /\ <<a, b, c, d>>[1] = a /\ <<a, b, c, d>>[2] = b
      /\ <<a, b, c, d>>[3] = c /\ <<a, b, c, d>>[4] = d
  OBVIOUS
<1>2. /\ f[0] = p /\ f[1] = q /\ f[2] = r /\ f[3] = t /\ f[4] = u
      /\ \A k \in 1 .. 4 : k = 1 \/ k = 2 \/ k = 3 \/ k = 4
  OBVIOUS
<1> HIDE DEF f
<1>3. Trace(f, p, <<a, b, c, d>>, u)
  BY <1>1, <1>2 DEF Trace, Takes
<1> QED
  BY <1>3 DEF ReadsTo

LEMMA ReadsFive ==
  ASSUME NEW p, NEW a, NEW b, NEW c, NEW d, NEW e, NEW q, NEW r, NEW t, NEW u, NEW v,
         Takes(p, a, q), Takes(q, b, r), Takes(r, c, t), Takes(t, d, u), Takes(u, e, v)
  PROVE  ReadsTo(p, <<a, b, c, d, e>>, v)
<1> DEFINE f == [k \in 0 .. 5 |-> IF k = 0 THEN p ELSE IF k = 1 THEN q
                                   ELSE IF k = 2 THEN r ELSE IF k = 3 THEN t
                                   ELSE IF k = 4 THEN u ELSE v]
<1>1. /\ Len(<<a, b, c, d, e>>) = 5 /\ <<a, b, c, d, e>>[1] = a /\ <<a, b, c, d, e>>[2] = b
      /\ <<a, b, c, d, e>>[3] = c /\ <<a, b, c, d, e>>[4] = d /\ <<a, b, c, d, e>>[5] = e
  OBVIOUS
<1>2. /\ f[0] = p /\ f[1] = q /\ f[2] = r /\ f[3] = t /\ f[4] = u /\ f[5] = v
      /\ \A k \in 1 .. 5 : k = 1 \/ k = 2 \/ k = 3 \/ k = 4 \/ k = 5
  OBVIOUS
<1> HIDE DEF f
<1>3. Trace(f, p, <<a, b, c, d, e>>, v)
  BY <1>1, <1>2 DEF Trace, Takes
<1> QED
  BY <1>3 DEF ReadsTo

\* What the start line of a message says: a request has no status.
CodeOf(method) == IF method \in Requests THEN 0 ELSE 200
StatusOf(method) == IF method \in Requests THEN <<>> ELSE <<"OK">>

\* The parser of a message of which nothing has been refused: it has read the
\* headers hs and the content body, n of it and k of its chunk are left.
Made(state, method, hs, n, chunked, body, size, k) ==
  [method |-> method, state |-> state, statusCode |-> CodeOf(method),
   status |-> StatusOf(method), headers |-> hs, content |-> body,
   result |-> "incomplete", contentSize |-> n, chunkSizeStr |-> size, chunkSize |-> k,
   chunked |-> chunked]

LEMMA MadeTo ==
  \A st, m, hs, n, ch, b, s, k, new :
    To(Made(st, m, hs, n, ch, b, s, k), new) = Made(new, m, hs, n, ch, b, s, k)
BY DEF Made, To

\* Before a body.
Heading(state, method, hs, n, chunked) ==
  Made(state, method, hs, n, chunked, <<>>, <<>>, 0)

LEMMA HeadingFields ==
  \A st, m, hs, n, ch :
    /\ Heading(st, m, hs, n, ch).state = st /\ Heading(st, m, hs, n, ch).method = m
    /\ Heading(st, m, hs, n, ch).headers = hs /\ Heading(st, m, hs, n, ch).contentSize = n
    /\ Heading(st, m, hs, n, ch).chunked = ch /\ Heading(st, m, hs, n, ch).content = <<>>
    /\ Heading(st, m, hs, n, ch).result = "incomplete"
BY DEF Heading, Made

LEMMA HeadingTo ==
  \A st, m, hs, n, ch, new : To(Heading(st, m, hs, n, ch), new) = Heading(new, m, hs, n, ch)
BY DEF Heading, Made, To

LEMMA HeadingChanged ==
  \A st, m, hs, n, ch, new :
    /\ [Heading(st, m, hs, n, ch) EXCEPT !.headers = new] = Heading(st, m, new, n, ch)
    /\ [Heading(st, m, hs, n, ch) EXCEPT !.contentSize = new] = Heading(st, m, hs, new, ch)
    /\ [Heading(st, m, hs, n, ch) EXCEPT !.chunked = new] = Heading(st, m, hs, n, new)
BY DEF Heading, Made

MethodOf(start) == IF start \in Requests THEN start ELSE "none"

\* The parser of a message of which the start line is being read.
Answer(state, code, status, none, zero, no) ==
  [method |-> "none", state |-> state, statusCode |-> code, status |-> status,
   headers |-> none, content |-> none, result |-> "incomplete",
   contentSize |-> zero, chunkSizeStr |-> none, chunkSize |-> zero, chunked |-> no]

LEMMA AnswerFields ==
  ASSUME NEW st, NEW code, NEW status, NEW none, NEW zero, NEW no,
         NEW p, p = Answer(st, code, status, none, zero, no)
  PROVE  /\ p.state = st /\ p.result = "incomplete" /\ p.statusCode = code /\ p.status = status
         /\ \A new :
              /\ To(p, new) = Answer(new, code, status, none, zero, no)
              /\ [p EXCEPT !.statusCode = new] = Answer(st, new, status, none, zero, no)
              /\ [p EXCEPT !.status = new] = Answer(st, code, new, none, zero, no)
BY DEF Answer, To

LEMMA AnswerMade ==
  ASSUME NEW st, NEW m, NEW code, NEW status, NEW none, NEW zero, NEW no,
         CodeOf(m) = code, StatusOf(m) = status,
         NEW p, p = Answer(st, code, status, none, zero, no)
  PROVE  [p EXCEPT !.method = m] = Made(st, m, none, zero, no, none, none, zero)
BY DEF Answer, Made

LEMMA StartTaken ==
  ASSUME NEW start \in Requests, NEW no, no = FALSE
  PROVE  Takes(NewParser(start), start, Heading("RequestUri", start, <<>>, 0, no))
<1>1. PICK none, zero : none = <<>> /\ zero = 0
  OBVIOUS
<1>2. PICK p, q : /\ p = Answer("RequestMethodStart", zero, none, none, zero, no)
                  /\ q = Answer("RequestUri", zero, none, none, zero, no)
  OBVIOUS
<1>3. p.state = "RequestMethodStart" /\ p.result = "incomplete" /\ To(p, "RequestUri") = q
  BY <1>2, AnswerFields
<1>4. NewParser(start) = p
  BY <1>1, <1>2 DEF NewParser, Answer
<1>5. CodeOf(start) = zero /\ StatusOf(start) = none
  BY <1>1 DEF CodeOf, StatusOf
<1>6. [q EXCEPT !.method = start] = Made("RequestUri", start, none, zero, no, none, none, zero)
  BY <1>2, <1>5, AnswerMade
<1>7. Made("RequestUri", start, none, zero, no, none, none, zero)
        = Heading("RequestUri", start, <<>>, 0, no)
  BY <1>1 DEF Heading
<1>8. consume(p, start) = [To(p, "RequestUri") EXCEPT !.method = start]
  BY <1>3 DEF consume, RequestLine
<1> QED
  BY <1>3, <1>4, <1>6, <1>7, <1>8 DEF Takes

\* The lexemes of a status line, one by one.
LEMMA AnswerTaken ==
  ASSUME NEW none, none = <<>>, NEW zero, NEW no, NEW ok, ok = <<"OK">>
  PROVE  /\ Takes(Answer("ResponseStatusStart", zero, none, none, zero, no), "HTTP/1.1",
                  Answer("ResponseHttpVersion_minor", zero, none, none, zero, no))
         /\ Takes(Answer("ResponseHttpVersion_minor", zero, none, none, zero, no), "SP",
                  Answer("ResponseHttpVersion_statusCodeStart", zero, none, none, zero, no))
         /\ Takes(Answer("ResponseHttpVersion_statusCodeStart", zero, none, none, zero, no), "2",
                  Answer("ResponseHttpVersion_statusCode", 2, none, none, zero, no))
         /\ Takes(Answer("ResponseHttpVersion_statusCode", 2, none, none, zero, no), "0",
                  Answer("ResponseHttpVersion_statusCode", 20, none, none, zero, no))
         /\ Takes(Answer("ResponseHttpVersion_statusCode", 20, none, none, zero, no), "0",
                  Answer("ResponseHttpVersion_statusCode", 200, none, none, zero, no))
         /\ Takes(Answer("ResponseHttpVersion_statusCode", 200, none, none, zero, no), "SP",
                  Answer("ResponseHttpVersion_statusTextStart", 200, none, none, zero, no))
         /\ Takes(Answer("ResponseHttpVersion_statusTextStart", 200, none, none, zero, no), "OK",
                  Answer("ResponseHttpVersion_statusText", 200, ok, none, zero, no))
<1>1. Takes(Answer("ResponseStatusStart", zero, none, none, zero, no), "HTTP/1.1",
            Answer("ResponseHttpVersion_minor", zero, none, none, zero, no))
  <2>1. PICK p, q : /\ p = Answer("ResponseStatusStart", zero, none, none, zero, no)
                    /\ q = Answer("ResponseHttpVersion_minor", zero, none, none, zero, no)
    OBVIOUS
  <2>2. p.state = "ResponseStatusStart" /\ p.result = "incomplete"
        /\ To(p, "ResponseHttpVersion_minor") = q
    BY <2>1, AnswerFields
  <2> QED
    BY <2>1, <2>2, ReadsStatusLine DEF Takes
<1>2. Takes(Answer("ResponseHttpVersion_minor", zero, none, none, zero, no), "SP",
            Answer("ResponseHttpVersion_statusCodeStart", zero, none, none, zero, no))
  <2>1. PICK p, q : /\ p = Answer("ResponseHttpVersion_minor", zero, none, none, zero, no)
                    /\ q = Answer("ResponseHttpVersion_statusCodeStart", zero, none, none, zero, no)
    OBVIOUS
  <2>2. p.state = "ResponseHttpVersion_minor" /\ p.result = "incomplete"
        /\ To(p, "ResponseHttpVersion_statusCodeStart") = q
    BY <2>1, AnswerFields
  <2> QED
    BY <2>1, <2>2, ReadsStatusLine DEF Takes
<1>3. Takes(Answer("ResponseHttpVersion_statusCodeStart", zero, none, none, zero, no), "2",
            Answer("ResponseHttpVersion_statusCode", 2, none, none, zero, no))
  <2>1. PICK p, q, r : /\ p = Answer("ResponseHttpVersion_statusCodeStart", zero, none, none, zero, no)
                       /\ r = Answer("ResponseHttpVersion_statusCode", zero, none, none, zero, no)
                       /\ q = Answer("ResponseHttpVersion_statusCode", 2, none, none, zero, no)
    OBVIOUS
  <2>2. p.state = "ResponseHttpVersion_statusCodeStart" /\ p.result = "incomplete"
    BY <2>1, AnswerFields
  <2>3. To(p, "ResponseHttpVersion_statusCode") = r
    BY <2>1, AnswerFields
  <2>4. [r EXCEPT !.statusCode = 2] = q
    BY <2>1, AnswerFields
  <2>5. consume(p, "2") = [To(p, "ResponseHttpVersion_statusCode") EXCEPT !.statusCode = 2]
    BY <2>2, ReadsStatusLine
  <2> QED
    BY <2>1, <2>2, <2>3, <2>4, <2>5 DEF Takes
<1>4. Takes(Answer("ResponseHttpVersion_statusCode", 2, none, none, zero, no), "0",
            Answer("ResponseHttpVersion_statusCode", 20, none, none, zero, no))
  <2>1. PICK p, q : /\ p = Answer("ResponseHttpVersion_statusCode", 2, none, none, zero, no)
                    /\ q = Answer("ResponseHttpVersion_statusCode", 20, none, none, zero, no)
    OBVIOUS
  <2>2. p.state = "ResponseHttpVersion_statusCode" /\ p.result = "incomplete"
        /\ p.statusCode = 2 /\ [p EXCEPT !.statusCode = 20] = q
    BY <2>1, AnswerFields
  <2> QED
    BY <2>1, <2>2, ReadsStatusLine DEF Takes
<1>5. Takes(Answer("ResponseHttpVersion_statusCode", 20, none, none, zero, no), "0",
            Answer("ResponseHttpVersion_statusCode", 200, none, none, zero, no))
  <2>1. PICK p, q : /\ p = Answer("ResponseHttpVersion_statusCode", 20, none, none, zero, no)
                    /\ q = Answer("ResponseHttpVersion_statusCode", 200, none, none, zero, no)
    OBVIOUS
  <2>2. p.state = "ResponseHttpVersion_statusCode" /\ p.result = "incomplete"
        /\ p.statusCode = 20 /\ [p EXCEPT !.statusCode = 200] = q
    BY <2>1, AnswerFields
  <2> QED
    BY <2>1, <2>2, ReadsStatusLine DEF Takes
<1>6. Takes(Answer("ResponseHttpVersion_statusCode", 200, none, none, zero, no), "SP",
            Answer("ResponseHttpVersion_statusTextStart", 200, none, none, zero, no))
  <2>1. PICK p, q : /\ p = Answer("ResponseHttpVersion_statusCode", 200, none, none, zero, no)
                    /\ q = Answer("ResponseHttpVersion_statusTextStart", 200, none, none, zero, no)
    OBVIOUS
  <2>2. p.state = "ResponseHttpVersion_statusCode" /\ p.result = "incomplete"
        /\ p.statusCode = 200 /\ To(p, "ResponseHttpVersion_statusTextStart") = q
    BY <2>1, AnswerFields
  <2> QED
    BY <2>1, <2>2, ReadsStatusLine DEF Takes
<1>7. Takes(Answer("ResponseHttpVersion_statusTextStart", 200, none, none, zero, no), "OK",
            Answer("ResponseHttpVersion_statusText", 200, ok, none, zero, no))
  <2>1. PICK p, q, r : /\ p = Answer("ResponseHttpVersion_statusTextStart", 200, none, none, zero, no)
                       /\ r = Answer("ResponseHttpVersion_statusText", 200, none, none, zero, no)
                       /\ q = Answer("ResponseHttpVersion_statusText", 200, ok, none, zero, no)
    OBVIOUS
  <2>2. p.state = "ResponseHttpVersion_statusTextStart" /\ p.result = "incomplete"
    BY <2>1, AnswerFields
  <2>3. To(p, "ResponseHttpVersion_statusText") = r /\ r.status = none
    BY <2>1, AnswerFields
  <2>4. [r EXCEPT !.status = ok] = q
    <3>1. \A new : [r EXCEPT !.status = new]
                     = Answer("ResponseHttpVersion_statusText", 200, new, none, zero, no)
      BY <2>1, AnswerFields
    <3> QED
      BY ONLY <2>1, <3>1
  <2>5. consume(p, "OK") = [To(p, "ResponseHttpVersion_statusText") EXCEPT !.status = Append(@, "OK")]
    BY <2>2, ReadsStatusLine
  <2>6. Append(<<>>, "OK") = <<"OK">>
    OBVIOUS
  <2>7. consume(p, "OK") = [r EXCEPT !.status = ok]
    BY <2>3, <2>5, <2>6
  <2> QED
    BY <2>1, <2>2, <2>4, <2>7 DEF Takes
<1> QED
  BY <1>1, <1>2, <1>3, <1>4, <1>5, <1>6, <1>7

LEMMA ReadsSix ==
  ASSUME NEW p, NEW a, NEW b, NEW c, NEW d, NEW e, NEW g,
         NEW q, NEW r, NEW t, NEW u, NEW v, NEW w,
         Takes(p, a, q), Takes(q, b, r), Takes(r, c, t), Takes(t, d, u), Takes(u, e, v),
         Takes(v, g, w)
  PROVE  ReadsTo(p, <<a, b, c, d, e, g>>, w)
<1> DEFINE f == [k \in 0 .. 6 |-> IF k = 0 THEN p ELSE IF k = 1 THEN q
                                   ELSE IF k = 2 THEN r ELSE IF k = 3 THEN t
                                   ELSE IF k = 4 THEN u ELSE IF k = 5 THEN v ELSE w]
           s == <<a, b, c, d, e, g>>
<1>1. /\ Len(s) = 6 /\ s[1] = a /\ s[2] = b /\ s[3] = c /\ s[4] = d /\ s[5] = e /\ s[6] = g
  OBVIOUS
<1>2. /\ f[0] = p /\ f[1] = q /\ f[2] = r /\ f[3] = t /\ f[4] = u /\ f[5] = v /\ f[6] = w
      /\ \A k \in 1 .. 6 : k = 1 \/ k = 2 \/ k = 3 \/ k = 4 \/ k = 5 \/ k = 6
  OBVIOUS
<1> HIDE DEF f, s
<1>3. Trace(f, p, s, w)
  BY <1>1, <1>2 DEF Trace, Takes
<1> QED
  BY <1>3 DEF ReadsTo, s

LEMMA AnswerRead ==
  ASSUME NEW no, no = FALSE, NEW start, start = "HTTP/1.1", NEW ok \in Text, ok = <<"OK">>,
         NEW line \in Text, line = <<start, "SP", "2", "0", "0", "SP">>
  PROVE  /\ line \o ok \in Text
         /\ ReadsTo(NewParser(start), line \o ok,
                    Heading("ResponseHttpVersion_statusText", "none", <<>>, 0, no))
<1>1. PICK none, zero : none = <<>> /\ zero = 0
  OBVIOUS
<1>2. PICK p, q, r : /\ p = Answer("ResponseStatusStart", zero, none, none, zero, no)
                     /\ q = Answer("ResponseHttpVersion_statusTextStart", 200, none, none, zero, no)
                     /\ r = Answer("ResponseHttpVersion_statusText", 200, ok, none, zero, no)
  OBVIOUS
<1>3. ReadsTo(p, line, q)
  <2>1. PICK p1, p2, p3, p4, p5 :
          /\ p1 = Answer("ResponseHttpVersion_minor", zero, none, none, zero, no)
          /\ p2 = Answer("ResponseHttpVersion_statusCodeStart", zero, none, none, zero, no)
          /\ p3 = Answer("ResponseHttpVersion_statusCode", 2, none, none, zero, no)
          /\ p4 = Answer("ResponseHttpVersion_statusCode", 20, none, none, zero, no)
          /\ p5 = Answer("ResponseHttpVersion_statusCode", 200, none, none, zero, no)
    OBVIOUS
  <2>2. /\ Takes(p, start, p1) /\ Takes(p1, "SP", p2) /\ Takes(p2, "2", p3)
        /\ Takes(p3, "0", p4) /\ Takes(p4, "0", p5) /\ Takes(p5, "SP", q)
    BY <1>1, <1>2, <2>1, AnswerTaken
  <2> QED
    BY <2>2, ReadsSix
<1>4. ReadsTo(q, ok, r)
  <2>1. Takes(q, "OK", r)
    BY <1>1, <1>2, AnswerTaken
  <2> QED
    BY <2>1, ReadsOne
<1>5. NewParser(start) = p
  <2>1. start \notin Requests
    BY DEF Requests
  <2> QED
    BY <1>1, <1>2, <2>1 DEF NewParser, Answer
<1>6. r = Heading("ResponseHttpVersion_statusText", "none", <<>>, 0, no)
  <2>1. PICK m, code : m = "none" /\ code = 200 /\ CodeOf(m) = code /\ StatusOf(m) = ok
    BY DEF CodeOf, StatusOf, Requests
  <2>2. r = Made("ResponseHttpVersion_statusText", m, none, zero, no, none, none, zero)
    BY <1>2, <2>1 DEF Answer, Made
  <2> QED
    BY <1>1, <2>1, <2>2 DEF Heading
<1> QED
  BY <1>3, <1>4, <1>5, <1>6, ReadsBoth, ConcatIsText

LEMMA VersionTaken ==
  ASSUME NEW m, NEW hs, NEW n, NEW ch
  PROVE  LET Now(st) == Heading(st, m, hs, n, ch)
         IN  /\ Takes(Now("RequestUri"), "HTTP/1.1", Now("RequestHttpVersion_minor"))
             /\ Takes(Now("RequestHttpVersion_minor"), "CR", Now("HttpVersion_newLine"))
             /\ Takes(Now("ResponseHttpVersion_statusText"), "CR", Now("HttpVersion_newLine"))
             /\ Takes(Now("HttpVersion_newLine"), "LF", Now("HeaderLineStart"))
<1> DEFINE Now(st) == Heading(st, m, hs, n, ch)
<1>1. \A st : Now(st).state = st /\ Now(st).result = "incomplete"
  BY HeadingFields
<1>2. \A st, new : To(Now(st), new) = Now(new)
  BY HeadingTo
<1> HIDE DEF Now
<1>3. Takes(Now("RequestUri"), "HTTP/1.1", Now("RequestHttpVersion_minor"))
  <2>1. consume(Now("RequestUri"), "HTTP/1.1") = To(Now("RequestUri"), "RequestHttpVersion_minor")
    BY <1>1 DEF consume, RequestLine
  <2> QED
    BY <1>1, <1>2, <2>1 DEF Takes
<1>4. Takes(Now("RequestHttpVersion_minor"), "CR", Now("HttpVersion_newLine"))
  <2>1. "CR" \notin Digits
    BY DEF Digits, ToSet, Numeral
  <2>2. consume(Now("RequestHttpVersion_minor"), "CR")
          = To(Now("RequestHttpVersion_minor"), "HttpVersion_newLine")
    BY <1>1, <2>1 DEF consume, RequestLine, Expect
  <2> QED
    BY <1>1, <1>2, <2>2 DEF Takes
<1>5. Takes(Now("ResponseHttpVersion_statusText"), "CR", Now("HttpVersion_newLine"))
  <2>1. consume(Now("ResponseHttpVersion_statusText"), "CR")
          = To(Now("ResponseHttpVersion_statusText"), "HttpVersion_newLine")
    BY <1>1 DEF consume, StatusLine
  <2> QED
    BY <1>1, <1>2, <2>1 DEF Takes
<1>6. Takes(Now("HttpVersion_newLine"), "LF", Now("HeaderLineStart"))
  <2>1. consume(Now("HttpVersion_newLine"), "LF") = To(Now("HttpVersion_newLine"), "HeaderLineStart")
    BY <1>1 DEF consume, Header, Expect
  <2> QED
    BY <1>1, <1>2, <2>1 DEF Takes
<1> QED
  BY <1>3, <1>4, <1>5, <1>6 DEF Now

LEMMA StartRead ==
  ASSUME NEW m, NEW no, no = FALSE, m.start \in Requests \cup {"HTTP/1.1"},
         m.extra # "reasonless"
  PROVE  /\ StartLine(m) \in Text
         /\ ReadsTo(NewParser(m.start), StartLine(m),
                    Heading("HeaderLineStart", MethodOf(m.start), <<>>, 0, no))
<1> DEFINE method == MethodOf(m.start)
           Now(st) == Heading(st, method, <<>>, 0, no)
<1>1. CASE m.start \in Requests
  <2>0. m.start \in Lexemes /\ "HTTP/1.1" \in Lexemes /\ "CR" \in Lexemes /\ "LF" \in Lexemes
    BY <1>1 DEF Lexemes
  <2>1. method = m.start
    BY <1>1 DEF MethodOf
  <2>2. Takes(NewParser(m.start), m.start, Now("RequestUri"))
    BY <1>1, <2>1, StartTaken
  <2>3. /\ Takes(Now("RequestUri"), "HTTP/1.1", Now("RequestHttpVersion_minor"))
        /\ Takes(Now("RequestHttpVersion_minor"), "CR", Now("HttpVersion_newLine"))
        /\ Takes(Now("HttpVersion_newLine"), "LF", Now("HeaderLineStart"))
    BY VersionTaken
  <2> HIDE DEF Now
  <2>4. /\ ReadsTo(NewParser(m.start), <<m.start>>, Now("RequestUri"))
        /\ ReadsTo(Now("RequestUri"), <<"HTTP/1.1">>, Now("RequestHttpVersion_minor"))
        /\ ReadsTo(Now("RequestHttpVersion_minor"), <<"CR", "LF">>, Now("HeaderLineStart"))
    BY <2>2, <2>3, ReadsOne, ReadsTwo
  <2>5. PICK s \in Text, t \in Text, u \in Text :
          s = <<m.start>> /\ t = <<"HTTP/1.1">> /\ u = <<"CR", "LF">>
    BY <2>0, TupleIsText
  <2>6. s \o t \in Text /\ ReadsTo(NewParser(m.start), s \o t, Now("RequestHttpVersion_minor"))
    BY <2>4, <2>5, ReadsBoth, ConcatIsText
  <2>7. /\ (s \o t) \o u \in Text
        /\ ReadsTo(NewParser(m.start), (s \o t) \o u, Now("HeaderLineStart"))
    BY <2>4, <2>5, <2>6, ReadsBoth, ConcatIsText
  <2>8. StartLine(m) = (s \o t) \o u
    BY <1>1, <2>5 DEF StartLine
  <2> QED
    BY <2>7, <2>8 DEF Now
<1>2. CASE m.start \notin Requests
  <2>1. method = "none" /\ m.start = "HTTP/1.1"
    BY <1>2 DEF MethodOf
  <2>2. PICK line \in Text, ok \in Text, u \in Text :
          /\ line = <<m.start, "SP", "2", "0", "0", "SP">> /\ ok = <<"OK">>
          /\ u = <<"CR", "LF">>
    BY <2>1, LexemesAreText
  <2>3. /\ line \o ok \in Text
        /\ ReadsTo(NewParser(m.start), line \o ok, Now("ResponseHttpVersion_statusText"))
    BY <2>1, <2>2, AnswerRead
  <2>4. /\ Takes(Now("ResponseHttpVersion_statusText"), "CR", Now("HttpVersion_newLine"))
        /\ Takes(Now("HttpVersion_newLine"), "LF", Now("HeaderLineStart"))
    BY VersionTaken
  <2> HIDE DEF Now
  <2>5. ReadsTo(Now("ResponseHttpVersion_statusText"), u, Now("HeaderLineStart"))
    BY <2>2, <2>4, ReadsTwo
  <2>6. /\ (line \o ok) \o u \in Text
        /\ ReadsTo(NewParser(m.start), (line \o ok) \o u, Now("HeaderLineStart"))
    BY <2>3, <2>5, ReadsBoth, ConcatIsText
  <2>7. StartLine(m) = (line \o ok) \o u
    BY <1>2, <2>2 DEF StartLine
  <2> QED
    BY <2>6, <2>7 DEF Now
<1> QED
  BY <1>1, <1>2

\* The lexemes of a header line, one by one.
LEMMA LineTaken ==
  ASSUME NEW m, NEW gs, NEW n, NEW ch
  PROVE  LET Now(st) == Heading(st, m, gs, n, ch)
         IN  /\ Takes(Now("HeaderName"), ":", Now("SpaceBeforeHeaderValue"))
             /\ Takes(Now("SpaceBeforeHeaderValue"), "SP", Now("HeaderValue"))
             /\ Takes(Now("HeaderValue"), "CR", HeaderValueEnds(Now("HeaderValue")))
             /\ Takes(Now("ExpectingNewline_2"), "LF", Now("HeaderLineStart"))
             /\ Takes(Now("HeaderLineStart"), "CR", Now("ExpectingNewline_3"))
             /\ gs # <<>> => Takes(Now("HeaderLineStart"), "SP", Now("HeaderLws"))
<1> DEFINE Now(st) == Heading(st, m, gs, n, ch)
<1>1. \A st : Now(st).state = st /\ Now(st).result = "incomplete" /\ Now(st).headers = gs
  BY HeadingFields
<1>2. \A st, new : To(Now(st), new) = Now(new)
  BY HeadingTo
<1> HIDE DEF Now
<1>3. Takes(Now("HeaderName"), ":", Now("SpaceBeforeHeaderValue"))
  <2>1. consume(Now("HeaderName"), ":") = To(Now("HeaderName"), "SpaceBeforeHeaderValue")
    BY <1>1, ReadsHeaders
  <2> QED
    BY <1>1, <1>2, <2>1 DEF Takes
<1>4. Takes(Now("SpaceBeforeHeaderValue"), "SP", Now("HeaderValue"))
  <2>1. consume(Now("SpaceBeforeHeaderValue"), "SP") = To(Now("SpaceBeforeHeaderValue"), "HeaderValue")
    BY <1>1, ReadsHeaders
  <2> QED
    BY <1>1, <1>2, <2>1 DEF Takes
<1>5. Takes(Now("HeaderValue"), "CR", HeaderValueEnds(Now("HeaderValue")))
  <2>1. consume(Now("HeaderValue"), "CR") = HeaderValueEnds(Now("HeaderValue"))
    BY <1>1, ReadsHeaders
  <2> QED
    BY <1>1, <2>1 DEF Takes
<1>6. Takes(Now("ExpectingNewline_2"), "LF", Now("HeaderLineStart"))
  <2>1. consume(Now("ExpectingNewline_2"), "LF") = To(Now("ExpectingNewline_2"), "HeaderLineStart")
    BY <1>1, ReadsHeaders
  <2> QED
    BY <1>1, <1>2, <2>1 DEF Takes
<1>7. Takes(Now("HeaderLineStart"), "CR", Now("ExpectingNewline_3"))
  <2>1. consume(Now("HeaderLineStart"), "CR") = To(Now("HeaderLineStart"), "ExpectingNewline_3")
    BY <1>1, ReadsHeaders
  <2> QED
    BY <1>1, <1>2, <2>1 DEF Takes
<1>8. ASSUME gs # <<>> PROVE Takes(Now("HeaderLineStart"), "SP", Now("HeaderLws"))
  <2>1. consume(Now("HeaderLineStart"), "SP") = To(Now("HeaderLineStart"), "HeaderLws")
    BY <1>1, <1>8, NotTokens DEF consume, Header
  <2> QED
    BY <1>1, <1>2, <2>1 DEF Takes
<1> QED
  BY <1>3, <1>4, <1>5, <1>6, <1>7, <1>8 DEF Now

LEMMA NameTaken ==
  ASSUME NEW m, NEW hs, NEW n, NEW ch, NEW c \in Tokens
  PROVE  Takes(Heading("HeaderLineStart", m, hs, n, ch), c,
               Heading("HeaderName", m, Append(hs, Item(c, <<>>)), n, ch))
<1> DEFINE p == Heading("HeaderLineStart", m, hs, n, ch)
           q == Heading("HeaderName", m, hs, n, ch)
<1>0. PICK gs : gs = Append(hs, Item(c, <<>>))
  OBVIOUS
<1>1. p.state = "HeaderLineStart" /\ p.result = "incomplete" /\ q.headers = hs
  BY HeadingFields
<1>2. To(p, "HeaderName") = q
  BY HeadingTo
<1>3. [q EXCEPT !.headers = gs] = Heading("HeaderName", m, gs, n, ch)
  BY HeadingChanged
<1> HIDE DEF p, q
<1>4. consume(p, c) = Header(p, c)
  BY <1>1 DEF consume
<1>5. c # "CR" /\ c # "SP"
  BY NotTokens
<1>6. Header(p, c) = [To(p, "HeaderName") EXCEPT
                        !.headers = Append(@, [name |-> <<c>>, value |-> <<>>])]
  BY <1>1, <1>5 DEF Header
<1>7. Header(p, c) = [q EXCEPT !.headers = Append(@, [name |-> <<c>>, value |-> <<>>])]
  BY <1>2, <1>6
<1>8. Header(p, c) = [q EXCEPT !.headers = gs]
  BY <1>0, <1>1, <1>7 DEF Item
<1> QED
  BY <1>0, <1>1, <1>3, <1>4, <1>8 DEF Takes, p

\* A lexeme of a value, whichever state it is read from.
LEMMA ValueLengthened ==
  ASSUME NEW st, NEW m, NEW hs \in Seq(Field), NEW n, NEW ch, NEW name \in Tokens,
         NEW v \in Value, NEW c \in Lexemes \ {"CR", "LF"}
  PROVE  AppendToValue(Heading(st, m, Append(hs, Item(name, v)), n, ch), c)
           = Heading(st, m, Append(hs, Item(name, Append(v, c))), n, ch)
<1>1. <<name>> \in Name /\ Append(v, c) \in Value
  BY AppendProperties DEF Name, Value
<1>2. PICK l \in Field, h \in Field : l = Item(name, v) /\ h = Item(name, Append(v, c))
  BY <1>1 DEF Item, Field
<1>3. [l EXCEPT !.value = Append(@, c)] = h
  <2>1. l.name = <<name>> /\ l.value = v
    BY <1>2 DEF Item
  <2>2. [l EXCEPT !.value = Append(@, c)] = [name |-> l.name, value |-> Append(l.value, c)]
    BY ValueReplaced
  <2>3. [l EXCEPT !.value = Append(@, c)] = [name |-> <<name>>, value |-> Append(v, c)]
    BY ONLY <2>1, <2>2, Zenon
  <2> QED
    BY <1>2, <2>3, Zenon DEF Item
<1>4. PICK gs \in Seq(Field) : gs = Append(hs, l) /\ gs[Len(gs)] = l
  BY Appended DEF Last
<1>5. [gs EXCEPT ![Len(gs)] = h] = Append(hs, h)
  BY <1>4, LastReplaced
<1>6. [gs EXCEPT ![Len(gs)].value = Append(@, c)] = [gs EXCEPT ![Len(gs)] = h]
  BY <1>3, <1>4
<1> DEFINE p == Heading(st, m, gs, n, ch)
<1>0. PICK new : new = Append(hs, h)
  OBVIOUS
<1>7. p.headers = gs
  BY HeadingFields
<1>8. [p EXCEPT !.headers = new] = Heading(st, m, new, n, ch)
  BY HeadingChanged
<1> HIDE DEF p
<1>9. AppendToValue(p, c) = [p EXCEPT !.headers = new]
  BY <1>0, <1>5, <1>6, <1>7 DEF AppendToValue
<1> QED
  BY <1>0, <1>2, <1>4, <1>8, <1>9, Zenon DEF p

LEMMA ValueTaken ==
  ASSUME NEW m, NEW hs \in Seq(Field), NEW n, NEW ch, NEW name \in Tokens,
         NEW v \in Value, NEW c \in Lexemes \ {"CR", "LF"}
  PROVE  /\ Takes(Heading("HeaderValue", m, Append(hs, Item(name, v)), n, ch), c,
                  Heading("HeaderValue", m, Append(hs, Item(name, Append(v, c))), n, ch))
         /\ c # "SP" =>
              Takes(Heading("HeaderLws", m, Append(hs, Item(name, v)), n, ch), c,
                    Heading("HeaderValue", m, Append(hs, Item(name, Append(v, c))), n, ch))
<1> DEFINE gs == Append(hs, Item(name, v))
           p == Heading("HeaderValue", m, gs, n, ch)
           q == Heading("HeaderLws", m, gs, n, ch)
           r == Heading("HeaderValue", m, Append(hs, Item(name, Append(v, c))), n, ch)
<1>1. /\ p.state = "HeaderValue" /\ p.result = "incomplete"
      /\ q.state = "HeaderLws" /\ q.result = "incomplete"
  BY HeadingFields
<1>2. To(q, "HeaderValue") = p
  BY HeadingTo
<1>3. AppendToValue(p, c) = r
  BY ValueLengthened
<1> HIDE DEF p, q, r
<1>4. consume(p, c) = AppendToValue(p, c)
  BY <1>1 DEF consume, Header
<1>5. c # "SP" => consume(q, c) = AppendToValue(To(q, "HeaderValue"), c)
  BY <1>1 DEF consume, Header
<1>6. Takes(p, c, r) /\ (c # "SP" => Takes(q, c, r))
  BY <1>1, <1>2, <1>3, <1>4, <1>5 DEF Takes
<1> QED
  BY <1>6 DEF p, q, r

\* What the headers of message m announce: the length of its body, or chunks.
HasLength(m, n) ==
  n = IF m.framing = "length" /\ m.start # "GET" THEN Len(Body(m)) ELSE 0

HasChunks(m, ch) == ch = (m.framing = "chunked" /\ m.start # "GET")

\* What the end of a value makes of the parser.
LEMMA LastItem ==
  ASSUME NEW hs \in Seq(Field), NEW name \in Tokens, NEW v \in Value
  PROVE  /\ Append(hs, Item(name, v)) \in Seq(Field) /\ Append(hs, Item(name, v)) # <<>>
         /\ Last(Append(hs, Item(name, v))) = Item(name, v)
<1>1. <<name>> \in Name
  BY DEF Name
<1>2. Item(name, v) \in Field
  BY <1>1 DEF Item, Field
<1> QED
  BY <1>2, Appended

LEMMA ValueEndsAs ==
  ASSUME NEW m, NEW n, NEW ch, NEW gs, NEW h, h = Last(gs),
         NEW q, q = Heading("ExpectingNewline_2", m, gs, n, ch)
  PROVE  HeaderValueEnds(Heading("HeaderValue", m, gs, n, ch))
           = IF m = "GET" THEN q ELSE FrameBy(q, h)
<1> DEFINE p == Heading("HeaderValue", m, gs, n, ch)
<1>1. p.headers = gs /\ p.method = m /\ q.headers = gs /\ q.method = m
  BY ONLY q = Heading("ExpectingNewline_2", m, gs, n, ch), HeadingFields
<1>2. To(p, "ExpectingNewline_2") = q
  BY HeadingTo
<1> HIDE DEF p
<1>3. HeaderValueEnds(p) = IF m \in Requests THEN RequestFrameBy(q, h) ELSE FrameBy(q, h)
  BY <1>1, <1>2 DEF HeaderValueEnds
<1>4. HeaderValueEnds(p) = IF m = "GET" THEN q ELSE FrameBy(q, h)
  BY <1>1, <1>3 DEF RequestFrameBy, Requests
<1> QED
  BY <1>4 DEF p

LEMMA FramesNothing ==
  ASSUME NEW m, NEW n, NEW ch, NEW gs, NEW h, h = Last(gs),
         \/ m = "GET"
         \/ h.name # <<"Content-Length">> /\ h.name # <<"Transfer-Encoding">>
  PROVE  HeaderValueEnds(Heading("HeaderValue", m, gs, n, ch))
           = Heading("ExpectingNewline_2", m, gs, n, ch)
<1>1. PICK q : q = Heading("ExpectingNewline_2", m, gs, n, ch)
  OBVIOUS
<1>2. HeaderValueEnds(Heading("HeaderValue", m, gs, n, ch))
        = IF m = "GET" THEN q ELSE FrameBy(q, h)
  BY <1>1, ValueEndsAs
<1>3. ASSUME m # "GET" PROVE FrameBy(q, h) = q
  BY <1>3 DEF FrameBy
<1> QED
  BY <1>1, <1>2, <1>3

LEMMA FramesLength ==
  ASSUME NEW m, m # "GET", NEW n, NEW ch, NEW gs, NEW h, h = Last(gs), NEW k \in Nat,
         h.name = <<"Content-Length">>, atoi(h.value) = k
  PROVE  HeaderValueEnds(Heading("HeaderValue", m, gs, n, ch))
           = Heading("ExpectingNewline_2", m, gs, k, ch)
<1>1. PICK q : q = Heading("ExpectingNewline_2", m, gs, n, ch)
  OBVIOUS
<1>2. HeaderValueEnds(Heading("HeaderValue", m, gs, n, ch)) = FrameBy(q, h)
  BY <1>1, ValueEndsAs
<1>3. ~(k < 0) /\ k >= 0
  OBVIOUS
<1>4. FrameBy(q, h) = [q EXCEPT !.contentSize = k]
  BY ONLY <1>3, h.name = <<"Content-Length">>, atoi(h.value) = k DEF FrameBy
<1>5. [q EXCEPT !.contentSize = k] = Heading("ExpectingNewline_2", m, gs, k, ch)
  BY ONLY <1>1, HeadingChanged
<1> QED
  BY ONLY <1>2, <1>4, <1>5

LEMMA FramesChunks ==
  ASSUME NEW m, m # "GET", NEW n, NEW ch, NEW gs, NEW h, h = Last(gs),
         NEW msg, msg.framing = "chunked", msg.start # "GET", NEW yes, HasChunks(msg, yes),
         h.name = <<"Transfer-Encoding">>, h.value = <<"chunked">>
  PROVE  HeaderValueEnds(Heading("HeaderValue", m, gs, n, ch))
           = Heading("ExpectingNewline_2", m, gs, n, yes)
<1>1. PICK q : q = Heading("ExpectingNewline_2", m, gs, n, ch)
  OBVIOUS
<1>2. HeaderValueEnds(Heading("HeaderValue", m, gs, n, ch)) = FrameBy(q, h)
  BY <1>1, ValueEndsAs
<1>3. <<"Transfer-Encoding">> # <<"Content-Length">>
  OBVIOUS
<1>4. FrameBy(q, h) = [q EXCEPT !.chunked = @ \/ h.value = <<"chunked">>]
  BY ONLY <1>3, h.name = <<"Transfer-Encoding">> DEF FrameBy
<1>5. (q.chunked \/ h.value = <<"chunked">>) = yes
  <2>1. yes = TRUE
    BY DEF HasChunks
  <2> QED
    BY ONLY <2>1, h.value = <<"chunked">>
<1>6. [q EXCEPT !.chunked = @ \/ h.value = <<"chunked">>] = [q EXCEPT !.chunked = yes]
  BY ONLY <1>5
<1>7. [q EXCEPT !.chunked = yes] = Heading("ExpectingNewline_2", m, gs, n, yes)
  BY ONLY <1>1, HeadingChanged
<1> QED
  BY ONLY <1>2, <1>4, <1>6, <1>7

Unbroken == Lexemes \ {"CR", "LF"}

LEMMA OneLexeme ==
  \A c \in Unbroken : <<c>> \in Value /\ <<c>> \in Text /\ Append(<<>>, c) = <<c>>
BY DEF Unbroken, Value, Text

\* A header, of which the value has been read up to its end.
LEMMA LineReadTo ==
  ASSUME NEW m, NEW n, NEW ch, NEW r, NEW t \in Text,
         NEW hs \in Seq(Field), NEW name \in Tokens, NEW gs,
         ReadsTo(Heading("HeaderValue", m, Append(hs, Item(name, <<>>)), n, ch), t,
                 Heading("HeaderValue", m, gs, n, ch)),
         NEW n2, NEW ch2,
         HeaderValueEnds(Heading("HeaderValue", m, gs, n, ch))
           = Heading("ExpectingNewline_2", m, gs, n2, ch2)
  PROVE  /\ Line(name, t) \in Text
         /\ ReadsTo(Heading("HeaderLineStart", m, hs, n, ch), Line(name, t),
                    Heading("HeaderLineStart", m, gs, n2, ch2))
<1>1. PICK p1, p2, p3, p4, p5, p6 :
        /\ p1 = Heading("HeaderLineStart", m, hs, n, ch)
        /\ p2 = Heading("HeaderName", m, Append(hs, Item(name, <<>>)), n, ch)
        /\ p3 = Heading("HeaderValue", m, Append(hs, Item(name, <<>>)), n, ch)
        /\ p4 = Heading("HeaderValue", m, gs, n, ch)
        /\ p5 = Heading("ExpectingNewline_2", m, gs, n2, ch2)
        /\ p6 = Heading("HeaderLineStart", m, gs, n2, ch2)
  OBVIOUS
<1>2. PICK p : p = Heading("SpaceBeforeHeaderValue", m, Append(hs, Item(name, <<>>)), n, ch)
  OBVIOUS
<1>3. Takes(p1, name, p2)
  BY <1>1, NameTaken
<1>4. Takes(p2, ":", p) /\ Takes(p, "SP", p3)
  BY <1>1, <1>2, LineTaken
<1>5. Takes(p4, "CR", p5) /\ Takes(p5, "LF", p6)
  <2>1. Takes(p4, "CR", HeaderValueEnds(p4)) /\ Takes(p5, "LF", p6)
    BY <1>1, LineTaken
  <2> QED
    BY <1>1, <2>1
<1>6. PICK a \in Text, b \in Text, c \in Text :
        a = <<name>> /\ b = <<":", "SP">> /\ c = <<"CR", "LF">>
  BY TupleIsText, TokensAreLexemes, LexemesAreText
<1>7. ReadsTo(p1, a, p2) /\ ReadsTo(p2, b, p3) /\ ReadsTo(p3, t, p4) /\ ReadsTo(p4, c, p6)
  BY <1>1, <1>3, <1>4, <1>5, <1>6, ReadsOne, ReadsTwo
<1>8. a \o b \in Text /\ ReadsTo(p1, a \o b, p3)
  BY <1>7, ReadsBoth, ConcatIsText
<1>9. (a \o b) \o t \in Text /\ ReadsTo(p1, (a \o b) \o t, p4)
  BY <1>7, <1>8, ReadsBoth, ConcatIsText
<1>10. ((a \o b) \o t) \o c \in Text /\ ReadsTo(p1, ((a \o b) \o t) \o c, p6)
  BY <1>7, <1>9, ReadsBoth, ConcatIsText
<1>11. Line(name, t) = ((a \o b) \o t) \o c
  BY <1>6 DEF Line, Written, Item
<1> QED
  BY <1>1, <1>10, <1>11

\* A header of one lexeme.
LEMMA ShortLine ==
  ASSUME NEW m, NEW n, NEW ch, NEW hs \in Seq(Field), NEW name \in Tokens, NEW c \in Unbroken,
         NEW gs, gs = Append(hs, Item(name, <<c>>)), NEW n2, NEW ch2,
         HeaderValueEnds(Heading("HeaderValue", m, gs, n, ch))
           = Heading("ExpectingNewline_2", m, gs, n2, ch2)
  PROVE  /\ Line(name, <<c>>) \in Text /\ gs \in Seq(Field)
         /\ ReadsTo(Heading("HeaderLineStart", m, hs, n, ch), Line(name, <<c>>),
                    Heading("HeaderLineStart", m, gs, n2, ch2))
<1>1. PICK v \in Value, t \in Text : v = <<>> /\ t = <<c>> /\ Append(v, c) = t /\ t \in Value
  <2>1. <<>> \in Value
    BY EmptySeq DEF Value
  <2> QED
    BY <2>1, OneLexeme
<1>2. PICK p, q : /\ p = Heading("HeaderValue", m, Append(hs, Item(name, v)), n, ch)
                  /\ q = Heading("HeaderValue", m, Append(hs, Item(name, Append(v, c))), n, ch)
  OBVIOUS
<1>3. Takes(p, c, q)
  BY <1>2, ValueTaken DEF Unbroken
<1>4. ReadsTo(p, t, q)
  BY <1>1, <1>3, ReadsOne
<1>5. ReadsTo(Heading("HeaderValue", m, Append(hs, Item(name, <<>>)), n, ch), t,
              Heading("HeaderValue", m, gs, n, ch))
  BY <1>1, <1>2, <1>4
<1>6. /\ Line(name, t) \in Text
      /\ ReadsTo(Heading("HeaderLineStart", m, hs, n, ch), Line(name, t),
                 Heading("HeaderLineStart", m, gs, n2, ch2))
  BY <1>5, LineReadTo
<1>7. gs \in Seq(Field)
  BY <1>1, LastItem
<1> QED
  BY <1>1, <1>6, <1>7

LEMMA Letters ==
  {"y", "z", "-", "chunked", "0", "1", "2", "private"} \subseteq Unbroken /\ "z" # "SP"
BY TokensAreLexemes DEF Unbroken, Lexemes

\* A header of which the value is folded into two lines.
LEMMA FoldedLine ==
  ASSUME NEW m, NEW n, NEW ch, NEW hs \in Seq(Field)
  PROVE  LET t == <<"y", "CR", "LF", "SP", "z">>
         IN  /\ Line("ETag", t) \in Text
             /\ \E gs \in Seq(Field) :
                  ReadsTo(Heading("HeaderLineStart", m, hs, n, ch), Line("ETag", t),
                          Heading("HeaderLineStart", m, gs, n, ch))
<1> DEFINE y == "y"
           z == "z"
           etag == "ETag"
           sp == "SP"
<1>1. /\ y \in Unbroken /\ z \in Unbroken /\ z # sp /\ etag \in Tokens
      /\ <<etag>> # <<"Content-Length">> /\ <<etag>> # <<"Transfer-Encoding">>
  BY Letters, TokensAreLexemes
<1>2. PICK t \in Text : t = <<y, "CR", "LF", sp, z>>
  BY LexemesAreText
<1> HIDE DEF y, z, etag
<1>3. PICK v0 \in Value, v1 \in Value, v2 \in Value :
        v0 = <<>> /\ v1 = Append(v0, y) /\ v2 = Append(v1, z)
  <2>1. <<>> \in Value
    BY EmptySeq DEF Value
  <2>2. \A v \in Value, c \in Unbroken : Append(v, c) \in Value
    BY AppendProperties DEF Value, Unbroken
  <2> QED
    BY <1>1, <2>1, <2>2
<1>4. PICK g0, g1, g2 : /\ g0 = Append(hs, Item(etag, v0)) /\ g1 = Append(hs, Item(etag, v1))
                        /\ g2 = Append(hs, Item(etag, v2))
  OBVIOUS
<1>5. g1 \in Seq(Field) /\ g1 # <<>> /\ g2 \in Seq(Field)
  BY <1>1, <1>4, LastItem
<1>6. PICK h1, h2 : /\ h1 = Last(g1) /\ h1.name = <<etag>>
                    /\ h2 = Last(g2) /\ h2.name = <<etag>>
  <2>1. Last(g1) = Item(etag, v1) /\ Last(g2) = Item(etag, v2)
    BY <1>1, <1>4, LastItem
  <2> QED
    BY <2>1 DEF Item
<1>7. PICK p0, p1, p2, p3, p4, p5 :
        /\ p0 = Heading("HeaderValue", m, g0, n, ch)
        /\ p1 = Heading("HeaderValue", m, g1, n, ch)
        /\ p2 = Heading("ExpectingNewline_2", m, g1, n, ch)
        /\ p3 = Heading("HeaderLineStart", m, g1, n, ch)
        /\ p4 = Heading("HeaderLws", m, g1, n, ch)
        /\ p5 = Heading("HeaderValue", m, g2, n, ch)
  OBVIOUS
<1>8. Takes(p0, y, p1) /\ Takes(p4, z, p5)
  BY <1>1, <1>3, <1>4, <1>7, ValueTaken DEF Unbroken
<1>9. HeaderValueEnds(p1) = p2
  BY <1>1, <1>6, <1>7, FramesNothing
<1>10. Takes(p1, "CR", p2) /\ Takes(p2, "LF", p3) /\ Takes(p3, sp, p4)
  <2>1. Takes(p1, "CR", HeaderValueEnds(p1)) /\ Takes(p2, "LF", p3) /\ Takes(p3, "SP", p4)
    BY <1>5, <1>7, LineTaken
  <2> QED
    BY <1>9, <2>1
<1>11. ReadsTo(p0, t, p5)
  BY <1>2, <1>8, <1>10, ReadsFive
<1>12. HeaderValueEnds(p5) = Heading("ExpectingNewline_2", m, g2, n, ch)
  BY <1>1, <1>6, <1>7, FramesNothing
<1>13. ReadsTo(Heading("HeaderValue", m, Append(hs, Item(etag, <<>>)), n, ch), t, p5)
  BY <1>3, <1>4, <1>7, <1>11
<1>14. /\ Line(etag, t) \in Text
       /\ ReadsTo(Heading("HeaderLineStart", m, hs, n, ch), Line(etag, t),
                  Heading("HeaderLineStart", m, g2, n, ch))
  BY <1>1, <1>7, <1>12, <1>13, LineReadTo
<1> QED
  BY <1>2, <1>5, <1>14 DEF y, z, etag

\* A header that frames nothing.
LEMMA OtherLine ==
  ASSUME NEW m, NEW n, NEW ch, NEW hs \in Seq(Field), NEW name \in Tokens, NEW c \in Unbroken,
         \/ m = "GET"
         \/ <<name>> # <<"Content-Length">> /\ <<name>> # <<"Transfer-Encoding">>
  PROVE  /\ Line(name, <<c>>) \in Text
         /\ \E gs \in Seq(Field) :
              ReadsTo(Heading("HeaderLineStart", m, hs, n, ch), Line(name, <<c>>),
                      Heading("HeaderLineStart", m, gs, n, ch))
<1>1. PICK gs : gs = Append(hs, Item(name, <<c>>))
  OBVIOUS
<1>2. PICK h : h = Last(gs) /\ h.name = <<name>>
  <2>1. Last(gs) = Item(name, <<c>>)
    BY <1>1, OneLexeme, LastItem
  <2> QED
    BY <2>1 DEF Item
<1>3. HeaderValueEnds(Heading("HeaderValue", m, gs, n, ch))
        = Heading("ExpectingNewline_2", m, gs, n, ch)
  BY <1>2, FramesNothing
<1> QED
  BY <1>1, <1>3, ShortLine

LEMMA FramingNames ==
  /\ "Content-Length" \in Tokens /\ "Transfer-Encoding" \in Tokens /\ "ETag" \in Tokens
  /\ "Last-Modified" \in Tokens /\ "Cache-Control" \in Tokens
BY TokensAreLexemes DEF Tokens, Names, Validators

LEMMA BodyOfMessage ==
  ASSUME NEW m \in Messages
  PROVE  /\ m.chunks \in Seq(Text) /\ Body(m) \in Text
         /\ m.framing = "length" => Len(Body(m)) \in 0 .. 2
<1>1. m.chunks \in Seq(Text)
  BY ChunksAreText
<1>2. Body(m) \in Text
  BY <1>1, FlattenedPieces DEF Body, Text
<1>3. PICK k \in Nat : k = Len(Body(m))
  BY <1>2, LenProperties DEF Text
<1>4. Len(Numeral) = 3
  BY DEF Numeral
<1>5. m.framing = "length" => k < 3
  BY <1>3, <1>4, MessagesAssumption
<1>6. m.framing = "length" => k \in 0 .. 2
  BY <1>5
<1> QED
  BY <1>1, <1>2, <1>3, <1>6

FramingLine(m) ==
  CASE m.framing = "length" -> Line("Content-Length", Size(Body(m)))
    [] m.framing = "chunked" -> Line("Transfer-Encoding", <<"chunked">>)
    [] m.framing = "given" -> Line("Content-Length", m.size)
    [] OTHER -> <<>>

ExtraLines(m) ==
  CASE m.extra = "header" -> Line("Last-Modified", <<"z">>) \o Line("ETag", <<"y">>)
    [] m.extra = "folded" -> Line("ETag", <<"y", "CR", "LF", "SP", "z">>)
    [] m.extra = "private" -> Line("Cache-Control", <<"private">>)
    [] m.extra = "unspaced" -> <<"ETag", ":", "y", "CR", "LF">>
    [] OTHER -> <<>>

LEMMA FramingRead ==
  ASSUME NEW msg \in Messages, msg.framing # "given", NEW no, no = FALSE,
         NEW n, HasLength(msg, n), NEW ch, HasChunks(msg, ch),
         NEW m, m = MethodOf(msg.start)
  PROVE  /\ FramingLine(msg) \in Text
         /\ \E gs \in Seq(Field) :
              ReadsTo(Heading("HeaderLineStart", m, <<>>, 0, no), FramingLine(msg),
                      Heading("HeaderLineStart", m, gs, n, ch))
<1>0. PICK zero : zero = 0
  OBVIOUS
<1>1. PICK hs \in Seq(Field) : hs = <<>>
  BY EmptySeq
<1> DEFINE Read(line) ==
             /\ line \in Text
             /\ \E gs \in Seq(Field) :
                  ReadsTo(Heading("HeaderLineStart", m, hs, zero, no), line,
                          Heading("HeaderLineStart", m, gs, n, ch))
<1> SUFFICES Read(FramingLine(msg))
  BY <1>0, <1>1
<1>2. m = "GET" <=> msg.start = "GET"
  BY SendersAssumption DEF MethodOf, Requests
<1>3. CASE msg.framing = "length"
  <2>1. PICK k \in 0 .. 2 : k = Len(Body(msg))
    BY <1>3, BodyOfMessage
  <2>2. PICK c \in Unbroken : c = Numeral[k + 1] /\ Size(Body(msg)) = <<c>>
    <3>1. Numeral[k + 1] \in {"0", "1", "2"}
      <4>1. k = 0 \/ k = 1 \/ k = 2
        OBVIOUS
      <4> QED
        BY <4>1 DEF Numeral
    <3> QED
      BY <2>1, <3>1, Letters DEF Size
  <2>0. PICK name \in Tokens : name = "Content-Length"
    BY FramingNames
  <2>3. FramingLine(msg) = Line(name, <<c>>)
    BY <1>3, <2>0, <2>2 DEF FramingLine
  <2>4. ch = no
    BY <1>3 DEF HasChunks
  <2>5. CASE m = "GET"
    <3>1. n = zero
      BY <1>0, <1>2, <2>5 DEF HasLength
    <3>2. Read(Line(name, <<c>>))
      BY <2>4, <2>5, <3>1, OtherLine
    <3> QED
      BY <2>3, <3>2
  <2>6. CASE m # "GET"
    <3>1. n = k /\ k \in Nat
      BY <1>2, <1>3, <2>1, <2>6 DEF HasLength
    <3>2. PICK gs : gs = Append(hs, Item(name, <<c>>))
      OBVIOUS
    <3>3. PICK h : h = Last(gs) /\ h.name = <<"Content-Length">> /\ h.value = <<c>>
      <4>1. Last(gs) = Item(name, <<c>>)
        BY <3>2, OneLexeme, LastItem
      <4> QED
        BY <2>0, <4>1 DEF Item
    <3>4. atoi(h.value) = k
      BY <2>2, <3>3, SizesRead
    <3>5. HeaderValueEnds(Heading("HeaderValue", m, gs, zero, no))
            = Heading("ExpectingNewline_2", m, gs, k, no)
      BY <2>6, <3>1, <3>3, <3>4, FramesLength
    <3>6. Read(Line(name, <<c>>))
      <4>1. /\ Line(name, <<c>>) \in Text /\ gs \in Seq(Field)
            /\ ReadsTo(Heading("HeaderLineStart", m, hs, zero, no), Line(name, <<c>>),
                       Heading("HeaderLineStart", m, gs, k, no))
        BY <3>2, <3>5, ShortLine
      <4> QED
        BY <2>4, <3>1, <4>1
    <3> QED
      BY <2>3, <3>6
  <2> QED
    BY <2>5, <2>6
<1>4. CASE msg.framing = "chunked"
  <2>1. PICK c \in Unbroken : c = "chunked"
    BY Letters
  <2>0. PICK name \in Tokens : name = "Transfer-Encoding"
    BY FramingNames
  <2>2. FramingLine(msg) = Line(name, <<c>>)
    BY <1>4, <2>0, <2>1 DEF FramingLine
  <2>3. n = zero
    BY <1>0, <1>4 DEF HasLength
  <2>4. CASE m = "GET"
    <3>1. ch = no
      BY <1>2, <2>4 DEF HasChunks
    <3>2. Read(Line(name, <<c>>))
      BY <2>3, <2>4, <3>1, OtherLine
    <3> QED
      BY <2>2, <3>2
  <2>5. CASE m # "GET"
    <3>1. msg.start # "GET"
      BY <1>2, <2>5
    <3>2. PICK gs : gs = Append(hs, Item(name, <<c>>))
      OBVIOUS
    <3>3. PICK h : h = Last(gs) /\ h.name = <<"Transfer-Encoding">> /\ h.value = <<"chunked">>
      <4>1. Last(gs) = Item(name, <<c>>)
        BY <3>2, OneLexeme, LastItem
      <4> QED
        BY <2>0, <2>1, <4>1 DEF Item
    <3>4. HeaderValueEnds(Heading("HeaderValue", m, gs, zero, no))
            = Heading("ExpectingNewline_2", m, gs, zero, ch)
      BY <1>4, <2>5, <3>1, <3>3, FramesChunks
    <3>5. Read(Line(name, <<c>>))
      <4>1. /\ Line(name, <<c>>) \in Text /\ gs \in Seq(Field)
            /\ ReadsTo(Heading("HeaderLineStart", m, hs, zero, no), Line(name, <<c>>),
                       Heading("HeaderLineStart", m, gs, zero, ch))
        BY <3>2, <3>4, ShortLine
      <4> QED
        BY <2>3, <4>1
    <3> QED
      BY <2>2, <3>5
  <2> QED
    BY <2>4, <2>5
<1>5. CASE msg.framing = "close"
  <2>1. n = zero /\ ch = no
    BY <1>0, <1>5 DEF HasLength, HasChunks
  <2>2. FramingLine(msg) = <<>>
    BY <1>5 DEF FramingLine
  <2> QED
    BY <2>1, <2>2, NothingRead, LexemesAreText
<1> QED
  BY <1>3, <1>4, <1>5, SendersAssumption

LEMMA ExtraRead ==
  ASSUME NEW msg, msg.extra # "unspaced", NEW m, NEW n, NEW ch, NEW hs \in Seq(Field)
  PROVE  /\ ExtraLines(msg) \in Text
         /\ \E gs \in Seq(Field) :
              ReadsTo(Heading("HeaderLineStart", m, hs, n, ch), ExtraLines(msg),
                      Heading("HeaderLineStart", m, gs, n, ch))
<1>1. CASE msg.extra = "header"
  <2>1. PICK y \in Unbroken, z \in Unbroken : y = "y" /\ z = "z"
    BY Letters
  <2>2. PICK a \in Tokens, b \in Tokens :
          /\ a = "Last-Modified" /\ b = "ETag"
          /\ <<a>> # <<"Content-Length">> /\ <<a>> # <<"Transfer-Encoding">>
          /\ <<b>> # <<"Content-Length">> /\ <<b>> # <<"Transfer-Encoding">>
    BY FramingNames
  <2>3. PICK s \in Text, t \in Text : s = Line(a, <<z>>) /\ t = Line(b, <<y>>)
    BY <2>2, OtherLine
  <2>4. PICK fs \in Seq(Field) :
          ReadsTo(Heading("HeaderLineStart", m, hs, n, ch), s,
                  Heading("HeaderLineStart", m, fs, n, ch))
    BY <2>2, <2>3, OtherLine
  <2>5. PICK gs \in Seq(Field) :
          ReadsTo(Heading("HeaderLineStart", m, fs, n, ch), t,
                  Heading("HeaderLineStart", m, gs, n, ch))
    BY <2>2, <2>3, OtherLine
  <2>6. ReadsTo(Heading("HeaderLineStart", m, hs, n, ch), s \o t,
                Heading("HeaderLineStart", m, gs, n, ch))
    BY <2>4, <2>5, ReadsBoth
  <2>7. ExtraLines(msg) = s \o t
    BY <1>1, <2>1, <2>2, <2>3 DEF ExtraLines
  <2> QED
    BY <2>6, <2>7, ConcatIsText
<1>2. CASE msg.extra = "folded"
  <2>1. ExtraLines(msg) = Line("ETag", <<"y", "CR", "LF", "SP", "z">>)
    BY <1>2 DEF ExtraLines
  <2> QED
    BY <2>1, FoldedLine
<1>3. CASE msg.extra = "private"
  <2>1. PICK c \in Unbroken, a \in Tokens :
          /\ c = "private" /\ a = "Cache-Control"
          /\ <<a>> # <<"Content-Length">> /\ <<a>> # <<"Transfer-Encoding">>
    BY Letters, FramingNames
  <2>2. ExtraLines(msg) = Line(a, <<c>>)
    BY <1>3, <2>1 DEF ExtraLines
  <2> QED
    BY <2>1, <2>2, OtherLine
<1>4. CASE msg.extra \notin {"header", "folded", "private"}
  <2>1. ExtraLines(msg) = <<>>
    BY <1>4 DEF ExtraLines
  <2> QED
    BY <2>1, NothingRead, LexemesAreText
<1> QED
  BY <1>1, <1>2, <1>3, <1>4

\* Message m is written as the parsers know it, with the size it has.
Known(m) == m.framing # "given" /\ m.extra \notin Unknown

\* The parser when it has read the headers.
AfterHeaders(m, gs, n, ch) ==
  IF ch THEN Heading("ChunkSize", m, gs, n, ch)
  ELSE IF n # 0 THEN Heading("Post", m, gs, n, ch)
  ELSE Completed(Heading("ExpectingNewline_3", m, gs, n, ch))

LEMMA HeadersEndTaken ==
  ASSUME NEW m, NEW gs, NEW n, NEW ch \in BOOLEAN
  PROVE  Takes(Heading("ExpectingNewline_3", m, gs, n, ch), "LF", AfterHeaders(m, gs, n, ch))
<1> DEFINE p == Heading("ExpectingNewline_3", m, gs, n, ch)
<1>1. /\ p.state = "ExpectingNewline_3" /\ p.result = "incomplete"
      /\ p.contentSize = n /\ p.chunked = ch
  BY HeadingFields
<1>2. \A new : To(p, new) = Heading(new, m, gs, n, ch)
  BY HeadingTo
<1> HIDE DEF p
<1>3. consume(p, "LF") = HeadersEnd(p, "LF")
  BY <1>1 DEF consume
<1>4. CASE ch = TRUE
  <2>1. HeadersEnd(p, "LF") = To(p, "ChunkSize")
    BY <1>1, <1>4 DEF HeadersEnd
  <2>2. AfterHeaders(m, gs, n, ch) = Heading("ChunkSize", m, gs, n, ch)
    BY <1>4 DEF AfterHeaders
  <2> QED
    BY <1>1, <1>2, <1>3, <2>1, <2>2 DEF Takes, p
<1>5. CASE ch = FALSE /\ n # 0
  <2>1. HeadersEnd(p, "LF") = To(p, "Post")
    BY <1>1, <1>5 DEF HeadersEnd
  <2>2. AfterHeaders(m, gs, n, ch) = Heading("Post", m, gs, n, ch)
    BY <1>5 DEF AfterHeaders
  <2> QED
    BY <1>1, <1>2, <1>3, <2>1, <2>2 DEF Takes, p
<1>6. CASE ch = FALSE /\ n = 0
  <2>1. HeadersEnd(p, "LF") = Completed(p)
    BY <1>1, <1>6 DEF HeadersEnd
  <2>2. AfterHeaders(m, gs, n, ch) = Completed(p)
    BY <1>6 DEF AfterHeaders, p
  <2> QED
    BY <1>1, <1>3, <2>1, <2>2 DEF Takes, p
<1> QED
  BY <1>4, <1>5, <1>6

LEMMA HeadRead ==
  ASSUME NEW msg \in Messages, Known(msg),
         NEW n, HasLength(msg, n), NEW ch, HasChunks(msg, ch)
  PROVE  /\ StartLine(msg) \o Headers(msg) \in Text
         /\ \E gs \in Seq(Field) :
              ReadsTo(NewParser(msg.start), StartLine(msg) \o Headers(msg),
                      AfterHeaders(MethodOf(msg.start), gs, n, ch))
<1>1. PICK no : no = FALSE
  OBVIOUS
<1>2. PICK m : m = MethodOf(msg.start)
  OBVIOUS
<1>3. PICK start \in Text :
        /\ start = StartLine(msg)
        /\ ReadsTo(NewParser(msg.start), start, Heading("HeaderLineStart", m, <<>>, 0, no))
  BY <1>1, <1>2, StartRead, SendersAssumption DEF Known, Unknown
<1>4. PICK framing \in Text, fs \in Seq(Field) :
        /\ framing = FramingLine(msg)
        /\ ReadsTo(Heading("HeaderLineStart", m, <<>>, 0, no), framing,
                   Heading("HeaderLineStart", m, fs, n, ch))
  BY <1>1, <1>2, FramingRead DEF Known
<1>5. PICK extra \in Text, gs \in Seq(Field) :
        /\ extra = ExtraLines(msg)
        /\ ReadsTo(Heading("HeaderLineStart", m, fs, n, ch), extra,
                   Heading("HeaderLineStart", m, gs, n, ch))
  BY ExtraRead DEF Known, Unknown
<1>6. PICK q : q = AfterHeaders(m, gs, n, ch)
  OBVIOUS
<1>7. PICK end \in Text :
        end = <<"CR", "LF">> /\ ReadsTo(Heading("HeaderLineStart", m, gs, n, ch), end, q)
  <2>1. Takes(Heading("HeaderLineStart", m, gs, n, ch), "CR",
              Heading("ExpectingNewline_3", m, gs, n, ch))
    BY LineTaken
  <2>2. Takes(Heading("ExpectingNewline_3", m, gs, n, ch), "LF", q)
    <3>1. ch \in BOOLEAN
      BY DEF HasChunks
    <3> QED
      BY <1>6, <3>1, HeadersEndTaken
  <2>3. ReadsTo(Heading("HeaderLineStart", m, gs, n, ch), <<"CR", "LF">>, q)
    BY <2>1, <2>2, ReadsTwo
  <2> QED
    BY <2>3, LexemesAreText
<1>8. /\ framing \o extra \in Text
      /\ ReadsTo(Heading("HeaderLineStart", m, <<>>, 0, no), framing \o extra,
                 Heading("HeaderLineStart", m, gs, n, ch))
  BY <1>4, <1>5, ReadsBoth, ConcatIsText
<1>9. /\ (framing \o extra) \o end \in Text
      /\ ReadsTo(Heading("HeaderLineStart", m, <<>>, 0, no), (framing \o extra) \o end, q)
  BY <1>7, <1>8, ReadsBoth, ConcatIsText
<1>10. /\ start \o ((framing \o extra) \o end) \in Text
       /\ ReadsTo(NewParser(msg.start), start \o ((framing \o extra) \o end), q)
  BY <1>3, <1>9, ReadsBoth, ConcatIsText
<1>11. Headers(msg) = (framing \o extra) \o end
  BY <1>4, <1>5, <1>7 DEF Headers, FramingLine, ExtraLines
<1> QED
  BY <1>2, <1>3, <1>6, <1>10, <1>11

---------------------------------------------------------------------------
(* Reading the body *)

LEMMA MadeFields ==
  \A st, m, hs, n, ch, b, s, k :
    /\ Made(st, m, hs, n, ch, b, s, k).state = st
    /\ Made(st, m, hs, n, ch, b, s, k).result = "incomplete"
    /\ Made(st, m, hs, n, ch, b, s, k).content = b
    /\ Made(st, m, hs, n, ch, b, s, k).contentSize = n
    /\ Made(st, m, hs, n, ch, b, s, k).chunkSizeStr = s
    /\ Made(st, m, hs, n, ch, b, s, k).chunkSize = k
BY DEF Made

LEMMA BothReplaced ==
  \A r, x, y :
    /\ [r EXCEPT !.contentSize = x, !.content = y]
         = [[r EXCEPT !.contentSize = x] EXCEPT !.content = y]
    /\ [r EXCEPT !.chunkSize = x, !.content = y]
         = [[r EXCEPT !.chunkSize = x] EXCEPT !.content = y]
    /\ [r EXCEPT !.chunkSize = x, !.chunkSizeStr = y]
         = [[r EXCEPT !.chunkSize = x] EXCEPT !.chunkSizeStr = y]
OBVIOUS

LEMMA OneReplaced ==
  \A st, m, hs, n, ch, b, s, k, x :
    /\ [Made(st, m, hs, n, ch, b, s, k) EXCEPT !.contentSize = x]
         = Made(st, m, hs, x, ch, b, s, k)
    /\ [Made(st, m, hs, n, ch, b, s, k) EXCEPT !.content = x]
         = Made(st, m, hs, n, ch, x, s, k)
    /\ [Made(st, m, hs, n, ch, b, s, k) EXCEPT !.chunkSizeStr = x]
         = Made(st, m, hs, n, ch, b, x, k)
    /\ [Made(st, m, hs, n, ch, b, s, k) EXCEPT !.chunkSize = x]
         = Made(st, m, hs, n, ch, b, s, x)
BY DEF Made

\* The parser with n of its body left, with k of its chunk left, with a chunk to read.
BodyGrown(p, n, body) == [p EXCEPT !.contentSize = n, !.content = body]
ChunkGrown(p, k, body) == [p EXCEPT !.chunkSize = k, !.content = body]
Measured(p, k, size) == [p EXCEPT !.chunkSize = k, !.chunkSizeStr = size]

LEMMA MadeChanged ==
  \A st, m, hs, n, ch, b, s, k, x, y :
    /\ BodyGrown(Made(st, m, hs, n, ch, b, s, k), x, y) = Made(st, m, hs, x, ch, y, s, k)
    /\ ChunkGrown(Made(st, m, hs, n, ch, b, s, k), x, y) = Made(st, m, hs, n, ch, y, s, x)
    /\ Measured(Made(st, m, hs, n, ch, b, s, k), x, y) = Made(st, m, hs, n, ch, b, y, x)
<1> SUFFICES ASSUME NEW st, NEW m, NEW hs, NEW n, NEW ch, NEW b, NEW s, NEW k, NEW x, NEW y,
                    NEW p, p = Made(st, m, hs, n, ch, b, s, k)
             PROVE  /\ BodyGrown(p, x, y) = Made(st, m, hs, x, ch, y, s, k)
                    /\ ChunkGrown(p, x, y) = Made(st, m, hs, n, ch, y, s, x)
                    /\ Measured(p, x, y) = Made(st, m, hs, n, ch, b, y, x)
  OBVIOUS
<1>1. PICK q, r : /\ q = Made(st, m, hs, x, ch, b, s, k)
                  /\ r = Made(st, m, hs, n, ch, b, s, x)
  OBVIOUS
<1>2. q = [p EXCEPT !.contentSize = x] /\ r = [p EXCEPT !.chunkSize = x]
  BY <1>1, OneReplaced
<1>3. /\ [q EXCEPT !.content = y] = Made(st, m, hs, x, ch, y, s, k)
      /\ [r EXCEPT !.content = y] = Made(st, m, hs, n, ch, y, s, x)
      /\ [r EXCEPT !.chunkSizeStr = y] = Made(st, m, hs, n, ch, b, y, x)
  BY <1>1, OneReplaced
<1>4. /\ [p EXCEPT !.contentSize = x, !.content = y] = [q EXCEPT !.content = y]
      /\ [p EXCEPT !.chunkSize = x, !.content = y] = [r EXCEPT !.content = y]
      /\ [p EXCEPT !.chunkSize = x, !.chunkSizeStr = y] = [r EXCEPT !.chunkSizeStr = y]
  BY <1>2, BothReplaced
<1> QED
  BY <1>3, <1>4 DEF BodyGrown, ChunkGrown, Measured

LEMMA CompletedMade ==
  \A st, m, hs, n, ch, b, s, k :
    /\ Completed(Made(st, m, hs, n, ch, b, s, k)).result = "completed"
    /\ Completed(Made(st, m, hs, n, ch, b, s, k)).content = b
BY DEF Made, Completed

LEMMA TextAssociative ==
  ASSUME NEW a \in Text, NEW b \in Text, NEW c \in Text
  PROVE  (a \o b) \o c = a \o (b \o c)
BY ConcatAssociative DEF Text

\* Text b is followed by the first k of s.
LEMMA PrefixJoined ==
  ASSUME NEW b \in Text, NEW s \in Text, NEW n \in Nat, n = Len(s)
  PROVE  /\ b \o SubSeq(s, 1, 0) = b /\ b \o SubSeq(s, 1, n) = b \o s
         /\ \A k \in 1 .. n : b \o SubSeq(s, 1, k) = Append(b \o SubSeq(s, 1, k - 1), s[k])
<1>1. b \o SubSeq(s, 1, 0) = b /\ b \o SubSeq(s, 1, n) = b \o s
  BY PrefixParts, ConcatEmptySeq DEF Text
<1>2. ASSUME NEW k \in 1 .. n
      PROVE  b \o SubSeq(s, 1, k) = Append(b \o SubSeq(s, 1, k - 1), s[k])
  <2>1. PICK c \in Lexemes : c = s[k]
    BY ElementOfSeq DEF Text
  <2>2. PICK t \in Text : t = SubSeq(s, 1, k - 1)
    <3>1. k - 1 \in 0 .. n
      OBVIOUS
    <3> QED
      BY <3>1, PrefixParts DEF Text
  <2>3. SubSeq(s, 1, k) = Append(t, c)
    <3>1. PICK z \in Seq(Lexemes) : z = s
      BY DEF Text
    <3>2. SubSeq(z, 1, k) = Append(SubSeq(z, 1, k - 1), z[k])
      BY <3>1, PrefixParts
    <3> QED
      BY <2>1, <2>2, <3>1, <3>2
  <2>4. Append(t, c) = t \o <<c>> /\ Append(b \o t, c) = (b \o t) \o <<c>>
    BY ConcatIsText, AppendIsConcat DEF Text
  <2>5. (b \o t) \o <<c>> = b \o (t \o <<c>>)
    <3>1. PICK z \in Text : z = <<c>>
      BY TupleIsText
    <3>2. (b \o t) \o z = b \o (t \o z)
      BY TextAssociative
    <3> QED
      BY <3>1, <3>2
  <2> QED
    BY <2>1, <2>2, <2>3, <2>4, <2>5
<1> QED
  BY <1>1, <1>2

LEMMA PostTaken ==
  ASSUME NEW m, NEW gs, NEW n \in Nat \ {0}, NEW ch, NEW b, NEW c, NEW size, NEW j,
         NEW q, q = Made("Post", m, gs, n - 1, ch, Append(b, c), size, j)
  PROVE  Takes(Made("Post", m, gs, n, ch, b, size, j), c, IF n = 1 THEN Completed(q) ELSE q)
<1> DEFINE p == Made("Post", m, gs, n, ch, b, size, j)
<1>1. /\ p.state = "Post" /\ p.result = "incomplete" /\ p.contentSize = n /\ p.content = b
  BY MadeFields
<1>2. PICK l, d : l = n - 1 /\ d = Append(b, c)
  OBVIOUS
<1>3. BodyGrown(p, l, d) = q
  BY <1>2, MadeChanged
<1>4. q.contentSize = l
  BY <1>2, MadeFields
<1> HIDE DEF p
<1>5. [p EXCEPT !.contentSize = @ - 1, !.content = Append(@, c)] = q
  BY ONLY <1>1, <1>2, <1>3 DEF BodyGrown
<1>6. consume(p, c) = Post(p, c)
  BY <1>1 DEF consume
<1>7. l = 0 <=> n = 1
  BY <1>2
<1>8. Post(p, c) = IF n = 1 THEN Completed(q) ELSE q
  BY ONLY <1>4, <1>5, <1>7 DEF Post
<1>9. Takes(p, c, IF n = 1 THEN Completed(q) ELSE q)
  BY ONLY <1>1, <1>6, <1>8 DEF Takes
<1> QED
  BY <1>9 DEF p

\* A body of the announced length is read to its end.
LEMMA BodyRead ==
  ASSUME NEW m, NEW gs, NEW n \in Nat \ {0}, NEW ch, NEW b \in Text, NEW s \in Text,
         n = Len(s), NEW size, NEW j
  PROVE  ReadsTo(Made("Post", m, gs, n, ch, b, size, j), s,
                 Completed(Made("Post", m, gs, 0, ch, b \o s, size, j)))
<1> DEFINE P(k) == Made("Post", m, gs, n - k, ch, b \o SubSeq(s, 1, k), size, j)
           f == [k \in 0 .. n |-> IF k = n THEN Completed(P(k)) ELSE P(k)]
<1>0. /\ b \o SubSeq(s, 1, 0) = b /\ b \o SubSeq(s, 1, n) = b \o s
      /\ \A k \in 1 .. n : b \o SubSeq(s, 1, k) = Append(b \o SubSeq(s, 1, k - 1), s[k])
  BY PrefixJoined
<1>1. P(0) = Made("Post", m, gs, n, ch, b, size, j)
  <2>1. n - 0 = n /\ b \o SubSeq(s, 1, 0) = b
    BY <1>0
  <2> QED
    BY ONLY <2>1
<1>2. P(n) = Made("Post", m, gs, 0, ch, b \o s, size, j)
  <2>1. n - n = 0 /\ b \o SubSeq(s, 1, n) = b \o s
    BY <1>0
  <2> QED
    BY ONLY <2>1
<1>3. ASSUME NEW k \in 1 .. n
      PROVE  Takes(P(k - 1), s[k], IF k = n THEN Completed(P(k)) ELSE P(k))
  <2>1. PICK l \in Nat \ {0} : l = n - (k - 1) /\ l - 1 = n - k /\ (l = 1 <=> k = n)
    <3>1. n - (k - 1) \in Nat \ {0} /\ (n - (k - 1)) - 1 = n - k /\ (n - (k - 1) = 1 <=> k = n)
      OBVIOUS
    <3> QED
      BY <3>1
  <2>2. PICK d : d = b \o SubSeq(s, 1, k - 1) /\ Append(d, s[k]) = b \o SubSeq(s, 1, k)
    BY <1>0
  <2>3. PICK q : q = Made("Post", m, gs, l - 1, ch, Append(d, s[k]), size, j)
    OBVIOUS
  <2>4. Takes(Made("Post", m, gs, l, ch, d, size, j), s[k], IF l = 1 THEN Completed(q) ELSE q)
    BY <2>3, PostTaken
  <2>5. P(k - 1) = Made("Post", m, gs, l, ch, d, size, j) /\ P(k) = q
    BY ONLY <2>1, <2>2, <2>3
  <2> HIDE DEF P
  <2> QED
    BY <2>1, <2>4, <2>5
<1> HIDE DEF P
<1>4. f[0] = P(0) /\ f[n] = Completed(P(n))
  OBVIOUS
<1>5. \A k \in 1 .. n : f[k - 1].result = "incomplete" /\ f[k] = consume(f[k - 1], s[k])
  <2> SUFFICES ASSUME NEW k \in 1 .. n
               PROVE  f[k - 1].result = "incomplete" /\ f[k] = consume(f[k - 1], s[k])
    OBVIOUS
  <2>1. f[k - 1] = P(k - 1) /\ f[k] = IF k = n THEN Completed(P(k)) ELSE P(k)
    OBVIOUS
  <2> HIDE DEF f
  <2> QED
    BY <1>3, <2>1 DEF Takes
<1> HIDE DEF f
<1>6. Trace(f, P(0), s, Completed(P(n)))
  BY <1>4, <1>5 DEF Trace
<1> QED
  BY <1>1, <1>2, <1>6 DEF ReadsTo

LEMMA NotAlnum ==
  /\ "CR" \notin Alnum /\ "semicolon" \notin Alnum /\ "=" \notin Alnum /\ ":" \notin Alnum
  /\ "y" \in Alnum /\ "z" \in Alnum /\ Digits \subseteq Alnum
BY DEF Alnum, Digits, ToSet, Numeral

\* The lexemes around the chunks that do not change what has been read.
LEMMA ReadsAround ==
  ASSUME NEW p
  PROVE  /\ p.state = "ChunkSize" =>
              /\ consume(p, "CR") = To(p, "ChunkSizeNewLine")
              /\ consume(p, "semicolon") = To(p, "ChunkExtensionName")
         /\ p.state = "ChunkExtensionName" =>
              /\ consume(p, "y") = p
              /\ consume(p, "=") = To(p, "ChunkExtensionValue")
         /\ p.state \in {"ChunkExtensionValue", "ChunkTrailerValue"} =>
              /\ consume(p, "z") = p /\ consume(p, "SP") = p
              /\ consume(p, "CR") = To(p, "ChunkSizeNewLine")
         /\ p.state = "ChunkSizeNewLine_2" =>
              /\ consume(p, "CR") = To(p, "ChunkSizeNewLine_3")
              /\ consume(p, "y") = To(p, "ChunkTrailerName")
         /\ p.state = "ChunkTrailerName" => consume(p, ":") = To(p, "ChunkTrailerValue")
         /\ p.state = "ChunkSizeNewLine_3" => consume(p, "LF") = Completed(p)
         /\ p.state = "ChunkDataNewLine_1" => consume(p, "CR") = To(p, "ChunkDataNewLine_2")
         /\ p.state = "ChunkDataNewLine_2" => consume(p, "LF") = To(p, "ChunkSize")
<1>1. ASSUME NEW c, p.state \in ChunkStates PROVE consume(p, c) = Chunk(p, c)
  BY <1>1 DEF consume, ChunkStates
<1>2. ASSUME p.state = "ChunkSize"
      PROVE  /\ consume(p, "CR") = To(p, "ChunkSizeNewLine")
             /\ consume(p, "semicolon") = To(p, "ChunkExtensionName")
  <2>1. \A c : consume(p, c) = Chunk(p, c)
    BY <1>1, <1>2 DEF ChunkStates
  <2> QED
    BY <1>2, <2>1, NotAlnum DEF Chunk
<1>3. ASSUME p.state = "ChunkExtensionName"
      PROVE  /\ consume(p, "y") = p
             /\ consume(p, "=") = To(p, "ChunkExtensionValue")
  <2>1. \A c : consume(p, c) = Chunk(p, c)
    BY <1>1, <1>3 DEF ChunkStates
  <2> QED
    BY <1>3, <2>1, NotAlnum DEF Chunk
<1>4. ASSUME p.state \in {"ChunkExtensionValue", "ChunkTrailerValue"}
      PROVE  /\ consume(p, "z") = p /\ consume(p, "SP") = p
             /\ consume(p, "CR") = To(p, "ChunkSizeNewLine")
  <2>1. \A c : consume(p, c) = Chunk(p, c)
    BY <1>1, <1>4 DEF ChunkStates
  <2> QED
    BY <1>4, <2>1, NotAlnum DEF Chunk
<1>5. ASSUME p.state = "ChunkSizeNewLine_2"
      PROVE  /\ consume(p, "CR") = To(p, "ChunkSizeNewLine_3")
             /\ consume(p, "y") = To(p, "ChunkTrailerName")
  <2>1. \A c : consume(p, c) = Chunk(p, c)
    BY <1>1, <1>5 DEF ChunkStates
  <2> QED
    BY <1>5, <2>1 DEF Chunk
<1>6. ASSUME p.state = "ChunkTrailerName" PROVE consume(p, ":") = To(p, "ChunkTrailerValue")
  <2>1. \A c : consume(p, c) = Chunk(p, c)
    BY <1>1, <1>6 DEF ChunkStates
  <2> QED
    BY <1>6, <2>1, NotAlnum DEF Chunk
<1>7. ASSUME p.state = "ChunkSizeNewLine_3" PROVE consume(p, "LF") = Completed(p)
  <2>1. \A c : consume(p, c) = Chunk(p, c)
    BY <1>1, <1>7 DEF ChunkStates
  <2> QED
    BY <1>7, <2>1 DEF Chunk
<1>8. ASSUME p.state = "ChunkDataNewLine_1"
      PROVE  consume(p, "CR") = To(p, "ChunkDataNewLine_2")
  <2>1. \A c : consume(p, c) = Chunk(p, c)
    BY <1>1, <1>8 DEF ChunkStates
  <2> QED
    BY <1>8, <2>1 DEF Chunk, Expect
<1>9. ASSUME p.state = "ChunkDataNewLine_2" PROVE consume(p, "LF") = To(p, "ChunkSize")
  <2>1. \A c : consume(p, c) = Chunk(p, c)
    BY <1>1, <1>9 DEF ChunkStates
  <2> QED
    BY <1>9, <2>1 DEF Chunk, Expect
<1> QED
  BY <1>2, <1>3, <1>4, <1>5, <1>6, <1>7, <1>8, <1>9

LEMMA AroundTaken ==
  ASSUME NEW m, NEW gs, NEW n, NEW ch, NEW b, NEW size, NEW j
  PROVE  LET Now(st) == Made(st, m, gs, n, ch, b, size, j)
         IN  /\ Takes(Now("ChunkSize"), "CR", Now("ChunkSizeNewLine"))
             /\ Takes(Now("ChunkSize"), "semicolon", Now("ChunkExtensionName"))
             /\ Takes(Now("ChunkExtensionName"), "y", Now("ChunkExtensionName"))
             /\ Takes(Now("ChunkExtensionName"), "=", Now("ChunkExtensionValue"))
             /\ Takes(Now("ChunkExtensionValue"), "z", Now("ChunkExtensionValue"))
             /\ Takes(Now("ChunkExtensionValue"), "CR", Now("ChunkSizeNewLine"))
             /\ Takes(Now("ChunkSizeNewLine_2"), "y", Now("ChunkTrailerName"))
             /\ Takes(Now("ChunkTrailerName"), ":", Now("ChunkTrailerValue"))
             /\ Takes(Now("ChunkTrailerValue"), "SP", Now("ChunkTrailerValue"))
             /\ Takes(Now("ChunkTrailerValue"), "z", Now("ChunkTrailerValue"))
             /\ Takes(Now("ChunkTrailerValue"), "CR", Now("ChunkSizeNewLine"))
             /\ Takes(Now("ChunkSizeNewLine_2"), "CR", Now("ChunkSizeNewLine_3"))
             /\ Takes(Now("ChunkSizeNewLine_3"), "LF", Completed(Now("ChunkSizeNewLine_3")))
             /\ Takes(Now("ChunkDataNewLine_1"), "CR", Now("ChunkDataNewLine_2"))
             /\ Takes(Now("ChunkDataNewLine_2"), "LF", Now("ChunkSize"))
<1> DEFINE Now(st) == Made(st, m, gs, n, ch, b, size, j)
<1>1. \A st : Now(st).state = st /\ Now(st).result = "incomplete"
  BY MadeFields
<1>2. \A st, new : To(Now(st), new) = Now(new)
  BY MadeTo
<1> HIDE DEF Now
<1>3. /\ Takes(Now("ChunkSize"), "CR", Now("ChunkSizeNewLine"))
      /\ Takes(Now("ChunkSize"), "semicolon", Now("ChunkExtensionName"))
      /\ Takes(Now("ChunkExtensionName"), "y", Now("ChunkExtensionName"))
      /\ Takes(Now("ChunkExtensionName"), "=", Now("ChunkExtensionValue"))
      /\ Takes(Now("ChunkExtensionValue"), "z", Now("ChunkExtensionValue"))
      /\ Takes(Now("ChunkExtensionValue"), "CR", Now("ChunkSizeNewLine"))
  BY <1>1, <1>2, ReadsAround DEF Takes
<1>4. /\ Takes(Now("ChunkSizeNewLine_2"), "y", Now("ChunkTrailerName"))
      /\ Takes(Now("ChunkTrailerName"), ":", Now("ChunkTrailerValue"))
      /\ Takes(Now("ChunkTrailerValue"), "SP", Now("ChunkTrailerValue"))
      /\ Takes(Now("ChunkTrailerValue"), "z", Now("ChunkTrailerValue"))
      /\ Takes(Now("ChunkTrailerValue"), "CR", Now("ChunkSizeNewLine"))
  BY <1>1, <1>2, ReadsAround DEF Takes
<1>5. /\ Takes(Now("ChunkSizeNewLine_2"), "CR", Now("ChunkSizeNewLine_3"))
      /\ Takes(Now("ChunkSizeNewLine_3"), "LF", Completed(Now("ChunkSizeNewLine_3")))
      /\ Takes(Now("ChunkDataNewLine_1"), "CR", Now("ChunkDataNewLine_2"))
      /\ Takes(Now("ChunkDataNewLine_2"), "LF", Now("ChunkSize"))
  BY <1>1, <1>2, ReadsAround DEF Takes
<1> QED
  BY <1>3, <1>4, <1>5 DEF Now

LEMMA SizeTaken ==
  ASSUME NEW m, NEW gs, NEW n, NEW ch, NEW b, NEW j, NEW c \in Digits
  PROVE  Takes(Made("ChunkSize", m, gs, n, ch, b, <<>>, j), c,
               Made("ChunkSize", m, gs, n, ch, b, <<c>>, j))
<1> DEFINE p == Made("ChunkSize", m, gs, n, ch, b, <<>>, j)
           q == Made("ChunkSize", m, gs, n, ch, b, <<c>>, j)
<1>1. p.state = "ChunkSize" /\ p.result = "incomplete" /\ p.chunkSizeStr = <<>>
  BY MadeFields
<1>2. PICK s : s = <<c>> /\ Append(<<>>, c) = s
  <2>1. c \in Unbroken
    BY Letters DEF Digits, ToSet, Numeral
  <2> QED
    BY <2>1, OneLexeme
<1>3. [p EXCEPT !.chunkSizeStr = s] = q
  BY <1>2, OneReplaced
<1> HIDE DEF p, q
<1>4. consume(p, c) = Chunk(p, c)
  BY <1>1 DEF consume
<1>5. Chunk(p, c) = [p EXCEPT !.chunkSizeStr = Append(@, c)]
  BY <1>1, NotAlnum DEF Chunk
<1>6. Takes(p, c, q)
  BY <1>1, <1>2, <1>3, <1>4, <1>5 DEF Takes
<1> QED
  BY <1>6 DEF p, q

LEMMA ChunkLineTaken ==
  ASSUME NEW m, NEW gs, NEW n, NEW ch, NEW b, NEW size, NEW j,
         NEW l, l = strtol(size, 16), l # LongMax, NEW none, none = <<>>
  PROVE  Takes(Made("ChunkSizeNewLine", m, gs, n, ch, b, size, j), "LF",
               Made(IF l = 0 THEN "ChunkSizeNewLine_2" ELSE "ChunkData", m, gs, n, ch, b, none, l))
<1> DEFINE p == Made("ChunkSizeNewLine", m, gs, n, ch, b, size, j)
<1>1. p.state = "ChunkSizeNewLine" /\ p.result = "incomplete" /\ p.chunkSizeStr = size
  BY MadeFields
<1>2. PICK st : st = IF l = 0 THEN "ChunkSizeNewLine_2" ELSE "ChunkData"
  OBVIOUS
<1>3. PICK q : q = Made(st, m, gs, n, ch, b, size, j) /\ To(p, st) = q
  BY MadeTo
<1>4. Measured(q, l, none) = Made(st, m, gs, n, ch, b, none, l)
  BY <1>3, MadeChanged
<1> HIDE DEF p
<1>5. consume(p, "LF") = Chunk(p, "LF")
  BY <1>1 DEF consume
<1>6. Chunk(p, "LF") = ChunkLine(p, "LF")
  BY <1>1 DEF Chunk
<1>7. strtol(p.chunkSizeStr, 16) = l
  BY <1>1
<1>8. ChunkLine(p, "LF") = [q EXCEPT !.chunkSize = l, !.chunkSizeStr = none]
  <2>1. ChunkLine(p, "LF") = [To(p, IF l = 0 THEN "ChunkSizeNewLine_2" ELSE "ChunkData")
                                EXCEPT !.chunkSize = l, !.chunkSizeStr = <<>>]
    BY <1>7 DEF ChunkLine
  <2> QED
    BY ONLY <1>2, <1>3, <2>1, none = <<>>
<1>9. ChunkLine(p, "LF") = Made(st, m, gs, n, ch, b, none, l)
  BY ONLY <1>4, <1>8 DEF Measured
<1>10. Takes(p, "LF", Made(st, m, gs, n, ch, b, none, l))
  BY <1>1, <1>5, <1>6, <1>9 DEF Takes
<1> QED
  BY <1>2, <1>10 DEF p

LEMMA ChunkDataTaken ==
  ASSUME NEW m, NEW gs, NEW n, NEW ch, NEW b, NEW c, NEW size, NEW l \in Nat \ {0}
  PROVE  Takes(Made("ChunkData", m, gs, n, ch, b, size, l), c,
               Made(IF l = 1 THEN "ChunkDataNewLine_1" ELSE "ChunkData",
                    m, gs, n, ch, Append(b, c), size, l - 1))
<1> DEFINE p == Made("ChunkData", m, gs, n, ch, b, size, l)
<1>1. p.state = "ChunkData" /\ p.result = "incomplete" /\ p.chunkSize = l /\ p.content = b
  BY MadeFields
<1>2. PICK st, j, d : /\ st = IF l = 1 THEN "ChunkDataNewLine_1" ELSE "ChunkData"
                      /\ j = l - 1 /\ d = Append(b, c)
  OBVIOUS
<1>3. PICK q : q = Made(st, m, gs, n, ch, b, size, l) /\ To(p, st) = q
  BY MadeTo
<1>4. ChunkGrown(q, j, d) = Made(st, m, gs, n, ch, d, size, j)
  BY <1>3, MadeChanged
<1>5. q.chunkSize = l /\ q.content = b
  BY <1>3, MadeFields
<1> HIDE DEF p
<1>6. consume(p, c) = Chunk(p, c)
  BY <1>1 DEF consume
<1>7. Chunk(p, c) = [To(p, IF p.chunkSize = 1 THEN "ChunkDataNewLine_1" ELSE "ChunkData")
                       EXCEPT !.chunkSize = @ - 1, !.content = Append(@, c)]
  BY <1>1 DEF Chunk
<1>8. Chunk(p, c) = [q EXCEPT !.chunkSize = j, !.content = d]
  <2>1. To(p, IF p.chunkSize = 1 THEN "ChunkDataNewLine_1" ELSE "ChunkData") = q
    BY ONLY <1>1, <1>2, <1>3
  <2>2. Chunk(p, c) = [q EXCEPT !.chunkSize = @ - 1, !.content = Append(@, c)]
    BY ONLY <1>7, <2>1
  <2> QED
    BY ONLY <1>2, <1>5, <2>2
<1>9. Chunk(p, c) = Made(st, m, gs, n, ch, d, size, j)
  BY ONLY <1>4, <1>8 DEF ChunkGrown
<1>10. Takes(p, c, Made(st, m, gs, n, ch, d, size, j))
  BY <1>1, <1>6, <1>9 DEF Takes
<1> QED
  BY <1>2, <1>10 DEF p

LEMMA ChunkDataRead ==
  ASSUME NEW m, NEW gs, NEW n, NEW ch, NEW b \in Text, NEW s \in Text,
         NEW l \in Nat \ {0}, l = Len(s), NEW size
  PROVE  ReadsTo(Made("ChunkData", m, gs, n, ch, b, size, l), s,
                 Made("ChunkDataNewLine_1", m, gs, n, ch, b \o s, size, 0))
<1> DEFINE P(k) == Made(IF k = l THEN "ChunkDataNewLine_1" ELSE "ChunkData",
                        m, gs, n, ch, b \o SubSeq(s, 1, k), size, l - k)
           f == [k \in 0 .. l |-> P(k)]
<1>0. /\ b \o SubSeq(s, 1, 0) = b /\ b \o SubSeq(s, 1, l) = b \o s
      /\ \A k \in 1 .. l : b \o SubSeq(s, 1, k) = Append(b \o SubSeq(s, 1, k - 1), s[k])
  BY PrefixJoined
<1>1. P(0) = Made("ChunkData", m, gs, n, ch, b, size, l)
  <2>1. l - 0 = l /\ b \o SubSeq(s, 1, 0) = b /\ 0 # l
    BY <1>0
  <2> QED
    BY ONLY <2>1
<1>2. P(l) = Made("ChunkDataNewLine_1", m, gs, n, ch, b \o s, size, 0)
  <2>1. l - l = 0 /\ b \o SubSeq(s, 1, l) = b \o s
    BY <1>0
  <2> QED
    BY ONLY <2>1
<1>3. ASSUME NEW k \in 1 .. l PROVE Takes(P(k - 1), s[k], P(k))
  <2>1. PICK i \in Nat \ {0} : /\ i = l - (k - 1) /\ i - 1 = l - k
                               /\ (i = 1 <=> k = l) /\ k - 1 # l
    <3>1. /\ l - (k - 1) \in Nat \ {0} /\ (l - (k - 1)) - 1 = l - k
          /\ (l - (k - 1) = 1 <=> k = l) /\ k - 1 # l
      OBVIOUS
    <3> QED
      BY <3>1
  <2>2. PICK d : d = b \o SubSeq(s, 1, k - 1) /\ Append(d, s[k]) = b \o SubSeq(s, 1, k)
    BY <1>0
  <2>3. PICK q : q = Made(IF i = 1 THEN "ChunkDataNewLine_1" ELSE "ChunkData",
                          m, gs, n, ch, Append(d, s[k]), size, i - 1)
    OBVIOUS
  <2>4. Takes(Made("ChunkData", m, gs, n, ch, d, size, i), s[k], q)
    BY <2>3, ChunkDataTaken
  <2>5. P(k - 1) = Made("ChunkData", m, gs, n, ch, d, size, i)
    BY ONLY <2>1, <2>2
  <2>6. P(k) = q
    BY ONLY <2>1, <2>2, <2>3
  <2> HIDE DEF P
  <2> QED
    BY <2>4, <2>5, <2>6
<1> HIDE DEF P
<1>4. f[0] = P(0) /\ f[l] = P(l)
  OBVIOUS
<1>5. \A k \in 1 .. l : f[k - 1].result = "incomplete" /\ f[k] = consume(f[k - 1], s[k])
  <2> SUFFICES ASSUME NEW k \in 1 .. l
               PROVE  f[k - 1].result = "incomplete" /\ f[k] = consume(f[k - 1], s[k])
    OBVIOUS
  <2>1. f[k - 1] = P(k - 1) /\ f[k] = P(k)
    OBVIOUS
  <2> HIDE DEF f
  <2> QED
    BY <1>3, <2>1 DEF Takes
<1> HIDE DEF f
<1>6. Trace(f, P(0), s, P(l))
  BY <1>4, <1>5 DEF Trace
<1> QED
  BY <1>1, <1>2, <1>6 DEF ReadsTo

\* The line that says how long a chunk is.
SizeLine(msg, size) ==
  size \o (IF msg.extra = "extension" THEN <<"semicolon", "y", "=", "z">> ELSE <<>>)
    \o <<"CR", "LF">>

LEMMA SizeLineRead ==
  ASSUME NEW msg, NEW m, NEW gs, NEW n, NEW ch, NEW b, NEW l \in 0 .. 2,
         NEW zero, zero = 0, NEW none, none = <<>>
  PROVE  /\ SizeLine(msg, <<Numeral[l + 1]>>) \in Text
         /\ ReadsTo(Made("ChunkSize", m, gs, n, ch, b, none, zero),
                    SizeLine(msg, <<Numeral[l + 1]>>),
                    Made(IF l = 0 THEN "ChunkSizeNewLine_2" ELSE "ChunkData",
                         m, gs, n, ch, b, none, l))
<1>1. PICK c \in Digits : c = Numeral[l + 1]
  BY DigitOfNumeral
<1>2. PICK size \in Text : size = <<c>> /\ strtol(size, 16) = l
  <2>1. c \in Unbroken
    BY Letters DEF Digits, ToSet, Numeral
  <2> QED
    BY <1>1, <2>1, SizesRead, OneLexeme
<1> DEFINE Now(st) == Made(st, m, gs, n, ch, b, size, zero)
<1>3. PICK p, q : /\ p = Made("ChunkSize", m, gs, n, ch, b, none, zero)
                  /\ q = Made(IF l = 0 THEN "ChunkSizeNewLine_2" ELSE "ChunkData",
                              m, gs, n, ch, b, none, l)
  OBVIOUS
<1>4. Takes(p, c, Now("ChunkSize"))
  BY <1>2, <1>3, SizeTaken
<1>5. Takes(Now("ChunkSizeNewLine"), "LF", q)
  <2>1. l # LongMax
    BY WidthsAssumption
  <2> QED
    BY <1>2, <1>3, <2>1, ChunkLineTaken
<1>6. /\ Takes(Now("ChunkSize"), "CR", Now("ChunkSizeNewLine"))
      /\ Takes(Now("ChunkSize"), "semicolon", Now("ChunkExtensionName"))
      /\ Takes(Now("ChunkExtensionName"), "y", Now("ChunkExtensionName"))
      /\ Takes(Now("ChunkExtensionName"), "=", Now("ChunkExtensionValue"))
      /\ Takes(Now("ChunkExtensionValue"), "z", Now("ChunkExtensionValue"))
      /\ Takes(Now("ChunkExtensionValue"), "CR", Now("ChunkSizeNewLine"))
  BY AroundTaken
<1> HIDE DEF Now
<1>7. ReadsTo(p, size, Now("ChunkSize"))
  BY <1>2, <1>4, ReadsOne
<1>8. PICK end \in Text : end = <<"CR", "LF">>
  BY LexemesAreText
<1>9. PICK extension, r :
        /\ extension \in Text
        /\ extension = IF msg.extra = "extension" THEN <<"semicolon", "y", "=", "z">> ELSE <<>>
        /\ ReadsTo(Now("ChunkSize"), extension, r) /\ ReadsTo(r, end, q)
  <2>1. CASE msg.extra = "extension"
    <3>1. ReadsTo(Now("ChunkSize"), <<"semicolon", "y", "=", "z">>, Now("ChunkExtensionValue"))
      BY <1>6, ReadsFour
    <3>2. ReadsTo(Now("ChunkExtensionValue"), end, q)
      BY <1>5, <1>6, <1>8, ReadsTwo
    <3> QED
      BY <2>1, <3>1, <3>2, LexemesAreText
  <2>2. CASE msg.extra # "extension"
    <3>1. ReadsTo(Now("ChunkSize"), <<>>, Now("ChunkSize"))
      BY NothingRead
    <3>2. ReadsTo(Now("ChunkSize"), end, q)
      BY <1>5, <1>6, <1>8, ReadsTwo
    <3> QED
      BY <2>2, <3>1, <3>2, LexemesAreText
  <2> QED
    BY <2>1, <2>2
<1>10. size \o extension \in Text /\ ReadsTo(p, size \o extension, r)
  BY <1>7, <1>9, ReadsBoth, ConcatIsText
<1>11. (size \o extension) \o end \in Text /\ ReadsTo(p, (size \o extension) \o end, q)
  BY <1>9, <1>10, ReadsBoth, ConcatIsText
<1>12. SizeLine(msg, size) = (size \o extension) \o end
  BY <1>8, <1>9 DEF SizeLine
<1> QED
  BY <1>1, <1>2, <1>3, <1>11, <1>12

LEMMA ChunkRead ==
  ASSUME NEW msg, NEW m, NEW gs, NEW n, NEW ch, NEW b \in Text,
         NEW chunk \in Text, chunk # <<>>, Len(chunk) < Len(Numeral),
         NEW zero, zero = 0, NEW none, none = <<>>
  PROVE  /\ ChunkWire(msg, chunk) \in Text
         /\ ReadsTo(Made("ChunkSize", m, gs, n, ch, b, none, zero), ChunkWire(msg, chunk),
                    Made("ChunkSize", m, gs, n, ch, b \o chunk, none, zero))
<1>1. PICK l \in Nat \ {0} : l = Len(chunk) /\ l \in 0 .. 2
  <2>1. Len(chunk) \in Nat \ {0} /\ Len(Numeral) = 3
    BY LenProperties, EmptySeq DEF Text, Numeral
  <2> QED
    BY <2>1
<1>2. PICK line \in Text, end \in Text :
        line = SizeLine(msg, <<Numeral[l + 1]>>) /\ end = <<"CR", "LF">>
  BY <1>1, SizeLineRead, LexemesAreText
<1>3. PICK p, q, r, t, u :
        /\ p = Made("ChunkSize", m, gs, n, ch, b, none, zero)
        /\ q = Made("ChunkData", m, gs, n, ch, b, none, l)
        /\ r = Made("ChunkDataNewLine_1", m, gs, n, ch, b \o chunk, none, zero)
        /\ t = Made("ChunkDataNewLine_2", m, gs, n, ch, b \o chunk, none, zero)
        /\ u = Made("ChunkSize", m, gs, n, ch, b \o chunk, none, zero)
  OBVIOUS
<1>4. ReadsTo(p, line, q)
  <2>1. PICK st : st = IF l = 0 THEN "ChunkSizeNewLine_2" ELSE "ChunkData"
    OBVIOUS
  <2>2. ReadsTo(p, line, Made(st, m, gs, n, ch, b, none, l))
    BY <1>1, <1>2, <1>3, <2>1, SizeLineRead
  <2>3. st = "ChunkData"
    BY <2>1
  <2> QED
    BY <1>3, <2>2, <2>3
<1>5. ReadsTo(q, chunk, r)
  BY <1>1, <1>3, ChunkDataRead
<1>6. ReadsTo(r, end, u)
  <2>1. Takes(r, "CR", t) /\ Takes(t, "LF", u)
    BY <1>3, AroundTaken
  <2> QED
    BY <1>2, <2>1, ReadsTwo
<1>7. line \o chunk \in Text /\ ReadsTo(p, line \o chunk, r)
  BY <1>4, <1>5, ReadsBoth, ConcatIsText
<1>8. (line \o chunk) \o end \in Text /\ ReadsTo(p, (line \o chunk) \o end, u)
  BY <1>6, <1>7, ReadsBoth, ConcatIsText
<1>9. ChunkWire(msg, chunk) = (line \o chunk) \o end
  BY <1>1, <1>2 DEF ChunkWire, SizeLine, Size
<1> QED
  BY <1>3, <1>8, <1>9

\* The chunk that ends a body.
LEMMA LastChunkRead ==
  ASSUME NEW msg, NEW m, NEW gs, NEW n, NEW ch, NEW b,
         NEW zero, zero = 0, NEW none, none = <<>>
  PROVE  /\ ChunkWire(msg, none) \in Text
         /\ ReadsTo(Made("ChunkSize", m, gs, n, ch, b, none, zero), ChunkWire(msg, none),
                    Made("ChunkSizeNewLine_2", m, gs, n, ch, b, none, zero))
<1>1. PICK line \in Text : line = SizeLine(msg, <<Numeral[zero + 1]>>)
  BY SizeLineRead
<1>2. ReadsTo(Made("ChunkSize", m, gs, n, ch, b, none, zero), line,
              Made("ChunkSizeNewLine_2", m, gs, n, ch, b, none, zero))
  <2>1. PICK st : st = IF zero = 0 THEN "ChunkSizeNewLine_2" ELSE "ChunkData"
    OBVIOUS
  <2>2. ReadsTo(Made("ChunkSize", m, gs, n, ch, b, none, zero), line,
                Made(st, m, gs, n, ch, b, none, zero))
    BY <1>1, <2>1, SizeLineRead
  <2>3. st = "ChunkSizeNewLine_2"
    BY <2>1
  <2> QED
    BY <2>2, <2>3
<1>3. ChunkWire(msg, none) = (line \o <<>>) \o <<>>
  <2>1. Size(none) = <<Numeral[zero + 1]>>
    BY EmptySeq DEF Size
  <2> QED
    BY <1>1, <2>1 DEF ChunkWire, SizeLine
<1>4. line \o <<>> = line
  BY ConcatEmptySeq DEF Text
<1> QED
  BY <1>1, <1>2, <1>3, <1>4

Trailer(msg) == IF msg.extra = "trailer" THEN Line("y", <<"z">>) ELSE <<>>

LEMMA TrailerRead ==
  ASSUME NEW msg, NEW m, NEW gs, NEW n, NEW ch, NEW b,
         NEW zero, zero = 0, NEW none, none = <<>>
  PROVE  /\ Trailer(msg) \in Text
         /\ ReadsTo(Made("ChunkSizeNewLine_2", m, gs, n, ch, b, none, zero), Trailer(msg),
                    Made("ChunkSizeNewLine_2", m, gs, n, ch, b, none, zero))
<1> DEFINE Now(st) == Made(st, m, gs, n, ch, b, none, zero)
<1>1. /\ Takes(Now("ChunkSizeNewLine_2"), "y", Now("ChunkTrailerName"))
      /\ Takes(Now("ChunkTrailerName"), ":", Now("ChunkTrailerValue"))
      /\ Takes(Now("ChunkTrailerValue"), "SP", Now("ChunkTrailerValue"))
      /\ Takes(Now("ChunkTrailerValue"), "z", Now("ChunkTrailerValue"))
      /\ Takes(Now("ChunkTrailerValue"), "CR", Now("ChunkSizeNewLine"))
  BY AroundTaken
<1>2. Takes(Now("ChunkSizeNewLine"), "LF", Now("ChunkSizeNewLine_2"))
  <2>1. zero = strtol(none, 16) /\ zero # LongMax
    BY SizesRead, WidthsAssumption
  <2>2. PICK st : st = IF zero = 0 THEN "ChunkSizeNewLine_2" ELSE "ChunkData"
    OBVIOUS
  <2>3. Takes(Now("ChunkSizeNewLine"), "LF", Now(st))
    BY <2>1, <2>2, ChunkLineTaken
  <2>4. st = "ChunkSizeNewLine_2"
    BY <2>2
  <2> QED
    BY <2>3, <2>4
<1> HIDE DEF Now
<1>3. PICK name \in Text, colon \in Text, value \in Text, end \in Text :
        /\ name = <<"y">> /\ colon = <<":", "SP">> /\ value = <<"z">> /\ end = <<"CR", "LF">>
  BY LexemesAreText
<1>4. /\ ReadsTo(Now("ChunkSizeNewLine_2"), name, Now("ChunkTrailerName"))
      /\ ReadsTo(Now("ChunkTrailerName"), colon, Now("ChunkTrailerValue"))
      /\ ReadsTo(Now("ChunkTrailerValue"), value, Now("ChunkTrailerValue"))
      /\ ReadsTo(Now("ChunkTrailerValue"), end, Now("ChunkSizeNewLine_2"))
  BY <1>1, <1>2, <1>3, ReadsOne, ReadsTwo
<1>5. /\ name \o colon \in Text
      /\ ReadsTo(Now("ChunkSizeNewLine_2"), name \o colon, Now("ChunkTrailerValue"))
  BY <1>4, ReadsBoth, ConcatIsText
<1>6. /\ (name \o colon) \o value \in Text
      /\ ReadsTo(Now("ChunkSizeNewLine_2"), (name \o colon) \o value, Now("ChunkTrailerValue"))
  BY <1>4, <1>5, ReadsBoth, ConcatIsText
<1>7. /\ ((name \o colon) \o value) \o end \in Text
      /\ ReadsTo(Now("ChunkSizeNewLine_2"), ((name \o colon) \o value) \o end,
                 Now("ChunkSizeNewLine_2"))
  BY <1>4, <1>6, ReadsBoth, ConcatIsText
<1>8. CASE msg.extra = "trailer"
  <2>1. Trailer(msg) = ((name \o colon) \o value) \o end
    BY <1>3, <1>8 DEF Trailer, Line, Written, Item
  <2> QED
    BY <1>7, <2>1 DEF Now
<1>9. CASE msg.extra # "trailer"
  <2>1. Trailer(msg) = <<>>
    BY <1>9 DEF Trailer
  <2> QED
    BY <2>1, NothingRead, LexemesAreText
<1> QED
  BY <1>8, <1>9

LEMMA ChunksRead ==
  ASSUME NEW msg \in Messages, msg.framing = "chunked", NEW m, NEW gs, NEW n, NEW ch,
         NEW zero, zero = 0, NEW none, none = <<>>,
         NEW ss, ss = [k \in DOMAIN msg.chunks |-> ChunkWire(msg, msg.chunks[k])]
  PROVE  /\ FlattenSeq(ss) \in Text
         /\ ReadsTo(Made("ChunkSize", m, gs, n, ch, <<>>, none, zero), FlattenSeq(ss),
                    Made("ChunkSize", m, gs, n, ch, Body(msg), none, zero))
<1>1. PICK chunks \in Seq(Text), l \in Nat :
        chunks = msg.chunks /\ l = Len(chunks) /\ DOMAIN chunks = 1 .. l
  BY ChunksAreText, LenProperties
<1>2. \A k \in 1 .. l :
        chunks[k] \in Text /\ chunks[k] # <<>> /\ Len(chunks[k]) < Len(Numeral)
  BY <1>1, ElementOfSeq, MessagesAssumption, SendersAssumption
<1>3. \A k \in 1 .. l : ChunkWire(msg, chunks[k]) \in Text
  BY <1>2, ChunkIsText
<1>4. ss = [k \in 1 .. l |-> ChunkWire(msg, chunks[k])]
  BY <1>1
<1>5. ss \in Seq(Text) /\ l = Len(ss) /\ \A k \in 1 .. l : ss[k] = ChunkWire(msg, chunks[k])
  BY <1>3, <1>4, IsASeq
<1>6. PICK w, t : Joins(w, ss, l, Lexemes) /\ Joins(t, chunks, l, Lexemes)
  <2>1. chunks \in Seq(Seq(Lexemes)) /\ ss \in Seq(Seq(Lexemes))
    BY <1>5 DEF Text
  <2>2. PICK w : Joins(w, ss, l, Lexemes)
    BY <1>5, <2>1, JoinedPieces
  <2>3. PICK t : Joins(t, chunks, l, Lexemes)
    BY <1>1, <2>1, JoinedPieces
  <2> QED
    BY <2>2, <2>3
<1>7. /\ \A k \in 0 .. l : w[k] \in Text /\ t[k] \in Text
      /\ w[0] = <<>> /\ t[0] = <<>> /\ FlattenSeq(ss) = w[l] /\ Body(msg) = t[l]
      /\ \A k \in 1 .. l : w[k] = w[k - 1] \o ss[k] /\ t[k] = t[k - 1] \o chunks[k]
  BY <1>1, <1>6 DEF Joins, Body, Text
<1>8. PICK p : p = Made("ChunkSize", m, gs, n, ch, <<>>, none, zero)
  OBVIOUS
<1> DEFINE T == {k \in 0 .. l : ReadsTo(p, w[k], Made("ChunkSize", m, gs, n, ch, t[k], none, zero))}
<1>9. 0 \in T
  <2>1. ReadsTo(p, <<>>, p)
    BY NothingRead
  <2>2. ReadsTo(p, w[0], Made("ChunkSize", m, gs, n, ch, t[0], none, zero))
    BY ONLY <1>7, <1>8, <2>1
  <2> QED
    BY <2>2
<1>10. ASSUME NEW k \in 1 .. l, k - 1 \in T PROVE k \in T
  <2>0. k - 1 \in 0 .. l
    OBVIOUS
  <2>1. PICK s \in Text, b \in Text : s = w[k - 1] /\ b = t[k - 1]
    BY <1>7, <2>0
  <2>2. PICK c \in Text, wc \in Text : c = chunks[k] /\ wc = ChunkWire(msg, c) /\ wc = ss[k]
    BY <1>2, <1>3, <1>5
  <2>3. c # <<>> /\ Len(c) < Len(Numeral)
    BY <1>2, <2>2
  <2>4. PICK q, r : /\ q = Made("ChunkSize", m, gs, n, ch, b, none, zero)
                    /\ r = Made("ChunkSize", m, gs, n, ch, b \o c, none, zero)
    OBVIOUS
  <2>5. ReadsTo(p, s, q)
    BY <1>10, <2>1, <2>4
  <2>6. ReadsTo(q, wc, r)
    <3>1. ReadsTo(Made("ChunkSize", m, gs, n, ch, b, none, zero), ChunkWire(msg, c),
                  Made("ChunkSize", m, gs, n, ch, b \o c, none, zero))
      BY <2>3, ChunkRead
    <3> QED
      BY ONLY <2>2, <2>4, <3>1
  <2>7. ReadsTo(p, s \o wc, r)
    BY <2>5, <2>6, ReadsBoth
  <2>8. w[k] = s \o wc /\ t[k] = b \o c
    BY <1>7, <2>1, <2>2
  <2>9. ReadsTo(p, w[k], Made("ChunkSize", m, gs, n, ch, t[k], none, zero))
    BY ONLY <2>4, <2>7, <2>8
  <2> QED
    BY <2>9
<1>11. l \in T
  <2>1. 0 .. l \subseteq T
    <3> HIDE DEF T
    <3> QED
      BY <1>9, <1>10, CountUp
  <2>2. l \in 0 .. l
    OBVIOUS
  <2> QED
    BY <2>1, <2>2
<1>12. l \in 0 .. l
  OBVIOUS
<1>13. ReadsTo(p, w[l], Made("ChunkSize", m, gs, n, ch, t[l], none, zero))
  BY <1>11
<1>14. FlattenSeq(ss) \in Text
  BY <1>7, <1>12
<1> QED
  BY <1>7, <1>8, <1>13, <1>14

LEMMA ChunkedBodyRead ==
  ASSUME NEW msg \in Messages, msg.framing = "chunked", NEW m, NEW gs, NEW n, NEW ch
  PROVE  /\ BodyWire(msg) \in Text
         /\ \E q : /\ ReadsTo(Heading("ChunkSize", m, gs, n, ch), BodyWire(msg), q)
                   /\ q.result = "completed" /\ q.content = Body(msg)
<1>1. PICK zero, none : zero = 0 /\ none = <<>>
  OBVIOUS
<1>2. PICK b : b = Body(msg)
  OBVIOUS
<1> DEFINE Now(st) == Made(st, m, gs, n, ch, b, none, zero)
<1>3. PICK p : p = Made("ChunkSize", m, gs, n, ch, <<>>, none, zero)
  OBVIOUS
<1>4. p = Heading("ChunkSize", m, gs, n, ch)
  BY <1>1, <1>3 DEF Heading
<1>5. PICK ss : ss = [k \in DOMAIN msg.chunks |-> ChunkWire(msg, msg.chunks[k])]
  OBVIOUS
<1>6. PICK body \in Text : body = FlattenSeq(ss) /\ ReadsTo(p, body, Now("ChunkSize"))
  BY <1>1, <1>2, <1>3, <1>5, ChunksRead
<1>7. PICK last \in Text :
        last = ChunkWire(msg, none) /\ ReadsTo(Now("ChunkSize"), last, Now("ChunkSizeNewLine_2"))
  BY <1>1, LastChunkRead
<1>8. PICK trailer \in Text :
        /\ trailer = Trailer(msg)
        /\ ReadsTo(Now("ChunkSizeNewLine_2"), trailer, Now("ChunkSizeNewLine_2"))
  BY <1>1, TrailerRead
<1>9. PICK q : /\ q = Completed(Now("ChunkSizeNewLine_3"))
              /\ q.result = "completed" /\ q.content = Body(msg)
  <2>1. /\ Completed(Now("ChunkSizeNewLine_3")).result = "completed"
        /\ Completed(Now("ChunkSizeNewLine_3")).content = b
    BY CompletedMade
  <2> QED
    BY <1>2, <2>1
<1>10. PICK end \in Text : end = <<"CR", "LF">> /\ ReadsTo(Now("ChunkSizeNewLine_2"), end, q)
  <2>1. /\ Takes(Now("ChunkSizeNewLine_2"), "CR", Now("ChunkSizeNewLine_3"))
        /\ Takes(Now("ChunkSizeNewLine_3"), "LF", Completed(Now("ChunkSizeNewLine_3")))
    BY AroundTaken
  <2> HIDE DEF Now
  <2>2. ReadsTo(Now("ChunkSizeNewLine_2"), <<"CR", "LF">>, q)
    BY <1>9, <2>1, ReadsTwo
  <2> QED
    BY <2>2, LexemesAreText
<1> HIDE DEF Now
<1>11. body \o last \in Text /\ ReadsTo(p, body \o last, Now("ChunkSizeNewLine_2"))
  BY <1>6, <1>7, ReadsBoth, ConcatIsText
<1>12. /\ (body \o last) \o trailer \in Text
       /\ ReadsTo(p, (body \o last) \o trailer, Now("ChunkSizeNewLine_2"))
  BY <1>8, <1>11, ReadsBoth, ConcatIsText
<1>13. /\ ((body \o last) \o trailer) \o end \in Text
       /\ ReadsTo(p, ((body \o last) \o trailer) \o end, q)
  BY <1>10, <1>12, ReadsBoth, ConcatIsText
<1>14. BodyWire(msg) = ((body \o last) \o trailer) \o end
  BY <1>1, <1>5, <1>6, <1>7, <1>8, <1>10 DEF BodyWire, Trailer
<1> QED
  BY <1>4, <1>9, <1>13, <1>14

---------------------------------------------------------------------------
(* Reading a whole message *)

\* What a message is to its parser: a body it does not look for is left unread.
Sent(m) == IF Unread(m) THEN StartLine(m) \o Headers(m) ELSE Wire(m)

\* Parser q has taken message m for what it is.
Understood(m, q) ==
  q.result = "completed" /\ q.content = IF Unread(m) THEN <<>> ELSE Body(m)

LEMMA MessageRead ==
  ASSUME NEW msg \in Messages, Known(msg)
  PROVE  \E q : ReadsTo(NewParser(msg.start), Sent(msg), q) /\ Understood(msg, q)
<1>1. PICK n, ch : HasLength(msg, n) /\ HasChunks(msg, ch)
  BY DEF HasLength, HasChunks
<1>2. PICK m : m = MethodOf(msg.start)
  OBVIOUS
<1>3. PICK head, gs :
        /\ head \in Text /\ head = StartLine(msg) \o Headers(msg)
        /\ ReadsTo(NewParser(msg.start), head, AfterHeaders(m, gs, n, ch))
  BY <1>1, <1>2, HeadRead
<1>4. CASE Unread(msg)
  <2>1. n = 0 /\ ch = FALSE
    BY <1>1, <1>4 DEF Unread, HasLength, HasChunks
  <2>2. PICK q : q = Completed(Heading("ExpectingNewline_3", m, gs, n, ch))
    OBVIOUS
  <2>3. AfterHeaders(m, gs, n, ch) = q
    BY <2>1, <2>2 DEF AfterHeaders
  <2>4. q.result = "completed" /\ q.content = <<>>
    BY <2>2, CompletedMade DEF Heading
  <2>5. Sent(msg) = head
    BY <1>3, <1>4 DEF Sent
  <2> QED
    BY <1>3, <1>4, <2>3, <2>4, <2>5 DEF Understood
<1>5. CASE ~Unread(msg)
  <2>1. PICK body \in Text : body = BodyWire(msg) /\ Sent(msg) = head \o body
    <3>1. BodyWire(msg) \in Text
      BY BodyIsText
    <3>2. Sent(msg) = head \o BodyWire(msg)
      BY <1>3, <1>5 DEF Sent, Wire
    <3> QED
      BY <3>1, <3>2
  <2> SUFFICES \E q : /\ ReadsTo(AfterHeaders(m, gs, n, ch), body, q)
                      /\ q.result = "completed" /\ q.content = Body(msg)
    <3>1. PICK q : /\ ReadsTo(AfterHeaders(m, gs, n, ch), body, q)
                   /\ q.result = "completed" /\ q.content = Body(msg)
      OBVIOUS
    <3>2. ReadsTo(NewParser(msg.start), head \o body, q)
      BY <1>3, <3>1, ReadsBoth
    <3> QED
      BY <1>5, <2>1, <3>1, <3>2 DEF Understood
  <2>2. CASE msg.framing = "chunked"
    <3>1. ch = TRUE
      BY <1>1, <1>5, <2>2 DEF HasChunks, Unread
    <3>2. AfterHeaders(m, gs, n, ch) = Heading("ChunkSize", m, gs, n, ch)
      BY <3>1 DEF AfterHeaders
    <3>3. \E q : /\ ReadsTo(Heading("ChunkSize", m, gs, n, ch), BodyWire(msg), q)
                 /\ q.result = "completed" /\ q.content = Body(msg)
      BY <2>2, ChunkedBodyRead
    <3> QED
      BY <2>1, <3>2, <3>3
  <2>3. CASE msg.framing = "length"
    <3>1. n = Len(body) /\ n \in Nat /\ ch = FALSE /\ body = Body(msg)
      <4>1. body = Body(msg)
        BY <2>1, <2>3 DEF BodyWire
      <4>2. Len(body) \in Nat
        BY LenProperties DEF Text
      <4> QED
        BY <1>1, <1>5, <2>3, <4>1, <4>2 DEF HasLength, HasChunks, Unread
    <3>2. CASE n = 0
      <4>1. body = <<>>
        BY <3>1, <3>2, EmptySeq DEF Text
      <4>2. PICK q : q = Completed(Heading("ExpectingNewline_3", m, gs, n, ch))
        OBVIOUS
      <4>3. AfterHeaders(m, gs, n, ch) = q
        BY <3>1, <3>2, <4>2 DEF AfterHeaders
      <4>4. q.result = "completed" /\ q.content = <<>>
        BY <4>2, CompletedMade DEF Heading
      <4>5. ReadsTo(q, body, q)
        BY <4>1, NothingRead
      <4> QED
        BY <3>1, <4>1, <4>3, <4>4, <4>5
    <3>3. CASE n # 0
      <4>0. PICK none, zero : none = <<>> /\ zero = 0
        OBVIOUS
      <4>1. PICK b \in Text : b = <<>> /\ none = <<>> /\ zero = 0
        BY <4>0, LexemesAreText
      <4>2. AfterHeaders(m, gs, n, ch) = Made("Post", m, gs, n, ch, b, none, zero)
        <5>1. AfterHeaders(m, gs, n, ch) = Heading("Post", m, gs, n, ch)
          BY <3>1, <3>3 DEF AfterHeaders
        <5>2. Heading("Post", m, gs, n, ch) = Made("Post", m, gs, n, ch, b, none, zero)
          BY <4>1 DEF Heading
        <5> QED
          BY <5>1, <5>2
      <4>3. PICK q : q = Completed(Made("Post", m, gs, 0, ch, b \o body, none, zero))
        OBVIOUS
      <4>4. ReadsTo(Made("Post", m, gs, n, ch, b, none, zero), body, q)
        BY <3>1, <3>3, <4>3, BodyRead
      <4>5. b \o body = body
        BY <4>1, ConcatEmptySeq DEF Text
      <4>6. q.result = "completed" /\ q.content = b \o body
        <5>1. PICK c, st : c = b \o body /\ st = "Post"
          OBVIOUS
        <5>2. q = Completed(Made(st, m, gs, zero, ch, c, none, zero))
          BY ONLY <4>1, <4>3, <5>1
        <5>3. /\ Completed(Made(st, m, gs, zero, ch, c, none, zero)).result = "completed"
              /\ Completed(Made(st, m, gs, zero, ch, c, none, zero)).content = c
          BY CompletedMade
        <5> QED
          BY ONLY <5>1, <5>2, <5>3
      <4>7. ReadsTo(AfterHeaders(m, gs, n, ch), body, q)
        BY ONLY <4>2, <4>4
      <4>8. q.content = Body(msg)
        BY ONLY <3>1, <4>5, <4>6
      <4> QED
        BY <4>6, <4>7, <4>8
    <3> QED
      BY <3>2, <3>3
  <2>4. msg.framing \notin {"given", "close"}
    BY <1>5 DEF Unread, Known
  <2> QED
    BY <2>2, <2>3, <2>4, SendersAssumption
<1> QED
  BY <1>4, <1>5

\* What is sent begins with what its parser looks at.
LEMMA SentPlaces ==
  ASSUME NEW msg \in Messages, Known(msg)
  PROVE  /\ Len(Sent(msg)) \in Nat /\ Len(Sent(msg)) <= Len(Wire(msg))
         /\ Len(Sent(msg)) = Len(Wire(msg)) - IF Unread(msg) THEN Len(BodyWire(msg)) ELSE 0
         /\ \A k \in 1 .. Len(Sent(msg)) : Wire(msg)[k] = Sent(msg)[k]
<1>1. PICK head \in Text, body \in Text, wr \in Text :
        /\ head = StartLine(msg) \o Headers(msg) /\ body = BodyWire(msg)
        /\ wr = Wire(msg) /\ wr = head \o body
  <2>1. PICK n, ch : HasLength(msg, n) /\ HasChunks(msg, ch)
    BY DEF HasLength, HasChunks
  <2>2. StartLine(msg) \o Headers(msg) \in Text
    BY <2>1, HeadRead
  <2>3. Wire(msg) = (StartLine(msg) \o Headers(msg)) \o BodyWire(msg)
    BY DEF Wire
  <2> QED
    BY <2>2, <2>3, BodyIsText, WireIsText
<1>2. PICK i \in Nat, j \in Nat : i = Len(head) /\ j = Len(body)
  BY LenProperties DEF Text
<1>3. Len(wr) = i + j /\ \A k \in 1 .. i + j : wr[k] = IF k <= i THEN head[k] ELSE body[k - i]
  BY <1>1, <1>2, ConcatProperties DEF Text
<1>4. CASE Unread(msg)
  <2>1. Sent(msg) = head
    BY <1>1, <1>4 DEF Sent
  <2>2. \A k \in 1 .. i : wr[k] = head[k]
    BY <1>3
  <2>3. i = (i + j) - j /\ i <= i + j
    OBVIOUS
  <2> QED
    BY <1>1, <1>2, <1>3, <1>4, <2>1, <2>2, <2>3
<1>5. CASE ~Unread(msg)
  <2>1. Sent(msg) = wr
    BY <1>1, <1>5 DEF Sent
  <2>2. i + j \in Nat /\ i + j <= i + j /\ i + j = (i + j) - 0
    OBVIOUS
  <2> QED
    BY <1>1, <1>3, <1>5, <2>1, <2>2
<1> QED
  BY <1>4, <1>5

\* The inductive invariant: the parser is where reading what was sent, lexeme
\* by lexeme, leads, and that reading ends with the message understood.
SentInv ==
  clean /\ phase = "origin" =>
    /\ message \in Messages /\ Known(message) /\ wire = Wire(message)
    /\ pos \in 0 .. Len(Sent(message))
    /\ \E f, q : /\ Trace(f, NewParser(message.start), Sent(message), q)
                 /\ Understood(message, q) /\ parser = f[pos]

LEMMA InitSentInv == Init => SentInv
<1> SUFFICES ASSUME Init, clean PROVE SentInv
  BY DEF SentInv
<1>1. message \in Messages /\ Known(message) /\ wire = Wire(message)
  BY DEF Init, Known
<1>2. pos = 0 /\ parser = NewParser(message.start)
  BY DEF Init
<1>3. PICK q : ReadsTo(NewParser(message.start), Sent(message), q) /\ Understood(message, q)
  BY <1>1, MessageRead
<1>4. PICK f : Trace(f, NewParser(message.start), Sent(message), q)
  BY <1>3 DEF ReadsTo
<1>5. parser = f[pos]
  BY <1>2, <1>4 DEF Trace
<1>6. pos \in 0 .. Len(Sent(message))
  BY <1>1, <1>2, SentPlaces
<1> QED
  BY <1>1, <1>3, <1>4, <1>5, <1>6 DEF SentInv

LEMMA NextSentInv == SentInv /\ [Next]_vars => SentInv'
<1> SUFFICES ASSUME SentInv, [Next]_vars PROVE SentInv'
  OBVIOUS
<1>1. CASE Consume
  <2> SUFFICES ASSUME clean, phase = "origin" PROVE SentInv'
    BY <1>1 DEF Consume, SentInv
  <2>1. /\ parser.result = "incomplete" /\ pos' = pos + 1
        /\ parser' = consume(parser, wire[pos + 1])
        /\ UNCHANGED <<message, clean, phase, wire>>
    BY <1>1 DEF Consume
  <2>2. /\ message \in Messages /\ Known(message) /\ wire = Wire(message)
        /\ pos \in 0 .. Len(Sent(message))
    BY DEF SentInv
  <2>3. PICK f, q : /\ Trace(f, NewParser(message.start), Sent(message), q)
                    /\ Understood(message, q) /\ parser = f[pos]
    BY DEF SentInv
  <2>4. PICK n \in Nat : /\ n = Len(Sent(message)) /\ pos \in 0 .. n
                         /\ \A k \in 1 .. n : Wire(message)[k] = Sent(message)[k]
    BY <2>2, SentPlaces
  <2>5. pos # n
    BY <2>1, <2>3, <2>4 DEF Trace, Understood
  <2>6. pos + 1 \in 1 .. n /\ (pos + 1) - 1 = pos /\ pos + 1 \in 0 .. n
    BY <2>4, <2>5
  <2>7. wire[pos + 1] = Sent(message)[pos + 1]
    BY <2>2, <2>4, <2>6
  <2>8. f[pos + 1] = consume(f[(pos + 1) - 1], Sent(message)[pos + 1])
    BY <2>3, <2>4, <2>6 DEF Trace
  <2>9. parser' = f[pos']
    BY <2>1, <2>3, <2>6, <2>7, <2>8
  <2> QED
    BY <2>1, <2>2, <2>3, <2>4, <2>6, <2>9 DEF SentInv
<1>2. CASE Throw \/ Store \/ Freshen \/ Revalidate
  BY <1>2 DEF Throw, Store, Freshen, Revalidate, SentInv
<1>3. CASE UNCHANGED vars
  BY <1>3 DEF vars, SentInv
<1> QED
  BY <1>1, <1>2, <1>3 DEF Next, StoreFetched, StoreValidated, Done

LEMMA SentInvParses == SentInv => ParsedIsSent
<1> SUFFICES ASSUME SentInv, clean, phase = "origin" PROVE ParsedIsSent
  BY DEF ParsedIsSent
<1>1. /\ message \in Messages /\ Known(message) /\ wire = Wire(message)
      /\ pos \in 0 .. Len(Sent(message))
  BY DEF SentInv
<1>2. PICK f, q : /\ Trace(f, NewParser(message.start), Sent(message), q)
                  /\ Understood(message, q) /\ parser = f[pos]
  BY DEF SentInv
<1>3. PICK n \in Nat :
        /\ n = Len(Sent(message)) /\ pos \in 0 .. n
        /\ n = Len(wire) - IF Unread(message) THEN Len(BodyWire(message)) ELSE 0
  BY <1>1, SentPlaces
<1>4. CASE pos = n
  <2>1. Understood(message, parser)
    BY <1>2, <1>3, <1>4 DEF Trace
  <2> QED
    BY <1>3, <1>4, <2>1 DEF ParsedIsSent, Understood
<1>5. CASE pos # n
  <2>1. pos + 1 \in 1 .. n /\ (pos + 1) - 1 = pos
    BY <1>3, <1>5
  <2>2. f[(pos + 1) - 1].result = "incomplete"
    BY <1>2, <1>3, <2>1 DEF Trace
  <2>3. parser.result = "incomplete"
    BY <1>2, <2>1, <2>2
  <2> QED
    BY <1>3, <1>5, <2>3 DEF ParsedIsSent
<1> QED
  BY <1>4, <1>5

(***************************************************************************)
(* A message that a sender writes the way the parsers know it, with a body *)
(* of any number of chunks: wherever its bytes divide, it is never refused,*)
(* it is complete after its last byte and not before, and its content is   *)
(* the body that was sent (httpresponseparser.h:325-520, httprequestparser *)
(* .h:287-523).                                                            *)
(***************************************************************************)
THEOREM SentIsParsed == Spec => []ParsedIsSent
<1>1. Spec => []SentInv
  BY InitSentInv, NextSentInv, PTL DEF Spec
<1> QED
  BY <1>1, SentInvParses, PTL

===========================================================================
