----------------------------- MODULE OptionsProofs -----------------------------
(***************************************************************************)
(* Proofs about Options for strings of any length.  The definitions by     *)
(* recursion, the value of digits, the concatenation of parts and the loop *)
(* of unescape_string, are opened by induction: the numbers for which a    *)
(* statement holds are a set, and a set that holds 0 and n + 1 with every  *)
(* n holds all numbers.  A string between blanks has a first and a last    *)
(* character that is no blank; everything the parsers read and everything  *)
(* the string means is found at these two places, and so it is the same.   *)
(***************************************************************************)
EXTENDS Options, TLAPS

W == INSTANCE WellFoundedInduction

-----------------------------------------------------------------------------
(***************************************************************************)
(* Numbers.                                                                *)
(***************************************************************************)
\* A set of numbers that is not empty has a least member ...
LEMMA Least ==
  ASSUME NEW T, T \subseteq Nat, T # {}
  PROVE  \E x \in T : \A y \in T : x <= y
<1> DEFINE R == {p \in Nat \X Nat : p[1] < p[2]}
<1>1. W!IsWellFoundedOn(R, Nat)
  BY W!NatLessThanWellFounded, Zenon DEF W!OpToRel
<1> HIDE DEF R
<1>2. PICK x \in T : \A y \in T : ~(<<y, x>> \in R)
  BY <1>1, W!WFMin
<1>3. \A y \in T : y < x => <<y, x>> \in R
  BY DEF R
<1>4. \A y \in T : ~(y < x)
  BY <1>2, <1>3, Zenon
<1> QED
  BY <1>4

\* ... so that a set that holds 0, and n + 1 with every n, holds all.
LEMMA Induction ==
  ASSUME NEW T, 0 \in T, \A n \in Nat : n \in T => n + 1 \in T
  PROVE  Nat \subseteq T
<1> DEFINE U == Nat \ T
<1> SUFFICES ASSUME U # {} PROVE FALSE
  OBVIOUS
<1>1. PICK x \in U : \A y \in U : x <= y
  BY Least
<1>2. x # 0 /\ x - 1 \in Nat
  OBVIOUS
<1>3. x - 1 \in T
  BY <1>1, <1>2
<1> QED
  BY <1>2, <1>3

\* A set of numbers up to n has a greatest member.
LEMMA Greatest ==
  ASSUME NEW T, NEW n \in Nat, T \subseteq 0 .. n, T # {}
  PROVE  \E x \in T : \A y \in T : y <= x
<1> DEFINE U == {n - y : y \in T}
<1>1. U \subseteq Nat
  OBVIOUS
<1>5. U # {}
  <2>1. PICK y \in T : TRUE
    OBVIOUS
  <2> QED
    BY <2>1
<1>2. PICK u \in U : \A w \in U : u <= w
  BY <1>1, <1>5, Least
<1>3. PICK x \in T : u = n - x
  OBVIOUS
<1>4. ASSUME NEW y \in T PROVE y <= x
  <2>1. n - y \in U
    OBVIOUS
  <2> QED
    BY <1>2, <1>3, <2>1
<1> QED
  BY <1>4

-----------------------------------------------------------------------------
(***************************************************************************)
(* The value of digits.                                                    *)
(***************************************************************************)
\* A digit stands for a number.
LEMMA DigitValueNat == \A d \in Digits : DigitValue[d] \in Nat
BY DEF Digits, DigitValue, ToSet, Numerals

\* So do the digits of a number, as many as there are.
LEMMA ValueNat ==
  ASSUME NEW d \in Seq(Digits)
  PROVE  Value(d) \in Nat
<1> DEFINE Body(f, n) == IF n = 0 THEN 0 ELSE 10 * f[n - 1] + DigitValue[d[n]]
           Defined == {n \in Nat : \E f : f = [m \in 0 .. n |-> Body(f, m)]}
           first == CHOOSE f : f = [m \in 0 .. Len(d) |-> Body(f, m)]
           Bounded == {n \in Nat : n <= Len(d) => first[n] \in Nat}
<1>1. 0 \in Defined
  <2>1. [m \in 0 .. 0 |-> 0] = [m \in 0 .. 0 |-> Body([i \in 0 .. 0 |-> 0], m)]
    OBVIOUS
  <2> QED
    BY <2>1
<1>2. ASSUME NEW n \in Nat, n \in Defined PROVE n + 1 \in Defined
  <2>1. PICK f : f = [m \in 0 .. n |-> Body(f, m)]
    BY <1>2
  <2> DEFINE g == [m \in 0 .. n + 1 |-> Body(f, m)]
  <2>2. \A m \in 0 .. n : g[m] = f[m]
    <3> TAKE m \in 0 .. n
    <3>1. m \in 0 .. n + 1
      OBVIOUS
    <3> QED
      BY <2>1, <3>1, Zenon
  <2>3. ASSUME NEW m \in 0 .. n + 1 PROVE Body(g, m) = Body(f, m)
    <3> HIDE DEF g
    <3>1. m # 0 => g[m - 1] = f[m - 1]
      BY <2>2
    <3> QED
      BY <3>1
  <2>4. g = [m \in 0 .. n + 1 |-> Body(g, m)]
    BY <2>3, Zenon
  <2>5. n + 1 \in Nat
    OBVIOUS
  <2> QED
    BY <2>4, <2>5, Zenon
<1>3. Nat \subseteq Defined
  <2> HIDE DEF Defined
  <2> QED
    BY <1>1, <1>2, Induction
<1>4. first = [m \in 0 .. Len(d) |-> Body(first, m)]
  <2>1. Len(d) \in Defined
    <3> HIDE DEF Defined
    <3> QED
      BY <1>3
  <2> QED
    BY <2>1, Zenon
<1>9. \A m \in 0 .. Len(d) : first[m] = Body(first, m)
  BY <1>4, Zenon
<1> HIDE DEF first
<1>5. 0 \in Bounded
  BY <1>9
<1>6. ASSUME NEW n \in Nat, n \in Bounded PROVE n + 1 \in Bounded
  <2> SUFFICES ASSUME n + 1 <= Len(d) PROVE first[n + 1] \in Nat
    OBVIOUS
  <2>1. first[n + 1] = Body(first, n + 1)
    BY <1>9
  <2>2. first[n] \in Nat /\ DigitValue[d[n + 1]] \in Nat
    BY <1>6, DigitValueNat
  <2> QED
    BY <2>1, <2>2
<1>7. Nat \subseteq Bounded
  <2> HIDE DEF Bounded
  <2> QED
    BY <1>5, <1>6, Induction
<1>8. Value(d) = first[Len(d)]
  BY Zenon DEF Value, first
<1> QED
  BY <1>7, <1>8

-----------------------------------------------------------------------------
(***************************************************************************)
(* Blanks at the ends of a string.                                         *)
(***************************************************************************)
\* The first and the last character of s that is no blank.
Ends(s, a, b) ==
  /\ s[a] # Space /\ s[b] # Space
  /\ Blanks(s, 1, a - 1) /\ Blanks(s, b + 1, Len(s))

\* There are such characters unless all are blanks.
LEMMA EndsExist ==
  ASSUME NEW X, NEW s \in Seq(X), ~Blanks(s, 1, Len(s))
  PROVE  \E a \in 1 .. Len(s) : \E b \in a .. Len(s) : Ends(s, a, b)
<1> DEFINE ink == {i \in 1 .. Len(s) : s[i] # Space}
<1>1. ink \subseteq Nat /\ ink \subseteq 0 .. Len(s) /\ ink # {}
  BY DEF Blanks
<1>2. PICK a \in ink : \A j \in ink : a <= j
  BY <1>1, Least
<1>3. PICK b \in ink : \A j \in ink : j <= b
  <2> HIDE DEF ink
  <2> QED
    BY <1>1, Greatest, Len(s) \in Nat
<1> QED
  BY <1>2, <1>3 DEF Ends, Blanks

\* Trim returns what lies between them ...
LEMMA Trimmed ==
  ASSUME NEW X, NEW s \in Seq(X), NEW a \in 1 .. Len(s), NEW b \in a .. Len(s), Ends(s, a, b)
  PROVE  Trim(s) = SubSeq(s, a, b)
<1> DEFINE ink == {i \in DOMAIN s : s[i] # Space}
<1>1. a \in ink /\ b \in ink /\ \A j \in ink : a <= j /\ j <= b
  BY DEF Ends, Blanks
<1>2. (CHOOSE i \in ink : \A j \in ink : i <= j) = a
  BY <1>1
<1>3. (CHOOSE i \in ink : \A j \in ink : i >= j) = b
  BY <1>1
<1> QED
  BY <1>1, <1>2, <1>3, Zenon DEF Trim

\* ... and nothing of a blank string.
LEMMA TrimmedBlank ==
  ASSUME NEW X, NEW s \in Seq(X), Blanks(s, 1, Len(s))
  PROVE  Trim(s) = <<>>
BY DEF Trim, Blanks

-----------------------------------------------------------------------------
(***************************************************************************)
(* The numbers a string may be, and ParseU64.                              *)
(***************************************************************************)
\* The values of the first m characters of s as a number that blanks may follow.
Numbers(s, m) ==
  {v \in Nat : \E k \in 1 .. m : \E j \in 0 .. k - 1 :
                 /\ Number(s, j, k) /\ Blanks(s, k + 1, m)
                 /\ v = Value(SubSeq(s, j + 1, k))}

\* A part of a sequence.
LEMMA Part ==
  ASSUME NEW X, NEW s \in Seq(X), NEW a \in 1 .. Len(s) + 1, NEW b \in a - 1 .. Len(s)
  PROVE  /\ SubSeq(s, a, b) \in Seq(X) /\ Len(SubSeq(s, a, b)) = b - a + 1
         /\ \A i \in 1 .. b - a + 1 : SubSeq(s, a, b)[i] = s[a + i - 1]
<1>1. a \in Nat /\ b \in Nat /\ a <= Len(s) + 1 /\ a - 1 <= b /\ b <= Len(s) /\ Len(s) \in Nat
  OBVIOUS
<1>2. \A i \in a .. b : i \in 1 .. Len(s)
  BY <1>1
<1> QED
  BY <1>1, <1>2

\* ParseU64 asks of the set of characters what Number asks of each.
LEMMA DigitsPart ==
  ASSUME NEW X, NEW s \in Seq(X), NEW p \in 0 .. Len(s), NEW b \in p .. Len(s)
  PROVE  (\A i \in p + 1 .. b : s[i] \in Digits) <=>
           ToSet(SubSeq(s, p + 1, b)) \subseteq Digits
<1> DEFINE d == SubSeq(s, p + 1, b)
<1>1. d \in Seq(X) /\ Len(d) = b - p /\ \A i \in 1 .. b - p : d[i] = s[p + i]
  <2>1. p + 1 \in 1 .. Len(s) + 1 /\ b \in p + 1 - 1 .. Len(s)
    OBVIOUS
  <2> QED
    BY <2>1, Part
<1> HIDE DEF d
<1>2. (\A i \in p + 1 .. b : s[i] \in Digits) <=> \A i \in 1 .. Len(d) : d[i] \in Digits
  <2>1. ASSUME NEW i \in p + 1 .. b PROVE i - p \in 1 .. Len(d) /\ s[i] = d[i - p]
    BY <1>1
  <2>2. ASSUME NEW i \in 1 .. Len(d) PROVE p + i \in p + 1 .. b /\ d[i] = s[p + i]
    BY <1>1
  <2> QED
    BY <2>1, <2>2
<1>3. DOMAIN d = 1 .. Len(d)
  BY <1>1
<1>4. ToSet(d) \subseteq Digits <=> \A i \in 1 .. Len(d) : d[i] \in Digits
  BY <1>3, Zenon DEF ToSet
<1> QED
  BY <1>2, <1>4, Zenon DEF d

\* The value of a part that is all digits.
LEMMA ValuePart ==
  ASSUME NEW X, NEW s \in Seq(X), NEW p \in 0 .. Len(s), NEW b \in p .. Len(s),
         \A i \in p + 1 .. b : s[i] \in Digits
  PROVE  Value(SubSeq(s, p + 1, b)) \in Nat
<1> DEFINE d == SubSeq(s, p + 1, b)
<1>1. p + 1 \in 1 .. Len(s) + 1 /\ b \in p + 1 - 1 .. Len(s)
  OBVIOUS
<1>2. d \in Seq(X)
  BY <1>1, Part
<1>3. ToSet(d) \subseteq Digits
  BY DigitsPart, Zenon
<1> HIDE DEF d
<1>4. \A i \in 1 .. Len(d) : d[i] \in Digits
  BY <1>2, <1>3 DEF ToSet
<1>5. d \in Seq(Digits)
  BY <1>2, <1>4
<1> QED
  BY <1>5, ValueNat, Zenon DEF d

\* The characters p + 1 .. b of s are the digits of a u64.
U64At(s, p, b) ==
  (\A i \in p + 1 .. b : s[i] \in Digits) /\ Value(SubSeq(s, p + 1, b)) <= U64Max

\* The characters up to a plus sign or up to a digit at a.
Before(s, a) == IF s[a] = Plus THEN a ELSE a - 1

\* ParseU64 reads a part as the digits in it, behind a plus sign if it begins with one.
LEMMA ParsedPart ==
  ASSUME NEW X, NEW s \in Seq(X), NEW a \in 1 .. Len(s), NEW b \in a .. Len(s),
         NEW p, p = Before(s, a), NEW v
  PROVE  v \in ParseU64(SubSeq(s, a, b)) <=>
           p < b /\ U64At(s, p, b) /\ v = Value(SubSeq(s, p + 1, b))
<1> DEFINE d == SubSeq(s, a, b)
<1>1. d \in Seq(X) /\ Len(d) = b - a + 1 /\ \A i \in 1 .. b - a + 1 : d[i] = s[a + i - 1]
  BY Part
<1>2. d # <<>> /\ Head(d) = s[a]
  <2> HIDE DEF d
  <2> QED
    BY <1>1
<1>3. Tail(d) = SubSeq(s, a + 1, b)
  <2>1. /\ SubSeq(s, a + 1, b) \in Seq(X) /\ Len(SubSeq(s, a + 1, b)) = b - (a + 1) + 1
        /\ \A i \in 1 .. b - (a + 1) + 1 : SubSeq(s, a + 1, b)[i] = s[a + 1 + i - 1]
    BY Part
  <2> DEFINE e == SubSeq(s, a + 1, b)
  <2> HIDE DEF d, e
  <2>2. Tail(d) \in Seq(X) /\ Len(Tail(d)) = b - a /\ \A i \in 1 .. b - a : Tail(d)[i] = d[i + 1]
    BY <1>1
  <2>3. e \in Seq(X) /\ Len(e) = b - a /\ \A i \in 1 .. b - a : e[i] = s[a + i]
    BY <2>1 DEF e
  <2>4. \A i \in 1 .. b - a : Tail(d)[i] = e[i]
    BY <1>1, <2>2, <2>3
  <2>5. Tail(d) = e
    BY <2>2, <2>3, <2>4
  <2> QED
    BY <2>5 DEF e
<1> DEFINE q == SubSeq(s, p + 1, b)
<1>p. (s[a] = Plus /\ p = a) \/ (s[a] # Plus /\ p = a - 1)
  BY DEF Before
<1>4. /\ p \in 0 .. Len(s) /\ b \in p .. Len(s)
      /\ p + 1 \in 1 .. Len(s) + 1 /\ b \in p + 1 - 1 .. Len(s)
  BY <1>p
<1>5. (IF d # <<>> /\ Head(d) = Plus THEN Tail(d) ELSE d) = q
  <2>1. (s[a] = Plus /\ p + 1 = a + 1) \/ (s[a] # Plus /\ p + 1 = a)
    BY <1>p
  <2> QED
    BY <1>2, <1>3, <2>1, Zenon
<1>6. Len(q) = b - p /\ q \in Seq(X)
  <2>1. Len(q) = b - (p + 1) + 1 /\ q \in Seq(X)
    BY <1>4, Part
  <2> QED
    BY <2>1, <1>4
<1>7. q # <<>> <=> p < b
  <2> HIDE DEF q
  <2> QED
    BY <1>6, <1>4
<1>8. ToSet(q) \subseteq Digits <=> \A i \in p + 1 .. b : s[i] \in Digits
  BY <1>4, DigitsPart, Zenon
<1>9. v \in ParseU64(d) <=> q # <<>> /\ ToSet(q) \subseteq Digits /\ Value(q) <= U64Max
                             /\ v = Value(q)
  <2> HIDE DEF d, q
  <2> QED
    BY <1>5, Zenon DEF ParseU64
<1> QED
  BY <1>7, <1>8, <1>9, Zenon DEF d, U64At

\* Blanks, plus signs and digits are told apart.
LEMMA Distinct == Space \notin Digits /\ Plus \notin Digits /\ Plus # Space
<1>1. Digits = {"0", "1", "2", "3", "4", "5", "6", "7", "8", "9"}
  BY DEF Digits, Numerals, ToSet
<1> QED
  BY <1>1 DEF Space, Plus

\* The only numbers of s end with its last character that is no blank and begin with its
\* first, or after it when that is a plus sign.
LEMMA NumberEnds ==
  ASSUME NEW X, NEW s \in Seq(X), NEW n \in 0 .. Len(s),
         NEW a \in 1 .. n, NEW b \in a .. n,
         s[a] # Space, s[b] # Space, Blanks(s, 1, a - 1), Blanks(s, b + 1, n),
         NEW p, p = Before(s, a),
         NEW k \in 1 .. n, NEW j \in 0 .. k - 1
  PROVE  Number(s, j, k) /\ Blanks(s, k + 1, n) <=>
           k = b /\ j = p /\ U64At(s, p, b)
<1>1. ASSUME \A i \in j + 1 .. k : s[i] \in Digits, Blanks(s, k + 1, n)
      PROVE  k = b
  <2>1. s[k] # Space
    BY <1>1, Distinct
  <2>2. ~(k \in b + 1 .. n) /\ ~(b \in k + 1 .. n)
    BY <1>1, <2>1 DEF Blanks
  <2> QED
    BY <2>2
<1>2. ASSUME \A i \in j + 1 .. k : s[i] \in Digits, Blanks(s, 1, j)
      PROVE  j = a - 1 /\ s[a] # Plus
  <2>1. s[j + 1] \in Digits /\ s[j + 1] # Space /\ s[j + 1] # Plus
    BY <1>2, Distinct
  <2>2. ~(j + 1 \in 1 .. a - 1) /\ ~(a \in 1 .. j)
    BY <1>2, <2>1 DEF Blanks
  <2>3. j = a - 1
    BY <2>2
  <2> QED
    BY <2>1, <2>3
<1>3. ASSUME j > 0, s[j] = Plus, Blanks(s, 1, j - 1)
      PROVE  j = a /\ s[a] = Plus
  <2>1. ~(j \in 1 .. a - 1) /\ ~(a \in 1 .. j - 1)
    BY <1>3, Distinct DEF Blanks
  <2> QED
    BY <1>3, <2>1
<1>4. ASSUME Number(s, j, k), Blanks(s, k + 1, n) PROVE k = b /\ j = p
  BY <1>1, <1>2, <1>3, <1>4 DEF Number, Before
<1>5. j = p => Blanks(s, 1, j) \/ (j > 0 /\ s[j] = Plus /\ Blanks(s, 1, j - 1))
  BY DEF Before
<1> QED
  BY <1>4, <1>5, Zenon DEF Number, U64At

\* Trimmed and parsed, a string gives the numbers it is.
LEMMA ParsedTrimmed ==
  ASSUME NEW X, NEW s \in Seq(X)
  PROVE  ParseU64(Trim(s)) = Numbers(s, Len(s))
<1>1. CASE Blanks(s, 1, Len(s))
  <2>1. ParseU64(Trim(s)) = {}
    BY <1>1, TrimmedBlank, Zenon DEF ParseU64
  <2>2. ASSUME NEW k \in 1 .. Len(s), NEW j \in 0 .. k - 1, Number(s, j, k) PROVE FALSE
    <3>1. k \in j + 1 .. k
      OBVIOUS
    <3>2. s[k] \in Digits
      BY <2>2, <3>1, Zenon DEF Number
    <3> QED
      BY <1>1, <3>2, Distinct, Zenon DEF Blanks
  <2> QED
    BY <2>1, <2>2, Zenon DEF Numbers
<1>2. CASE ~Blanks(s, 1, Len(s))
  <2>1. PICK a \in 1 .. Len(s) : \E b \in a .. Len(s) : Ends(s, a, b)
    BY <1>2, EndsExist
  <2>2. PICK b \in a .. Len(s) : Ends(s, a, b)
    BY <2>1
  <2>3. Trim(s) = SubSeq(s, a, b)
    BY <2>2, Trimmed
  <2> DEFINE p == Before(s, a)
  <2>4. p \in 0 .. Len(s) /\ b \in p .. Len(s) /\ b \in 1 .. Len(s)
    BY DEF Before
  <2>n. Len(s) \in 0 .. Len(s)
    OBVIOUS
  <2>5. U64At(s, p, b) => Value(SubSeq(s, p + 1, b)) \in Nat
    BY <2>4, ValuePart, Zenon DEF U64At
  <2>6. ASSUME NEW v
        PROVE  v \in ParseU64(Trim(s)) <=>
                 p < b /\ U64At(s, p, b) /\ v = Value(SubSeq(s, p + 1, b))
    BY <2>3, ParsedPart, Zenon
  <2>7. \A k \in 1 .. Len(s) : \A j \in 0 .. k - 1 :
          Number(s, j, k) /\ Blanks(s, k + 1, Len(s)) <=>
            k = b /\ j = p /\ U64At(s, p, b)
    BY <2>2, <2>n, NumberEnds, Zenon DEF Ends
  <2> HIDE DEF p
  <2>8. p < b <=> p \in 0 .. b - 1
    BY <2>4
  <2>9. ASSUME NEW v PROVE v \in Numbers(s, Len(s)) <=> v \in ParseU64(Trim(s))
    BY <2>4, <2>5, <2>6, <2>7, <2>8, Zenon DEF Numbers
  <2> QED
    BY <2>9
<1> QED
  BY <1>1, <1>2

-----------------------------------------------------------------------------
(***************************************************************************)
(* Lower case.                                                             *)
(***************************************************************************)
\* A letter of LowerCase.
Low(c) ==
  CASE c = "M" -> "m" [] c = "S" -> "s" [] c = "K" -> "k" [] c = "H" -> "h" [] c = "D" -> "d"
    [] OTHER -> c

\* Lower case touches no blank, no plus sign and no digit.
LEMMA LowChar ==
  /\ \A c : Low(c) = Space <=> c = Space
  /\ \A c : Low(c) = Plus <=> c = Plus
  /\ \A c : Low(c) \in Digits <=> c \in Digits
  /\ \A c \in Digits : Low(c) = c
<1>1. Digits = {"0", "1", "2", "3", "4", "5", "6", "7", "8", "9"}
  BY DEF Digits, Numerals, ToSet
<1> QED
  BY <1>1 DEF Low, Space, Plus

\* A letter of a suffix is what is the same letter in either case.
LEMMA LowLetter ==
  ASSUME NEW l \in DOMAIN Capital
  PROVE  l # Space /\ l \notin Digits /\ \A c : Low(c) = l <=> SameLetter(c, l)
<1>1. Digits = {"0", "1", "2", "3", "4", "5", "6", "7", "8", "9"}
  BY DEF Digits, Numerals, ToSet
<1>2. l \in {"m", "s", "k", "h", "d"}
  BY DEF Capital
<1>3. l # Space /\ l \notin Digits
  BY <1>1, <1>2 DEF Space
<1>4. \A c : Low(c) = l <=> SameLetter(c, l)
  BY <1>2 DEF Low, SameLetter, Capital
<1> QED
  BY <1>3, <1>4

\* LowerCase goes through the letters one by one.
LEMMA Lowered ==
  ASSUME NEW X, NEW s \in Seq(X)
  PROVE  /\ LowerCase(s) \in Seq(X \cup DOMAIN Capital) /\ Len(LowerCase(s)) = Len(s)
         /\ \A i \in 1 .. Len(s) : LowerCase(s)[i] = Low(s[i])
<1>1. LowerCase(s) = [i \in 1 .. Len(s) |-> Low(s[i])]
  <2>1. DOMAIN s = 1 .. Len(s)
    OBVIOUS
  <2> QED
    BY <2>1, Zenon DEF LowerCase, Low
<1>2. \A c \in X : Low(c) \in X \cup DOMAIN Capital
  BY DEF Low, Capital
<1> QED
  BY <1>1, <1>2

\* Numbers are the same in lower case and with the first blanks removed.
LEMMA Shifted ==
  ASSUME NEW X, NEW s \in Seq(X), NEW Y, NEW t \in Seq(Y), NEW c \in 0 .. Len(s),
         c + Len(t) <= Len(s), \A i \in 1 .. Len(t) : t[i] = Low(s[c + i]),
         Blanks(s, 1, c), s[c + 1] # Space
  PROVE  Numbers(t, Len(t)) = Numbers(s, c + Len(t))
<1> DEFINE m == Len(t)
<1>m. m \in Nat /\ c \in Nat /\ c + m <= Len(s) /\ Len(s) \in Nat
  OBVIOUS
<1>l. \A i \in 1 .. m : t[i] = Low(s[c + i])
  OBVIOUS
<1> HIDE DEF m
<1>1. ASSUME NEW i \in 1 .. m
      PROVE  /\ t[i] = Space <=> s[c + i] = Space
             /\ t[i] = Plus <=> s[c + i] = Plus
             /\ t[i] \in Digits <=> s[c + i] \in Digits
             /\ t[i] \in Digits => t[i] = s[c + i]
  BY <1>l, LowChar, Zenon
<1>2. ASSUME NEW i \in Nat, NEW l \in Nat, 1 <= i, l <= m
      PROVE  Blanks(t, i, l) <=> Blanks(s, c + i, c + l)
  <2>1. ASSUME Blanks(t, i, l), NEW n \in c + i .. c + l PROVE s[n] = Space
    <3>1. n - c \in i .. l /\ n - c \in 1 .. m /\ c + (n - c) = n
      BY <1>2, <1>m
    <3>2. t[n - c] = Space
      BY <2>1, <3>1, Zenon DEF Blanks
    <3>3. t[n - c] = Space <=> s[c + (n - c)] = Space
      BY <3>1, <1>1, Zenon
    <3> QED
      BY <3>1, <3>2, <3>3, Zenon
  <2>2. ASSUME Blanks(s, c + i, c + l), NEW n \in i .. l PROVE t[n] = Space
    <3>1. c + n \in c + i .. c + l /\ n \in 1 .. m
      BY <1>2, <1>m
    <3> QED
      BY <3>1, <1>1, <2>2, Zenon DEF Blanks
  <2> QED
    BY <2>1, <2>2, Zenon DEF Blanks
<1>3. ASSUME NEW l \in Nat, l <= m
      PROVE  Blanks(t, 1, l) <=> Blanks(s, 1, c + l)
  <2>1. Blanks(s, 1, c + l) <=> Blanks(s, c + 1, c + l)
    BY <1>m DEF Blanks
  <2> QED
    BY <2>1, <1>2, <1>3
<1> DEFINE DigitsIn(q, j, k) == \A i \in j + 1 .. k : q[i] \in Digits
<1>4. ASSUME NEW k \in 1 .. m, NEW j \in 0 .. k - 1
      PROVE  /\ DigitsIn(t, j, k) <=> DigitsIn(s, c + j, c + k)
             /\ DigitsIn(t, j, k) => SubSeq(t, j + 1, k) = SubSeq(s, c + j + 1, c + k)
  <2>1. \A i \in j + 1 .. k : i \in 1 .. m /\ c + i \in c + j + 1 .. c + k
    BY <1>m
  <2>2. \A n \in c + j + 1 .. c + k : n - c \in j + 1 .. k /\ c + (n - c) = n
    BY <1>m
  <2>3. DigitsIn(t, j, k) => DigitsIn(s, c + j, c + k)
    <3> SUFFICES ASSUME DigitsIn(t, j, k), NEW n \in c + j + 1 .. c + k PROVE s[n] \in Digits
      OBVIOUS
    <3>1. t[n - c] \in Digits /\ n - c \in 1 .. m /\ c + (n - c) = n
      BY <2>1, <2>2, Zenon
    <3> QED
      BY <3>1, <1>1
  <2>4. DigitsIn(s, c + j, c + k) => DigitsIn(t, j, k)
    BY <2>1, <1>1, Zenon
  <2>5. ASSUME DigitsIn(t, j, k)
        PROVE  SubSeq(t, j + 1, k) = SubSeq(s, c + j + 1, c + k)
    <3> DEFINE d == SubSeq(t, j + 1, k)
               e == SubSeq(s, c + j + 1, c + k)
    <3>1. /\ d \in Seq(Y) /\ Len(d) = k - (j + 1) + 1
          /\ \A i \in 1 .. k - (j + 1) + 1 : d[i] = t[j + 1 + i - 1]
      <4>1. j + 1 \in 1 .. Len(t) + 1 /\ k \in j + 1 - 1 .. Len(t)
        BY DEF m
      <4> QED
        BY <4>1, Part
    <3>2. /\ e \in Seq(X) /\ Len(e) = c + k - (c + j + 1) + 1
          /\ \A i \in 1 .. c + k - (c + j + 1) + 1 : e[i] = s[c + j + 1 + i - 1]
      <4>1. c + j + 1 \in 1 .. Len(s) + 1 /\ c + k \in c + j + 1 - 1 .. Len(s)
        BY <1>m
      <4> QED
        BY <4>1, Part
    <3> HIDE DEF d, e
    <3>3. ASSUME NEW i \in 1 .. k - j PROVE d[i] = e[i]
      <4>1. d[i] = t[j + i] /\ e[i] = s[c + (j + i)] /\ j + i \in j + 1 .. k
        BY <3>1, <3>2, <1>m
      <4> QED
        BY <4>1, <2>1, <2>5, <1>1, Zenon
    <3>4. d \in Seq(X \cup Y) /\ e \in Seq(X \cup Y) /\ Len(d) = k - j /\ Len(e) = k - j
      BY <3>1, <3>2, <1>m
    <3>5. d = e
      BY <3>3, <3>4
    <3> QED
      BY <3>5, Zenon DEF d, e
  <2> QED
    BY <2>3, <2>4, <2>5
<1>5. ASSUME NEW k \in 1 .. m, NEW j \in 0 .. k - 1
      PROVE  Number(t, j, k) <=> Number(s, c + j, c + k)
  <2>0. j \in Nat /\ j <= m
    BY <1>m
  <2>1. Blanks(t, 1, j) <=> Blanks(s, 1, c + j)
    BY <2>0, <1>3, Zenon
  <2>2. j > 0 => /\ t[j] = Plus <=> s[c + j] = Plus
                 /\ Blanks(t, 1, j - 1) <=> Blanks(s, 1, c + j - 1)
    <3> SUFFICES ASSUME j > 0 PROVE /\ t[j] = Plus <=> s[c + j] = Plus
                                    /\ Blanks(t, 1, j - 1) <=> Blanks(s, 1, c + j - 1)
      OBVIOUS
    <3>1. j \in 1 .. m /\ j - 1 \in Nat /\ j - 1 <= m /\ c + (j - 1) = c + j - 1
      BY <1>m
    <3>2. Blanks(t, 1, j - 1) <=> Blanks(s, 1, c + (j - 1))
      BY <3>1, <1>3, Zenon
    <3> QED
      BY <3>1, <3>2, <1>1
  <2>3. j = 0 /\ c > 0 => s[c + j] # Plus
    <3>1. c > 0 => s[c] = Space
      BY <1>m DEF Blanks
    <3> QED
      BY <3>1, Distinct, <1>m
  <2>4. j > 0 \/ j = 0
    OBVIOUS
  <2>5. j > 0 => c + j > 0
    BY <1>m
  <2> DEFINE Start(q, i) == Blanks(q, 1, i) \/ (i > 0 /\ q[i] = Plus /\ Blanks(q, 1, i - 1))
  <2>6. Start(t, j) <=> Start(s, c + j)
    <3>1. CASE j > 0
      BY <3>1, <2>1, <2>2, <2>5
    <3>2. CASE j = 0
      <4>1. c + j = c
        BY <3>2, <1>m
      <4>2. Blanks(s, 1, c + j)
        BY <4>1, Zenon
      <4> QED
        BY <4>2, <2>1, Zenon
    <3> QED
      BY <3>1, <3>2, <2>4
  <2>7. DigitsIn(t, j, k) <=> DigitsIn(s, c + j, c + k)
    BY <1>4, Zenon
  <2>8. DigitsIn(t, j, k) => SubSeq(t, j + 1, k) = SubSeq(s, c + j + 1, c + k)
    BY <1>4, Zenon
  <2>9. /\ Number(t, j, k) <=> DigitsIn(t, j, k) /\ Value(SubSeq(t, j + 1, k)) <= U64Max
                                 /\ Start(t, j)
        /\ Number(s, c + j, c + k) <=>
             DigitsIn(s, c + j, c + k) /\ Value(SubSeq(s, c + j + 1, c + k)) <= U64Max
               /\ Start(s, c + j)
    BY Zenon DEF Number
  <2> HIDE DEF DigitsIn, Start
  <2> QED
    BY <2>6, <2>7, <2>8, <2>9, Zenon
<1>6. ASSUME NEW k \in 1 .. m, NEW j \in 0 .. k - 1, Number(t, j, k)
      PROVE  SubSeq(t, j + 1, k) = SubSeq(s, c + j + 1, c + k)
  BY <1>4, <1>6, Zenon DEF Number
\* A number of s begins after the blanks.
<1>7. ASSUME NEW k \in 1 .. c + m, NEW j \in 0 .. k - 1, Number(s, j, k)
      PROVE  j >= c
  <2>1. j + 1 \in j + 1 .. k /\ j \in Nat
    OBVIOUS
  <2>2. s[j + 1] # Space
    BY <2>1, <1>7, Distinct, Zenon DEF Number
  <2> SUFFICES ASSUME ~(j >= c) PROVE FALSE
    OBVIOUS
  <2>3. j + 1 \in 1 .. c
    BY <1>m, <2>1
  <2> QED
    BY <2>2, <2>3, Zenon DEF Blanks
<1>8. ASSUME NEW v \in Numbers(t, m) PROVE v \in Numbers(s, c + m)
  <2>0. PICK k \in 1 .. m : \E j \in 0 .. k - 1 :
          Number(t, j, k) /\ Blanks(t, k + 1, m) /\ v = Value(SubSeq(t, j + 1, k))
    BY Zenon DEF Numbers
  <2>1. PICK j \in 0 .. k - 1 :
          Number(t, j, k) /\ Blanks(t, k + 1, m) /\ v = Value(SubSeq(t, j + 1, k))
    BY <2>0
  <2>2. c + k \in 1 .. c + m /\ c + j \in 0 .. c + k - 1 /\ k + 1 \in Nat /\ c + (k + 1) = c + k + 1
        /\ 1 <= k + 1 /\ m <= m
    BY <1>m
  <2>3. Blanks(s, c + k + 1, c + m)
    BY <2>1, <2>2, <1>2, <1>m, Zenon
  <2>4. Number(s, c + j, c + k) /\ v = Value(SubSeq(s, c + j + 1, c + k))
    BY <2>1, <1>5, <1>6, Zenon
  <2>5. v \in Nat
    BY Zenon DEF Numbers
  <2> DEFINE l == c + k
  <2>6. \E i \in 0 .. l - 1 : Number(s, i, l) /\ Blanks(s, l + 1, c + m)
                               /\ v = Value(SubSeq(s, i + 1, l))
    <3>1. c + j \in 0 .. l - 1
      BY <2>2
    <3> QED
      BY <2>3, <2>4, <3>1, Zenon
  <2>7. l \in 1 .. c + m
    BY <2>2
  <2> HIDE DEF l
  <2> QED
    BY <2>5, <2>6, <2>7, Zenon DEF Numbers
<1>9. ASSUME NEW v \in Numbers(s, c + m) PROVE v \in Numbers(t, m)
  <2>0. PICK k \in 1 .. c + m : \E j \in 0 .. k - 1 :
          Number(s, j, k) /\ Blanks(s, k + 1, c + m) /\ v = Value(SubSeq(s, j + 1, k))
    BY Zenon DEF Numbers
  <2>1. PICK j \in 0 .. k - 1 :
          Number(s, j, k) /\ Blanks(s, k + 1, c + m) /\ v = Value(SubSeq(s, j + 1, k))
    BY <2>0
  <2>2. j >= c
    BY <2>1, <1>7, Zenon
  <2>3. k - c \in 1 .. m /\ j - c \in 0 .. k - c - 1 /\ c + (k - c) = k /\ c + (j - c) = j
        /\ k - c + 1 \in Nat /\ 1 <= k - c + 1 /\ c + (k - c + 1) = k + 1 /\ m <= m
    BY <1>m, <2>2
  <2>4. Blanks(t, k - c + 1, m)
    BY <2>1, <2>3, <1>2, <1>m, Zenon
  <2>5. Number(t, j - c, k - c)
    BY <2>1, <2>3, <1>5, Zenon
  <2>6. SubSeq(t, j - c + 1, k - c) = SubSeq(s, j + 1, k)
    BY <2>3, <2>5, <1>6, Zenon
  <2>7. v \in Nat
    BY Zenon DEF Numbers
  <2> QED
    BY <2>1, <2>3, <2>4, <2>5, <2>6, <2>7, Zenon DEF Numbers
<1> QED
  BY <1>8, <1>9 DEF m

-----------------------------------------------------------------------------
(***************************************************************************)
(* Suffixes.                                                               *)
(***************************************************************************)
\* What both parsers begin with.
LowerTrim(s) == LowerCase(Trim(s))

\* What the parsers make of s: the letters from a to b in lower case, parts of which are
\* numbers when the same part of s is.
LEMMA LoweredTrimmed ==
  ASSUME NEW X, NEW s \in Seq(X), NEW a \in 1 .. Len(s), NEW b \in a .. Len(s), Ends(s, a, b)
  PROVE  /\ LowerTrim(s) \in Seq(X \cup DOMAIN Capital) /\ Len(LowerTrim(s)) = b - a + 1
         /\ \A i \in 1 .. b - a + 1 : LowerTrim(s)[i] = Low(s[a - 1 + i])
<1> DEFINE d == SubSeq(s, a, b)
           sl == LowerTrim(s)
<1>1. a \in 1 .. Len(s) + 1 /\ b \in a - 1 .. Len(s)
  OBVIOUS
<1>2. d \in Seq(X) /\ Len(d) = b - a + 1 /\ \A i \in 1 .. b - a + 1 : d[i] = s[a + i - 1]
  BY <1>1, Part
<1>3. sl = LowerCase(d)
  BY Trimmed, Zenon DEF LowerTrim
<1> HIDE DEF d, sl
<1>4. /\ sl \in Seq(X \cup DOMAIN Capital) /\ Len(sl) = Len(d)
      /\ \A i \in 1 .. Len(d) : sl[i] = Low(d[i])
  BY <1>2, <1>3, Lowered, Zenon
<1>5. \A i \in 1 .. b - a + 1 : d[i] = s[a - 1 + i]
  <2>1. \A i \in 1 .. b - a + 1 : a + i - 1 = a - 1 + i
    OBVIOUS
  <2> QED
    BY <1>2, <2>1
<1> QED
  BY <1>2, <1>4, <1>5, Zenon DEF sl

\* What the parsers read in front of a suffix are the numbers there in s.
LEMMA ParsedPrefix ==
  ASSUME NEW X, NEW s \in Seq(X), NEW a \in 1 .. Len(s), NEW b \in a .. Len(s), Ends(s, a, b),
         NEW m \in 0 .. b - a + 1
  PROVE  ParseU64(Trim(SubSeq(LowerTrim(s), 1, m))) = Numbers(s, a - 1 + m)
<1> DEFINE Y == X \cup DOMAIN Capital
           sl == LowerTrim(s)
           t == SubSeq(sl, 1, m)
           c == a - 1
<1>1. sl \in Seq(Y) /\ Len(sl) = b - a + 1 /\ \A i \in 1 .. b - a + 1 : sl[i] = Low(s[a - 1 + i])
  BY LoweredTrimmed, Zenon
<1> HIDE DEF Y
<1>2. t \in Seq(Y) /\ Len(t) = m - 1 + 1 /\ \A i \in 1 .. m - 1 + 1 : t[i] = sl[1 + i - 1]
  <2>1. 1 \in 1 .. Len(sl) + 1 /\ m \in 1 - 1 .. Len(sl)
    BY <1>1
  <2> QED
    BY <1>1, <2>1, Part, Zenon
<1> HIDE DEF t
<1>3. Len(t) = m /\ \A i \in 1 .. m : t[i] = Low(s[c + i])
  <2>1. m - 1 + 1 = m /\ \A i \in 1 .. m : 1 + i - 1 = i /\ i \in 1 .. b - a + 1
    OBVIOUS
  <2> QED
    BY <1>1, <1>2, <2>1
<1>4. c \in 0 .. Len(s) /\ c + Len(t) <= Len(s) /\ c + 1 = a
  BY <1>3
<1>5. Blanks(s, 1, c) /\ s[c + 1] # Space
  BY <1>4, Zenon DEF Ends
<1> HIDE DEF c
<1>6. Numbers(t, Len(t)) = Numbers(s, c + Len(t))
  BY <1>2, <1>3, <1>4, <1>5, Shifted, Zenon
<1>7. ParseU64(Trim(t)) = Numbers(t, Len(t))
  BY <1>2, ParsedTrimmed, Zenon
<1> QED
  BY <1>3, <1>6, <1>7, Zenon DEF c, t

\* Without a suffix, parse_rate reads all of it and does not trim again.
LEMMA ParsedAll ==
  ASSUME NEW X, NEW s \in Seq(X), NEW a \in 1 .. Len(s), NEW b \in a .. Len(s), Ends(s, a, b)
  PROVE  ParseU64(LowerTrim(s)) = Numbers(s, b)
<1> DEFINE Y == X \cup DOMAIN Capital
           sl == LowerTrim(s)
           n == b - a + 1
<1>1. sl \in Seq(Y) /\ Len(sl) = n /\ \A i \in 1 .. n : sl[i] = Low(s[a - 1 + i])
  BY LoweredTrimmed, Zenon
<1> HIDE DEF Y
<1>2. SubSeq(sl, 1, n) = sl
  BY <1>1
<1>3. n \in 1 .. Len(sl) /\ 1 \in 1 .. Len(sl) /\ n \in 1 .. n /\ a - 1 + n = b /\ a - 1 + 1 = a
      /\ n \in 0 .. b - a + 1
  BY <1>1
<1>4. sl[1] # Space /\ sl[n] # Space
  <2>1. sl[1] = Low(s[a]) /\ sl[n] = Low(s[b])
    <3>1. 1 \in 1 .. n
      BY <1>3
    <3>2. sl[1] = Low(s[a - 1 + 1]) /\ sl[n] = Low(s[a - 1 + n])
      BY <1>1, <1>3, <3>1, Zenon
    <3> QED
      BY <1>3, <3>2
  <2> QED
    BY <2>1, LowChar, Zenon DEF Ends
<1>5. Blanks(sl, 1, 1 - 1) /\ Blanks(sl, n + 1, Len(sl))
  BY <1>1 DEF Blanks
<1>6. Trim(sl) = SubSeq(sl, 1, n)
  <2>1. Ends(sl, 1, n)
    BY <1>4, <1>5, Zenon DEF Ends
  <2> QED
    BY <1>1, <1>3, <2>1, Trimmed, Zenon
<1>7. ParseU64(Trim(SubSeq(sl, 1, n))) = Numbers(s, a - 1 + n)
  <2> HIDE DEF n
  <2> QED
    BY <1>3, ParsedPrefix, Zenon
<1>8. a - 1 + n = b
  OBVIOUS
<1> HIDE DEF n
<1> QED
  BY <1>2, <1>6, <1>7, <1>8, Zenon

\* The letters of u end at b.
EndsIn(s, b, u) == Len(u) <= b /\ \A i \in 1 .. Len(u) : Low(s[b - Len(u) + i]) = u[i]

\* A suffix of s ends where s ends, and only blanks are between a number and it.
LEMMA SuffixEnds ==
  ASSUME NEW X, NEW s \in Seq(X), NEW a \in 1 .. Len(s), NEW b \in a .. Len(s), Ends(s, a, b),
         NEW u \in Seq(DOMAIN Capital), NEW k \in 1 .. Len(s), s[k] # Space
  PROVE  Suffix(s, k, u) <=>
           k <= b - Len(u) /\ EndsIn(s, b, u) /\ Blanks(s, k + 1, b - Len(u))
<1> DEFINE w == Len(u)
<1>0. w \in Nat /\ DOMAIN u = 1 .. w /\ \A i \in 1 .. w : u[i] \in DOMAIN Capital
  OBVIOUS
<1> HIDE DEF w
<1>k. k <= b
  <2>1. ~(k \in b + 1 .. Len(s))
    BY Zenon DEF Ends, Blanks
  <2> QED
    BY <2>1
<1>s. ASSUME NEW l \in k .. Len(s) - w
      PROVE  (\A i \in DOMAIN u : SameLetter(s[l + i], u[i])) <=>
               \A i \in 1 .. w : Low(s[l + i]) = u[i]
  BY <1>0, LowLetter, Zenon
<1>1. ASSUME NEW l \in k .. Len(s) - w, Blanks(s, k + 1, l), Blanks(s, l + w + 1, Len(s)),
             \A i \in 1 .. w : Low(s[l + i]) = u[i]
      PROVE  k <= b - w /\ EndsIn(s, b, u) /\ Blanks(s, k + 1, b - w)
  <2>1. ~(b \in l + w + 1 .. Len(s))
    BY <1>1, Zenon DEF Ends, Blanks
  <2>2. CASE w = 0
    <3>1. b <= l
      BY <2>1, <2>2, <1>0
    <3>2. Blanks(s, k + 1, b)
      BY <1>1, <3>1 DEF Blanks
    <3> QED
      BY <2>2, <3>2, <1>k DEF EndsIn, w
  <2>3. CASE w # 0
    <3>1. w \in 1 .. w
      BY <2>3, <1>0
    <3>2. s[l + w] # Space
      <4>1. u[w] # Space
        BY <1>0, <3>1, LowLetter, Zenon
      <4>2. Low(s[l + w]) = u[w]
        BY <1>1, <3>1, Zenon
      <4> QED
        BY <4>1, <4>2, LowChar, Zenon
    <3>3. ~(l + w \in b + 1 .. Len(s))
      BY <3>2, Zenon DEF Ends, Blanks
    <3>4. l = b - w
      BY <2>1, <3>3, <1>0
    <3>5. w <= b
      BY <3>4, <1>0
    <3> QED
      BY <1>1, <3>4, <3>5 DEF EndsIn, w
  <2> QED
    BY <2>2, <2>3
<1>2. ASSUME k <= b - w, EndsIn(s, b, u), Blanks(s, k + 1, b - w)
      PROVE  \E l \in k .. Len(s) - w :
               /\ Blanks(s, k + 1, l) /\ Blanks(s, l + w + 1, Len(s))
               /\ \A i \in 1 .. w : Low(s[l + i]) = u[i]
  <2>1. b - w \in k .. Len(s) - w /\ b - w + w + 1 = b + 1
    BY <1>2, <1>0
  <2>2. Blanks(s, b - w + w + 1, Len(s))
    BY <2>1, Zenon DEF Ends
  <2> QED
    BY <1>2, <2>1, <2>2, Zenon DEF EndsIn, w
<1>3. Suffix(s, k, u) <=> \E l \in k .. Len(s) - w :
               /\ Blanks(s, k + 1, l) /\ Blanks(s, l + w + 1, Len(s))
               /\ \A i \in 1 .. w : Low(s[l + i]) = u[i]
  BY <1>s, Zenon DEF Suffix, w
<1> QED
  BY <1>1, <1>2, <1>3, Zenon DEF w

\* A number has a value and ends with a digit.
LEMMA NumberValue ==
  ASSUME NEW X, NEW s \in Seq(X), NEW k \in 1 .. Len(s), NEW j \in 0 .. k - 1, Number(s, j, k)
  PROVE  Value(SubSeq(s, j + 1, k)) \in Nat /\ s[k] # Space /\ s[k] \in Digits
<1>1. j \in 0 .. Len(s) /\ k \in j .. Len(s) /\ k \in j + 1 .. k
  OBVIOUS
<1>2. \A i \in j + 1 .. k : s[i] \in Digits
  BY Zenon DEF Number
<1>3. Value(SubSeq(s, j + 1, k)) \in Nat
  BY <1>1, <1>2, ValuePart, Zenon
<1>4. s[k] \in Digits
  BY <1>1, <1>2, Zenon
<1> QED
  BY <1>3, <1>4, Distinct, Zenon

\* What is blank or ends with a letter is no number.
LEMMA NoNumbers ==
  ASSUME NEW X, NEW s \in Seq(X), NEW m \in Int, m <= Len(s),
         Blanks(s, 1, m) \/ (m > 0 /\ s[m] # Space /\ s[m] \notin Digits)
  PROVE  Numbers(s, m) = {}
<1> SUFFICES ASSUME NEW k \in 1 .. m, NEW j \in 0 .. k - 1,
                    Number(s, j, k), Blanks(s, k + 1, m)
             PROVE  FALSE
  BY Zenon DEF Numbers
<1>1. k \in 1 .. Len(s)
  OBVIOUS
<1>2. s[k] # Space /\ s[k] \in Digits
  BY <1>1, NumberValue, Zenon
<1>3. ~Blanks(s, 1, m)
  BY <1>2, Zenon DEF Blanks
<1>4. m > 0 /\ s[m] # Space /\ s[m] \notin Digits
  BY <1>3
<1>5. ~(m \in k + 1 .. m)
  BY <1>4, Zenon DEF Blanks
<1>6. k = m
  BY <1>5
<1> QED
  BY <1>2, <1>4, <1>6

\* Values, member by member.
LEMMA ValuesAre ==
  ASSUME NEW s, NEW u, NEW v
  PROVE  v \in Values(s, u) <=>
           \E k \in 1 .. Len(s) : \E j \in 0 .. k - 1 :
             Number(s, j, k) /\ Suffix(s, k, u) /\ v = Value(SubSeq(s, j + 1, k))
<1> DEFINE J(k) == {j \in 0 .. k - 1 : Number(s, j, k)}
           V(k) == {Value(SubSeq(s, j + 1, k)) : j \in J(k)}
           K == {k \in 1 .. Len(s) : Suffix(s, k, u)}
<1>1. Values(s, u) = UNION {V(k) : k \in K}
  BY DEF Values
<1>2. \A k : v \in V(k) <=> \E j \in J(k) : v = Value(SubSeq(s, j + 1, k))
  <2> HIDE DEF J
  <2> QED
    BY Zenon
<1> HIDE DEF V
<1>3. v \in Values(s, u) <=> \E k \in K : v \in V(k)
  BY <1>1, Zenon
<1> QED
  BY <1>2, <1>3, Zenon

\* A blank string has no value.
LEMMA ValuesBlank ==
  ASSUME NEW X, NEW s \in Seq(X), Blanks(s, 1, Len(s)), NEW u
  PROVE  Values(s, u) = {}
<1>1. ASSUME NEW k \in 1 .. Len(s), NEW j \in 0 .. k - 1 PROVE ~Number(s, j, k)
  BY NumberValue, Zenon DEF Blanks
<1>2. ASSUME NEW v PROVE v \notin Values(s, u)
  BY <1>1, ValuesAre, Zenon
<1> QED
  BY <1>2

\* What s means with the suffix u is what the part before u at its end is as a number.
LEMMA ValuesEnds ==
  ASSUME NEW X, NEW s \in Seq(X), NEW a \in 1 .. Len(s), NEW b \in a .. Len(s), Ends(s, a, b),
         NEW u \in Seq(DOMAIN Capital)
  PROVE  Values(s, u) = IF EndsIn(s, b, u) THEN Numbers(s, b - Len(u)) ELSE {}
<1>1. ASSUME NEW k \in 1 .. Len(s), NEW j \in 0 .. k - 1
      PROVE  Number(s, j, k) /\ Suffix(s, k, u) <=>
               /\ EndsIn(s, b, u) /\ k <= b - Len(u)
               /\ Number(s, j, k) /\ Blanks(s, k + 1, b - Len(u))
  <2>1. CASE Number(s, j, k)
    <3>1. s[k] # Space
      BY <2>1, NumberValue, Zenon
    <3> QED
      BY <2>1, <3>1, SuffixEnds, Zenon
  <2> QED
    BY <2>1
<1>2. ASSUME NEW k \in 1 .. Len(s)
      PROVE  k <= b - Len(u) <=> k \in 1 .. b - Len(u)
  <2>1. Len(u) \in Nat
    OBVIOUS
  <2> QED
    BY <2>1
<1>3. ASSUME NEW k \in 1 .. b - Len(u)
      PROVE  k \in 1 .. Len(s)
  <2>1. Len(u) \in Nat
    OBVIOUS
  <2> QED
    BY <2>1
<1>4. ASSUME NEW v
      PROVE  v \in Numbers(s, b - Len(u)) <=>
               \E k \in 1 .. b - Len(u) : \E j \in 0 .. k - 1 :
                 /\ Number(s, j, k) /\ Blanks(s, k + 1, b - Len(u))
                 /\ v = Value(SubSeq(s, j + 1, k))
  BY <1>3, NumberValue, Zenon DEF Numbers
<1>5. ASSUME NEW v \in Values(s, u)
      PROVE  EndsIn(s, b, u) /\ v \in Numbers(s, b - Len(u))
  <2>1. PICK k \in 1 .. Len(s) : \E j \in 0 .. k - 1 :
          Number(s, j, k) /\ Suffix(s, k, u) /\ v = Value(SubSeq(s, j + 1, k))
    BY ValuesAre
  <2> QED
    BY <2>1, <1>1, <1>2, <1>4, Zenon
<1>6. ASSUME EndsIn(s, b, u), NEW v \in Numbers(s, b - Len(u))
      PROVE  v \in Values(s, u)
  <2>1. PICK k \in 1 .. b - Len(u) : \E j \in 0 .. k - 1 :
                 /\ Number(s, j, k) /\ Blanks(s, k + 1, b - Len(u))
                 /\ v = Value(SubSeq(s, j + 1, k))
    BY <1>4, Zenon
  <2>2. k \in 1 .. Len(s) /\ k <= b - Len(u)
    BY <1>2, <1>3, Zenon
  <2> QED
    BY <1>1, <1>6, <2>1, <2>2, ValuesAre, Zenon
<1> QED
  BY <1>5, <1>6

\* The tests of the parsers: ends_with one letter ...
LEMMA OneSuffix ==
  ASSUME NEW Y, NEW sl \in Seq(Y), NEW x
  PROVE  IsSuffix(<<x>>, sl) <=> Len(sl) >= 1 /\ sl[Len(sl)] = x
BY DEF IsSuffix, IsPrefix, Reverse

\* ... and two.
LEMMA TwoSuffix ==
  ASSUME NEW Y, NEW sl \in Seq(Y), NEW x, NEW y
  PROVE  IsSuffix(<<x, y>>, sl) <=>
           Len(sl) >= 2 /\ sl[Len(sl) - 1] = x /\ sl[Len(sl)] = y
BY DEF IsSuffix, IsPrefix, Reverse

\* No number exceeds a u64.
LEMMA NumbersBound ==
  ASSUME NEW s, NEW m, NEW v \in Numbers(s, m)
  PROVE  v \in Nat /\ v <= U64Max
BY Zenon DEF Numbers, Number

\* Meaning, member by member.
LEMMA MeaningIs ==
  ASSUME NEW s, NEW units, NEW x
  PROVE  x \in Meaning(s, units) <=>
           \E u \in DOMAIN units : \E v \in Values(s, u) : x = v * units[u]
<1> DEFINE V(u) == {v * units[u] : v \in Values(s, u)}
<1>1. Meaning(s, units) = UNION {V(u) : u \in DOMAIN units}
  BY DEF Meaning
<1>2. \A u : x \in V(u) <=> \E v \in Values(s, u) : x = v * units[u]
  BY Zenon
<1> HIDE DEF V
<1>3. x \in Meaning(s, units) <=> \E u \in DOMAIN units : x \in V(u)
  BY <1>1, Zenon
<1> QED
  BY <1>2, <1>3, Zenon

\* What split_at and strip_suffix leave in front of a suffix.
LEMMA Fronts ==
  ASSUME NEW Y, NEW sl \in Seq(Y)
  PROVE  /\ Len(sl) >= 1 => Front(sl) = SubSeq(sl, 1, Len(sl) - 1)
         /\ Len(sl) >= 2 => Front(Front(sl)) = SubSeq(sl, 1, Len(sl) - 2)
         /\ Last(sl) = sl[Len(sl)]
<1>1. Len(sl) >= 2 => Front(Front(sl)) = SubSeq(sl, 1, Len(sl) - 2)
  <2> SUFFICES ASSUME Len(sl) >= 2 PROVE Front(Front(sl)) = SubSeq(sl, 1, Len(sl) - 2)
    OBVIOUS
  <2> DEFINE f == Front(sl)
             n == Len(sl)
             g == SubSeq(sl, 1, Len(sl) - 2)
  <2>0. n \in Nat /\ n >= 2
    OBVIOUS
  <2>1. f \in Seq(Y) /\ Len(f) = n - 1 /\ \A i \in 1 .. n - 1 : f[i] = sl[i]
    BY DEF Front
  <2>2. g \in Seq(Y) /\ Len(g) = n - 2 /\ \A i \in 1 .. n - 2 : g[i] = sl[i]
    <3> DEFINE m == n - 2
    <3>1. 1 \in 1 .. Len(sl) + 1 /\ m \in 1 - 1 .. Len(sl)
      OBVIOUS
    <3>2. m - 1 + 1 = m /\ \A i \in 1 .. m : 1 + i - 1 = i
      OBVIOUS
    <3>3. g = SubSeq(sl, 1, m)
      OBVIOUS
    <3> HIDE DEF g, m
    <3>4. g \in Seq(Y) /\ Len(g) = m - 1 + 1 /\ \A i \in 1 .. m - 1 + 1 : g[i] = sl[1 + i - 1]
      BY <3>1, <3>3, Part, Zenon
    <3>5. g \in Seq(Y) /\ Len(g) = m /\ \A i \in 1 .. m : g[i] = sl[i]
      BY <3>2, <3>4
    <3> QED
      BY <3>5, Zenon DEF m
  <2> HIDE DEF f, g
  <2>3. /\ Front(f) \in Seq(Y) /\ Len(Front(f)) = n - 2
        /\ \A i \in 1 .. n - 2 : Front(f)[i] = f[i]
    BY <2>0, <2>1 DEF Front
  <2> HIDE DEF n
  <2>4. Front(f) = g
    BY <2>0, <2>1, <2>2, <2>3
  <2> QED
    BY <2>4, Zenon DEF f, g
<1> QED
  BY <1>1, Zenon DEF Front, Last

\* The parsers' parts of s.
LEMMA ParsedFronts ==
  ASSUME NEW X, NEW s \in Seq(X), NEW a \in 1 .. Len(s), NEW b \in a .. Len(s), Ends(s, a, b)
  PROVE  /\ LowerTrim(s) \in Seq(X \cup DOMAIN Capital) /\ Len(LowerTrim(s)) = b - a + 1
         /\ Last(LowerTrim(s)) = Low(s[b])
         /\ a < b => LowerTrim(s)[Len(LowerTrim(s)) - 1] = Low(s[b - 1])
         /\ ParseU64(Trim(Front(LowerTrim(s)))) = Numbers(s, b - 1)
         /\ a < b => ParseU64(Trim(Front(Front(LowerTrim(s))))) = Numbers(s, b - 2)
<1> DEFINE Y == X \cup DOMAIN Capital
           sl == LowerTrim(s)
           n == b - a + 1
<1>1. sl \in Seq(Y) /\ Len(sl) = n /\ \A i \in 1 .. n : sl[i] = Low(s[a - 1 + i])
  BY LoweredTrimmed, Zenon
<1> HIDE DEF Y, sl
<1>2. Last(sl) = Low(s[b])
  <2>1. n \in 1 .. n /\ a - 1 + n = b
    OBVIOUS
  <2>2. Last(sl) = sl[n]
    BY <1>1, Fronts, Zenon
  <2>3. sl[n] = Low(s[a - 1 + n])
    BY <1>1, <2>1, Zenon
  <2> QED
    BY <2>1, <2>2, <2>3
<1>3. a < b => sl[n - 1] = Low(s[b - 1])
  <2> SUFFICES ASSUME a < b PROVE sl[n - 1] = Low(s[b - 1])
    OBVIOUS
  <2>1. n - 1 \in 1 .. n /\ a - 1 + (n - 1) = b - 1
    OBVIOUS
  <2>2. sl[n - 1] = Low(s[a - 1 + (n - 1)])
    BY <1>1, <2>1, Zenon
  <2> QED
    BY <2>1, <2>2
<1>4. ParseU64(Trim(Front(sl))) = Numbers(s, b - 1)
  <2>1. n - 1 \in 0 .. b - a + 1 /\ a - 1 + (n - 1) = b - 1 /\ n >= 1
    OBVIOUS
  <2>2. Front(sl) = SubSeq(sl, 1, n - 1)
    BY <1>1, <2>1, Fronts, Zenon
  <2> DEFINE m == n - 1
  <2>3. ParseU64(Trim(SubSeq(sl, 1, m))) = Numbers(s, a - 1 + m)
    <3> HIDE DEF m
    <3> QED
      BY <2>1, ParsedPrefix, Zenon DEF sl, m
  <2> QED
    BY <2>1, <2>2, <2>3
<1>5. a < b => ParseU64(Trim(Front(Front(sl)))) = Numbers(s, b - 2)
  <2> SUFFICES ASSUME a < b PROVE ParseU64(Trim(Front(Front(sl)))) = Numbers(s, b - 2)
    OBVIOUS
  <2>1. n - 2 \in 0 .. b - a + 1 /\ a - 1 + (n - 2) = b - 2 /\ n >= 2
    OBVIOUS
  <2>2. Front(Front(sl)) = SubSeq(sl, 1, n - 2)
    BY <1>1, <2>1, Fronts, Zenon
  <2> DEFINE m == n - 2
  <2>3. ParseU64(Trim(SubSeq(sl, 1, m))) = Numbers(s, a - 1 + m)
    <3> HIDE DEF m
    <3> QED
      BY <2>1, ParsedPrefix, Zenon DEF sl, m
  <2> QED
    BY <2>1, <2>2, <2>3
<1> QED
  BY <1>1, <1>2, <1>3, <1>4, <1>5, Zenon DEF sl, Y

\* The values of s without a suffix ...
LEMMA ValuesNone ==
  ASSUME NEW X, NEW s \in Seq(X), NEW a \in 1 .. Len(s), NEW b \in a .. Len(s), Ends(s, a, b)
  PROVE  Values(s, <<>>) = Numbers(s, b)
<1>1. <<>> \in Seq(DOMAIN Capital) /\ EndsIn(s, b, <<>>) /\ b - Len(<<>>) = b
  BY DEF EndsIn
<1> QED
  BY <1>1, ValuesEnds

\* ... with a suffix of one letter ...
LEMMA ValuesOne ==
  ASSUME NEW X, NEW s \in Seq(X), NEW a \in 1 .. Len(s), NEW b \in a .. Len(s), Ends(s, a, b),
         NEW l \in DOMAIN Capital
  PROVE  Values(s, <<l>>) = IF Low(s[b]) = l THEN Numbers(s, b - 1) ELSE {}
<1>1. <<l>> \in Seq(DOMAIN Capital) /\ Len(<<l>>) = 1
  OBVIOUS
<1>2. EndsIn(s, b, <<l>>) <=> Low(s[b]) = l
  <2>1. b - 1 + 1 = b /\ 1 <= b /\ <<l>>[1] = l
    OBVIOUS
  <2>2. EndsIn(s, b, <<l>>) <=> 1 <= b /\ \A i \in 1 .. 1 : Low(s[b - 1 + i]) = <<l>>[i]
    BY <1>1 DEF EndsIn
  <2>3. 1 .. 1 = {1}
    OBVIOUS
  <2> HIDE DEF EndsIn
  <2> QED
    BY <2>1, <2>2, <2>3
<1> QED
  BY <1>1, <1>2, ValuesEnds

\* ... and of two.
LEMMA ValuesTwo ==
  ASSUME NEW X, NEW s \in Seq(X), NEW a \in 1 .. Len(s), NEW b \in a .. Len(s), Ends(s, a, b),
         NEW k \in DOMAIN Capital, NEW l \in DOMAIN Capital
  PROVE  Values(s, <<k, l>>) =
           IF a < b /\ Low(s[b - 1]) = k /\ Low(s[b]) = l THEN Numbers(s, b - 2) ELSE {}
<1>1. <<k, l>> \in Seq(DOMAIN Capital) /\ Len(<<k, l>>) = 2
  OBVIOUS
<1>2. EndsIn(s, b, <<k, l>>) <=> b >= 2 /\ Low(s[b - 1]) = k /\ Low(s[b]) = l
  <2>1. b - 2 + 2 = b /\ b - 2 + 1 = b - 1 /\ <<k, l>>[1] = k /\ <<k, l>>[2] = l
    OBVIOUS
  <2>2. EndsIn(s, b, <<k, l>>) <=> 2 <= b /\ \A i \in 1 .. 2 : Low(s[b - 2 + i]) = <<k, l>>[i]
    BY <1>1 DEF EndsIn
  <2>3. 1 .. 2 = {1, 2}
    OBVIOUS
  <2>4. EndsIn(s, b, <<k, l>>) <=> 2 <= b /\ Low(s[b - 2 + 1]) = <<k, l>>[1]
                                     /\ Low(s[b - 2 + 2]) = <<k, l>>[2]
    BY <2>2, <2>3
  <2> QED
    BY <2>1, <2>4
<1>3. ~(a < b) => Numbers(s, b - 2) = {}
  <2>1. ~(a < b) => \A i \in 1 .. b - 2 : i \in 1 .. a - 1
    OBVIOUS
  <2>2. ~(a < b) => Blanks(s, 1, b - 2)
    BY <2>1, Zenon DEF Blanks, Ends
  <2>3. b - 2 \in Int /\ b - 2 <= Len(s)
    OBVIOUS
  <2> QED
    BY <2>2, <2>3, NoNumbers, Zenon
<1>4. a < b => b >= 2
  OBVIOUS
<1> QED
  BY <1>1, <1>2, <1>3, <1>4, ValuesEnds

\* The letters of the suffixes.
LEMMA Letters ==
  /\ "k" \in DOMAIN Capital /\ "m" \in DOMAIN Capital /\ "s" \in DOMAIN Capital
  /\ DOMAIN Units \subseteq DOMAIN Capital
  /\ DOMAIN Units = {"s", "m", "h", "d"}
BY DEF Capital, Units

\* What ends with such a letter is no number: "10ms" is no number of seconds.
LEMMA EndsInLetter ==
  ASSUME NEW X, NEW s \in Seq(X), NEW a \in 1 .. Len(s), NEW b \in a .. Len(s), Ends(s, a, b),
         NEW m \in a .. b, Low(s[m]) \in DOMAIN Capital
  PROVE  Numbers(s, m) = {}
<1>1. s[m] # Space /\ s[m] \notin Digits
  BY LowLetter, LowChar, Zenon
<1>2. m \in Int /\ m <= Len(s) /\ m > 0
  OBVIOUS
<1> QED
  BY <1>1, <1>2, NoNumbers, Zenon

-----------------------------------------------------------------------------
(***************************************************************************)
(* The parsers.                                                            *)
(***************************************************************************)
\* parse_rate returns what s means as a rate.
LEMMA RateParsed ==
  ASSUME NEW X, NEW s \in Seq(X)
  PROVE  parse_rate(s) =
           {IF n <= U64Max THEN n ELSE U64Max :
              n \in Meaning(s, [u \in {<<>>, <<"k">>} |-> IF u = <<>> THEN 1 ELSE 1000])}
<1> DEFINE units == [u \in {<<>>, <<"k">>} |-> IF u = <<>> THEN 1 ELSE 1000]
           Clamp(n) == IF n <= U64Max THEN n ELSE U64Max
           sl == LowerTrim(s)
<1>0. DOMAIN units = {<<>>, <<"k">>} /\ units[<<>>] = 1 /\ units[<<"k">>] = 1000
  OBVIOUS
<1> HIDE DEF units
<1>1. ASSUME NEW x
      PROVE  x \in Meaning(s, units) <=>
               \/ \E v \in Values(s, <<>>) : x = v * 1
               \/ \E v \in Values(s, <<"k">>) : x = v * 1000
  <2>1. x \in Meaning(s, units) <=>
           \E u \in DOMAIN units : \E v \in Values(s, u) : x = v * units[u]
    BY MeaningIs
  <2> QED
    BY <1>0, <2>1
<1>2. CASE Blanks(s, 1, Len(s))
  <2>1. Values(s, <<>>) = {} /\ Values(s, <<"k">>) = {}
    BY <1>2, ValuesBlank, Zenon
  <2>2. Meaning(s, units) = {}
    BY <1>1, <2>1
  <2>3. sl = <<>>
    <3>1. Trim(s) = <<>>
      BY <1>2, TrimmedBlank, Zenon
    <3> QED
      BY <3>1 DEF LowerTrim, LowerCase
  <2>4. ~IsSuffix(<<"k">>, <<>>)
    <3>1. <<>> \in Seq(X) /\ ~(Len(<<>>) >= 1)
      OBVIOUS
    <3> QED
      BY <3>1, OneSuffix, Zenon
  <2>5. ParseU64(<<>>) = {}
    BY Zenon DEF ParseU64
  <2>6. parse_rate(s) = {}
    BY <2>3, <2>4, <2>5, Zenon DEF parse_rate, LowerTrim
  <2> QED
    BY <2>2, <2>6, Zenon DEF units
<1>3. CASE ~Blanks(s, 1, Len(s))
  <2>1. PICK a \in 1 .. Len(s) : \E b \in a .. Len(s) : Ends(s, a, b)
    BY <1>3, EndsExist
  <2>2. PICK b \in a .. Len(s) : Ends(s, a, b)
    BY <2>1
  <2>3. IsSuffix(<<"k">>, sl) <=> Low(s[b]) = "k"
    <3>1. sl \in Seq(X \cup DOMAIN Capital) /\ Len(sl) = b - a + 1 /\ Last(sl) = Low(s[b])
      BY <2>2, ParsedFronts, Zenon
    <3> HIDE DEF sl
    <3>2. Len(sl) >= 1
      BY <3>1
    <3>3. Last(sl) = sl[Len(sl)]
      BY <3>1, Fronts, Zenon
    <3> QED
      BY <3>1, <3>2, <3>3, OneSuffix, Zenon
  <2>4. ParseU64(Trim(Front(sl))) = Numbers(s, b - 1) /\ ParseU64(sl) = Numbers(s, b)
    BY <2>2, ParsedFronts, ParsedAll, Zenon
  <2>5. /\ Values(s, <<>>) = Numbers(s, b)
        /\ Low(s[b]) = "k" => Values(s, <<"k">>) = Numbers(s, b - 1) /\ Numbers(s, b) = {}
        /\ Low(s[b]) # "k" => Values(s, <<"k">>) = {}
    <3>1. b \in a .. b
      OBVIOUS
    <3> QED
      BY <2>2, <3>1, ValuesNone, ValuesOne, EndsInLetter, Letters, Zenon
  <2>6. /\ Low(s[b]) = "k" => parse_rate(s) = {saturating_mul(n, 1000) : n \in Numbers(s, b - 1)}
        /\ Low(s[b]) # "k" => parse_rate(s) = Numbers(s, b)
    BY <2>3, <2>4, Zenon DEF parse_rate, LowerTrim
  <2>7. CASE Low(s[b]) = "k"
    <3>1. ASSUME NEW n \in Numbers(s, b - 1) PROVE saturating_mul(n, 1000) = Clamp(n * 1000)
      BY Zenon DEF saturating_mul
    <3>2. \A x : x \in Meaning(s, units) <=> \E v \in Numbers(s, b - 1) : x = v * 1000
      BY <1>1, <2>5, <2>7
    <3> HIDE DEF Clamp
    <3>3. {saturating_mul(n, 1000) : n \in Numbers(s, b - 1)} =
            {Clamp(n) : n \in Meaning(s, units)}
      BY <3>1, <3>2
    <3> QED
      BY <2>6, <2>7, <3>3, Zenon DEF Clamp, units
  <2>8. CASE Low(s[b]) # "k"
    <3>1. ASSUME NEW n \in Numbers(s, b) PROVE Clamp(n) = n /\ n * 1 = n
      <4>1. n \in Nat /\ n <= U64Max
        BY NumbersBound, Zenon
      <4> QED
        BY <4>1
    <3>2. \A x : x \in Meaning(s, units) <=> \E v \in Numbers(s, b) : x = v * 1
      BY <1>1, <2>5, <2>8
    <3> HIDE DEF Clamp
    <3>3. Meaning(s, units) = Numbers(s, b)
      BY <3>1, <3>2
    <3>4. Numbers(s, b) = {Clamp(n) : n \in Meaning(s, units)}
      BY <3>1, <3>3
    <3> QED
      BY <2>6, <2>8, <3>4, Zenon DEF Clamp, units
  <2> QED
    BY <2>7, <2>8
<1> QED
  BY <1>2, <1>3

\* The units of a duration, with names for products that the provers need not open.
Factors == {1, 60, 3600, 86400}
Millis(n, f) == n * (1000 * f)
Limited(n, limit) == IF n <= limit THEN n ELSE limit

\* Saturating in seconds is limiting the milliseconds.
LEMMA Saturated ==
  ASSUME NEW n \in Nat, NEW f \in Factors, NEW limit, limit = 1000 * U64Max
  PROVE  1000 * saturating_mul(n, f) = Limited(Millis(n, f), limit)
<1>1. U64Max \in Nat
  BY U64MaxAssumption
<1>2. CASE f = 1
  BY <1>1, <1>2 DEF saturating_mul, Limited, Millis
<1>3. CASE f = 60
  BY <1>1, <1>3 DEF saturating_mul, Limited, Millis
<1>4. CASE f = 3600
  BY <1>1, <1>4 DEF saturating_mul, Limited, Millis
<1>5. CASE f = 86400
  BY <1>1, <1>5 DEF saturating_mul, Limited, Millis
<1> QED
  BY <1>2, <1>3, <1>4, <1>5 DEF Factors

\* parse_duration returns what s means as a duration.
LEMMA DurationParsed ==
  ASSUME NEW X, NEW s \in Seq(X), NEW limit, limit = 1000 * U64Max
  PROVE  parse_duration(s) =
           Meaning(s, [u \in {<<"m", "s">>} |-> 1]) \cup
           {IF n <= limit THEN n ELSE limit :
              n \in Meaning(s, [u \in {<<c>> : c \in DOMAIN Units} |-> 1000 * Units[u[1]]])}
<1> DEFINE one == [u \in {<<"m", "s">>} |-> 1]
           units == [u \in {<<c>> : c \in DOMAIN Units} |-> 1000 * Units[u[1]]]
           Clamp(n) == Limited(n, limit)
           sl == LowerTrim(s)
           ms == <<"m", "s">>
           Times(v, f) == v * f
           F(v, c) == Millis(v, Units[c])
<1>0. DOMAIN one = {ms} /\ one[ms] = 1
  OBVIOUS
<1>1. DOMAIN units = {<<c>> : c \in DOMAIN Units}
      /\ \A c \in DOMAIN Units : units[<<c>>] = 1000 * Units[c]
  OBVIOUS
<1>u. \A c \in DOMAIN Units : Units[c] \in Factors
  BY DEF Units, Factors
<1> HIDE DEF units, one
<1>2. ASSUME NEW x
      PROVE  x \in Meaning(s, one) <=> \E v \in Values(s, ms) : x = v * 1
  <2>1. x \in Meaning(s, one) <=>
           \E u \in DOMAIN one : \E v \in Values(s, u) : x = v * one[u]
    BY MeaningIs
  <2> HIDE DEF ms
  <2> QED
    BY <1>0, <2>1
<1>3. ASSUME NEW x
      PROVE  x \in Meaning(s, units) <=>
               \E c \in DOMAIN Units : \E v \in Values(s, <<c>>) : x = F(v, c)
  <2>1. x \in Meaning(s, units) <=>
           \E u \in DOMAIN units : \E v \in Values(s, u) : x = Times(v, units[u])
    BY MeaningIs
  <2> HIDE DEF Times
  <2>2. ASSUME NEW c \in DOMAIN Units
        PROVE  <<c>> \in DOMAIN units /\ \A v : Times(v, units[<<c>>]) = F(v, c)
    BY <1>1 DEF Times, Millis
  <2>3. ASSUME NEW u \in DOMAIN units PROVE \E c \in DOMAIN Units : u = <<c>>
    BY <1>1
  <2> HIDE DEF F
  <2>4. ASSUME NEW u \in DOMAIN units, NEW v \in Values(s, u), x = Times(v, units[u])
        PROVE  \E c \in DOMAIN Units : \E w \in Values(s, <<c>>) : x = F(w, c)
    <3>1. PICK c \in DOMAIN Units : u = <<c>>
      BY <2>3
    <3>2. x = F(v, c) /\ v \in Values(s, <<c>>)
      BY <2>2, <2>4, <3>1
    <3> QED
      BY <3>2, Zenon
  <2>5. ASSUME NEW c \in DOMAIN Units, NEW v \in Values(s, <<c>>), x = F(v, c)
        PROVE  x \in Meaning(s, units)
    BY <2>1, <2>2, <2>5, Zenon
  <2> QED
    BY <2>1, <2>4, <2>5, Zenon
<1> HIDE DEF F
<1>4. CASE Blanks(s, 1, Len(s))
  <2>1. \A u : Values(s, u) = {}
    BY <1>4, ValuesBlank, Zenon
  <2>2. Meaning(s, units) = {} /\ Meaning(s, one) = {}
    BY <1>2, <1>3, <2>1
  <2>3. sl = <<>>
    <3>1. Trim(s) = <<>>
      BY <1>4, TrimmedBlank, Zenon
    <3> QED
      BY <3>1 DEF LowerTrim, LowerCase
  <2>4. ~IsSuffix(ms, <<>>) /\ Len(<<>>) < 2
    <3>1. <<>> \in Seq(X) /\ ~(Len(<<>>) >= 2) /\ Len(<<>>) < 2
      OBVIOUS
    <3> QED
      BY <3>1, TwoSuffix, Zenon
  <2>5. parse_duration(s) = {}
    BY <2>3, <2>4, Zenon DEF parse_duration, LowerTrim
  <2> QED
    BY <2>2, <2>5 DEF units, one
<1>5. CASE ~Blanks(s, 1, Len(s))
  <2>1. PICK a \in 1 .. Len(s) : \E b \in a .. Len(s) : Ends(s, a, b)
    BY <1>5, EndsExist
  <2>2. PICK b \in a .. Len(s) : Ends(s, a, b)
    BY <2>1
  <2> DEFINE Ms == a < b /\ Low(s[b - 1]) = "m" /\ Low(s[b]) = "s"
  <2>3. /\ Last(sl) = Low(s[b]) /\ (Len(sl) < 2 <=> ~(a < b))
        /\ IsSuffix(ms, sl) <=> Ms
    <3>1. /\ sl \in Seq(X \cup DOMAIN Capital) /\ Len(sl) = b - a + 1 /\ Last(sl) = Low(s[b])
          /\ a < b => sl[Len(sl) - 1] = Low(s[b - 1])
      BY <2>2, ParsedFronts, Zenon
    <3> HIDE DEF sl
    <3>2. (Len(sl) >= 2 <=> a < b) /\ (Len(sl) < 2 <=> ~(a < b))
      BY <3>1
    <3>3. Last(sl) = sl[Len(sl)]
      BY <3>1, Fronts, Zenon
    <3>4. IsSuffix(ms, sl) <=>
           Len(sl) >= 2 /\ sl[Len(sl) - 1] = "m" /\ sl[Len(sl)] = "s"
      BY <3>1, TwoSuffix, Zenon
    <3> QED
      BY <3>1, <3>2, <3>3, <3>4, Zenon
  <2>4. /\ ParseU64(Trim(Front(sl))) = Numbers(s, b - 1)
        /\ a < b => ParseU64(Trim(Front(Front(sl)))) = Numbers(s, b - 2)
    BY <2>2, ParsedFronts, Zenon
  <2>5. Values(s, ms) = IF Ms THEN Numbers(s, b - 2) ELSE {}
    BY <2>2, ValuesTwo, Letters
  <2>6. \A c \in DOMAIN Units : Values(s, <<c>>) = IF Low(s[b]) = c THEN Numbers(s, b - 1) ELSE {}
    BY <2>2, ValuesOne, Letters, Zenon
  <2>7. CASE Ms
    <3>1. parse_duration(s) = Numbers(s, b - 2)
      BY <2>3, <2>4, <2>7, Zenon DEF parse_duration, LowerTrim
    <3>2. Numbers(s, b - 1) = {}
      <4>1. b - 1 \in a .. b
        BY <2>7
      <4> QED
        BY <2>2, <2>7, <4>1, EndsInLetter, Letters, Zenon
    <3>6. \A c \in DOMAIN Units : Values(s, <<c>>) = {}
      BY <2>6, <3>2, Zenon
    <3>3. Meaning(s, units) = {}
      BY <1>3, <3>6
    <3>4. \A v \in Numbers(s, b - 2) : v * 1 = v
      BY NumbersBound
    <3>5. Meaning(s, one) = Numbers(s, b - 2)
      BY <1>2, <2>5, <2>7, <3>4
    <3> QED
      BY <3>1, <3>3, <3>5 DEF units, one
  <2>8. CASE ~Ms
    <3> DEFINE c == Low(s[b])
    <3>1. Meaning(s, one) = {}
      BY <1>2, <2>5, <2>8
    <3>2. CASE ~(a < b) \/ c \notin DOMAIN Units
      <4>1. parse_duration(s) = {}
        BY <2>3, <2>8, <3>2, Zenon DEF parse_duration, LowerTrim
      <4>2. ~(a < b) => Numbers(s, b - 1) = {}
        <5>1. ~(a < b) => b - 1 = a - 1
          OBVIOUS
        <5>2. ~(a < b) => Blanks(s, 1, b - 1)
          BY <2>2, <5>1 DEF Ends
        <5>3. b - 1 \in Int /\ b - 1 <= Len(s)
          OBVIOUS
        <5> QED
          BY <5>2, <5>3, NoNumbers, Zenon
      <4>4. \A l \in DOMAIN Units : Values(s, <<l>>) = {}
        BY <2>6, <3>2, <4>2
      <4>3. Meaning(s, units) = {}
        BY <1>3, <4>4
      <4> QED
        BY <3>1, <4>1, <4>3 DEF units, one
    <3>3. CASE a < b /\ c \in DOMAIN Units
      <4>0. parse_duration(s) = {1000 * saturating_mul(n, Units[Last(sl)]) :
                                   n \in ParseU64(Trim(Front(sl)))}
        BY <2>3, <2>8, <3>3, Zenon DEF parse_duration, LowerTrim
      <4>1. parse_duration(s) =
              {1000 * saturating_mul(n, Units[c]) : n \in Numbers(s, b - 1)}
        BY <2>3, <2>4, <4>0
      <4>2. \A x : x \in Meaning(s, units) <=> \E v \in Numbers(s, b - 1) : x = F(v, c)
        BY <1>3, <2>6, <3>3
      <4>3. ASSUME NEW n \in Numbers(s, b - 1)
            PROVE  1000 * saturating_mul(n, Units[c]) = Clamp(F(n, c))
        <5>1. n \in Nat
          BY NumbersBound, Zenon
        <5>2. Units[c] \in Factors
          BY <1>u, <3>3
        <5> QED
          BY <5>1, <5>2, Saturated DEF F
      <4> HIDE DEF Clamp, c
      <4>4. {1000 * saturating_mul(n, Units[c]) : n \in Numbers(s, b - 1)} =
              {Clamp(n) : n \in Meaning(s, units)}
        BY <4>2, <4>3
      <4> QED
        BY <3>1, <4>1, <4>4 DEF units, one, Clamp, Limited
    <3> QED
      BY <3>2, <3>3
  <2> QED
    BY <2>7, <2>8
<1> QED
  BY <1>4, <1>5

-----------------------------------------------------------------------------
(***************************************************************************)
(* Escapes: where the parts of a flattened sequence lie, and the loop.     *)
(***************************************************************************)
\* FlattenSeq joins the parts one by one: p[i] is the concatenation of the first i.
LEMMA Flattened ==
  ASSUME NEW Z, NEW e \in Seq(Seq(Z))
  PROVE  \E p \in [0 .. Len(e) -> Seq(Z)] :
           /\ p[0] = <<>> /\ \A i \in 1 .. Len(e) : p[i] = p[i - 1] \o e[i]
           /\ FlattenSeq(e) = p[Len(e)]
<1> DEFINE N == Len(e)
           Body(f, i) == IF i = 1 THEN e[i] ELSE f[i - 1] \o e[i]
           Solves(f, n) == \A i \in 1 .. N : i <= n => f[i] = Body(f, i)
           Defined == {n \in Nat : \E f \in [1 .. N -> Seq(Z)] : Solves(f, n)}
<1>0. N \in Nat /\ \A i \in 1 .. N : e[i] \in Seq(Z)
  OBVIOUS
<1> HIDE DEF N
<1>1. 0 \in Defined
  <2>1. [i \in 1 .. N |-> <<>>] \in [1 .. N -> Seq(Z)]
    OBVIOUS
  <2>2. Solves([i \in 1 .. N |-> <<>>], 0)
    OBVIOUS
  <2> QED
    BY <2>1, <2>2
<1>2. ASSUME NEW n \in Nat, n \in Defined PROVE n + 1 \in Defined
  <2>1. PICK f \in [1 .. N -> Seq(Z)] : Solves(f, n)
    BY <1>2
  <2> DEFINE g == [f EXCEPT ![n + 1] = Body(f, n + 1)]
  <2>2. n + 1 \in 1 .. N => Body(f, n + 1) \in Seq(Z)
    <3> SUFFICES ASSUME n + 1 \in 1 .. N PROVE Body(f, n + 1) \in Seq(Z)
      OBVIOUS
    <3>1. e[n + 1] \in Seq(Z)
      BY <1>0
    <3>2. CASE n = 0
      BY <3>1, <3>2
    <3>3. CASE n # 0
      <4>1. f[n] \in Seq(Z) /\ (n + 1) - 1 = n /\ n + 1 # 1
        BY <1>0, <3>3
      <4>2. f[n] \o e[n + 1] \in Seq(Z)
        BY <3>1, <4>1
      <4> QED
        BY <4>1, <4>2
    <3> QED
      BY <3>2, <3>3
  <2>3. g \in [1 .. N -> Seq(Z)]
    <3> HIDE DEF Body
    <3> QED
      BY <2>2
  <2>4. \A i \in 1 .. N : g[i] = IF i = n + 1 THEN Body(f, n + 1) ELSE f[i]
    <3> HIDE DEF Body
    <3> QED
      OBVIOUS
  <2> HIDE DEF g
  <2>5. ASSUME NEW i \in 1 .. N, i <= n + 1 PROVE g[i] = Body(g, i)
    <3>1. i # 1 => i - 1 \in 1 .. N /\ i - 1 # n + 1
      BY <1>0, <2>5
    <3>2. i # 1 => g[i - 1] = f[i - 1]
      BY <2>4, <3>1, Zenon
    <3>3. Body(g, i) = Body(f, i)
      BY <3>2, Zenon
    <3>4. i = n + 1 \/ i <= n
      BY <2>5
    <3>5. g[i] = Body(f, i)
      <4> HIDE DEF Body
      <4>1. CASE i = n + 1
        BY <2>4, <4>1
      <4>2. CASE i # n + 1
        BY <2>1, <2>4, <3>4, <4>2
      <4> QED
        BY <4>1, <4>2
    <3> QED
      BY <3>3, <3>5, Zenon
  <2>6. n + 1 \in Nat
    OBVIOUS
  <2> QED
    BY <2>3, <2>5, <2>6
<1>3. Nat \subseteq Defined
  <2> HIDE DEF Defined
  <2> QED
    BY <1>1, <1>2, Induction
<1>4. \E f : f = [i \in 1 .. N |-> Body(f, i)]
  <2>1. N \in Defined
    <3> HIDE DEF Defined
    <3> QED
      BY <1>0, <1>3
  <2>2. PICK f \in [1 .. N -> Seq(Z)] : Solves(f, N)
    BY <2>1
  <2>3. \A i \in 1 .. N : f[i] = Body(f, i)
    <3> HIDE DEF Body
    <3> QED
      BY <2>2
  <2>4. f = [i \in 1 .. N |-> Body(f, i)]
    <3> HIDE DEF Body
    <3> QED
      BY <2>3
  <2> QED
    BY <2>4, Zenon
<1> DEFINE flatten == CHOOSE f : f = [i \in 1 .. N |-> Body(f, i)]
<1>5. flatten = [i \in 1 .. N |-> Body(flatten, i)]
  BY <1>4, Zenon
<1>6. FlattenSeq(e) = IF N = 0 THEN e ELSE flatten[N]
  BY Zenon DEF FlattenSeq, N
<1>7. \A i \in 1 .. N : flatten[i] = Body(flatten, i)
  BY <1>5, Zenon
<1> HIDE DEF flatten
<1> DEFINE p == [i \in 0 .. N |-> IF i = 0 THEN <<>> ELSE flatten[i]]
           Typed == {n \in Nat : n <= N => p[n] \in Seq(Z)}
<1>8. \A i \in 1 .. N : p[i] = flatten[i]
  OBVIOUS
<1>17. \A i \in 1 .. N : i # 1 => p[i] = flatten[i - 1] \o e[i]
  <2> HIDE DEF p
  <2> QED
    BY <1>7, <1>8, Zenon
<1>9. p[0] = <<>>
  BY <1>0
<1>10. p = [i \in 0 .. N |-> p[i]]
  OBVIOUS
<1> HIDE DEF p
<1>11. 0 \in Typed
  <2>1. <<>> \in Seq(Z)
    OBVIOUS
  <2> QED
    BY <1>9, <2>1
<1>12. ASSUME NEW n \in Nat, n \in Typed, n + 1 <= N
       PROVE  p[n + 1] = p[n] \o e[n + 1] /\ p[n + 1] \in Seq(Z)
  <2>1. n + 1 \in 1 .. N /\ p[n] \in Seq(Z) /\ e[n + 1] \in Seq(Z)
    BY <1>0, <1>12
  <2>2. p[n + 1] = Body(flatten, n + 1)
    BY <1>7, <1>8, <2>1, Zenon
  <2>3. CASE n = 0
    <3>1. p[n + 1] = e[n + 1]
      BY <2>2, <2>3
    <3>2. p[n] = <<>>
      BY <1>9, <2>3
    <3> QED
      BY <2>1, <3>1, <3>2
  <2>4. CASE n # 0
    <3>1. (n + 1) - 1 = n /\ n + 1 # 1 /\ n \in 1 .. N
      BY <1>0, <2>4, <2>1
    <3>2. p[n] = flatten[n]
      BY <1>8, <3>1
    <3>3. p[n + 1] = p[n] \o e[n + 1]
      <4>1. p[n + 1] = flatten[(n + 1) - 1] \o e[n + 1]
        <5>1. n + 1 # 1 /\ n + 1 \in 1 .. N
          BY <2>1, <3>1
        <5> QED
          BY <1>17, <5>1, Zenon
      <4> QED
        BY <3>1, <3>2, <4>1
    <3> QED
      BY <2>1, <3>3
  <2> QED
    BY <2>3, <2>4
<1>13. Nat \subseteq Typed
  <2>1. ASSUME NEW n \in Nat, n \in Typed PROVE n + 1 \in Typed
    <3>1. CASE n + 1 <= N
      <4>1. p[n + 1] \in Seq(Z)
        <5> HIDE DEF Typed
        <5> QED
          BY <1>12, <2>1, <3>1
      <4> QED
        BY <4>1
    <3>2. CASE ~(n + 1 <= N)
      BY <3>2
    <3> QED
      BY <3>1, <3>2
  <2> HIDE DEF Typed
  <2> QED
    BY <1>11, <2>1, Induction
<1>14. p \in [0 .. N -> Seq(Z)]
  <2>1. \A i \in 0 .. N : p[i] \in Seq(Z)
    <3> TAKE i \in 0 .. N
    <3>1. i \in Typed
      <4> HIDE DEF Typed
      <4> QED
        BY <1>13
    <3> QED
      BY <3>1
  <2> QED
    BY <1>10, <2>1
<1>15. ASSUME NEW i \in 1 .. N PROVE p[i] = p[i - 1] \o e[i]
  <2> DEFINE n == i - 1
  <2>1. n \in Nat /\ n + 1 = i /\ n + 1 <= N
    OBVIOUS
  <2>2. n \in Typed
    <3> HIDE DEF Typed, n
    <3> QED
      BY <1>13, <2>1
  <2> HIDE DEF n, Typed
  <2>3. p[n + 1] = p[n] \o e[n + 1]
    BY <1>12, <2>1, <2>2
  <2> QED
    BY <2>1, <2>3 DEF n
<1>16. FlattenSeq(e) = p[N]
  <2>1. CASE N = 0
    <3>1. e = <<>>
      BY <2>1 DEF N
    <3> QED
      BY <1>6, <1>9, <2>1, <3>1
  <2>2. CASE N # 0
    <3>1. N \in 1 .. N
      BY <1>0, <2>2
    <3> QED
      BY <1>6, <1>8, <2>2, <3>1
  <2> QED
    BY <2>1, <2>2
<1> QED
  BY <1>9, <1>14, <1>15, <1>16, Zenon DEF N

\* p[i] holds the first i parts of e, one after the other: where they lie in the whole.
Joins(p, e) == \A i \in 1 .. Len(e) : p[i] = p[i - 1] \o e[i]
PlacedAt(p, e, i) ==
  /\ Len(p[i]) = Len(p[i - 1]) + Len(e[i]) /\ Len(p[i]) <= Len(p[Len(e)])
  /\ \A q \in 1 .. Len(e[i]) : p[Len(e)][Len(p[i - 1]) + q] = e[i][q]

\* So they lie, for every part.
LEMMA Placed ==
  ASSUME NEW Z, NEW e \in Seq(Seq(Z)), NEW p \in [0 .. Len(e) -> Seq(Z)],
         Joins(p, e), NEW i \in 1 .. Len(e)
  PROVE  PlacedAt(p, e, i)
<1> DEFINE N == Len(e)
           w == p[N]
           Prefix(n) == Len(p[n]) <= Len(w) /\ \A q \in 1 .. Len(p[n]) : w[q] = p[n][q]
           Back == {d \in Nat : d <= N => Prefix(N - d)}
<1>0. N \in Nat /\ i \in 1 .. N /\ w \in Seq(Z) /\ p \in [0 .. N -> Seq(Z)]
      /\ \A n \in 1 .. N : e[n] \in Seq(Z)
  <2>1. N \in Nat /\ i \in 1 .. N /\ p \in [0 .. N -> Seq(Z)]
    OBVIOUS
  <2>2. \A n \in 1 .. N : e[n] \in Seq(Z)
    OBVIOUS
  <2>3. N \in 0 .. N
    BY <2>1
  <2> HIDE DEF N
  <2> QED
    BY <2>1, <2>2, <2>3
<1>n. p[N] = w
  OBVIOUS
<1>1. \A n \in 1 .. N : p[n] = p[n - 1] \o e[n]
  BY DEF Joins
<1> HIDE DEF N, w
<1>2. ASSUME NEW n \in 1 .. N
      PROVE  /\ p[n] \in Seq(Z) /\ p[n - 1] \in Seq(Z) /\ e[n] \in Seq(Z)
             /\ Len(p[n - 1]) \in Nat /\ Len(e[n]) \in Nat
             /\ Len(p[n]) = Len(p[n - 1]) + Len(e[n])
             /\ \A q \in 1 .. Len(p[n - 1]) : p[n][q] = p[n - 1][q]
             /\ \A q \in 1 .. Len(e[n]) : p[n][Len(p[n - 1]) + q] = e[n][q]
  <2>1. p[n] \in Seq(Z) /\ p[n - 1] \in Seq(Z) /\ e[n] \in Seq(Z)
    <3>1. n \in 0 .. N /\ n - 1 \in 0 .. N
      BY <1>0
    <3> QED
      BY <1>0, <3>1
  <2>2. p[n] = p[n - 1] \o e[n]
    BY <1>1
  <2> DEFINE a == p[n - 1]
             b == e[n]
             c == p[n]
  <2> HIDE DEF a, b, c
  <2>3. a \in Seq(Z) /\ b \in Seq(Z) /\ c = a \o b
    BY <2>1, <2>2 DEF a, b, c
  <2>4. /\ Len(a) \in Nat /\ Len(b) \in Nat /\ Len(c) = Len(a) + Len(b)
        /\ \A q \in 1 .. Len(a) : c[q] = a[q]
        /\ \A q \in 1 .. Len(b) : c[Len(a) + q] = b[q]
    BY <2>3
  <2> QED
    BY <2>1, <2>4 DEF a, b, c
<1>3. 0 \in Back
  <2>1. N - 0 = N
    BY <1>0
  <2>2. Prefix(N)
    BY <1>0, <1>n
  <2> QED
    BY <2>1, <2>2
<1>4. ASSUME NEW d \in Nat, d \in Back PROVE d + 1 \in Back
  <2> SUFFICES ASSUME d + 1 <= N PROVE Prefix(N - (d + 1))
    OBVIOUS
  <2> DEFINE n == N - d
  <2>1. n \in 1 .. N /\ N - (d + 1) = n - 1
    BY <1>0
  <2>2. Prefix(n)
    BY <1>4, <1>0
  <2> HIDE DEF n
  <2>3. Prefix(n - 1)
    <3> DEFINE c == p[n - 1]
    <3>1. /\ Len(c) \in Nat /\ Len(e[n]) \in Nat /\ Len(p[n]) = Len(c) + Len(e[n])
          /\ \A q \in 1 .. Len(c) : p[n][q] = c[q]
      BY <1>2, <2>1, Zenon
    <3>2. Len(w) \in Nat
      BY <1>0
    <3> HIDE DEF c
    <3>3. Len(c) <= Len(w) /\ \A q \in 1 .. Len(c) : w[q] = c[q]
      BY <2>2, <3>1, <3>2
    <3> QED
      BY <3>3, Zenon DEF c
  <2> HIDE DEF Prefix
  <2> QED
    BY <2>1, <2>3
<1>5. Nat \subseteq Back
  <2> HIDE DEF Back
  <2> QED
    BY <1>3, <1>4, Induction
<1>6. Prefix(i)
  <2> DEFINE d == N - i
  <2>1. d \in Nat /\ d <= N /\ N - d = i
    BY <1>0
  <2> HIDE DEF d, Prefix
  <2>2. Prefix(N - d)
    BY <1>5, <2>1
  <2> QED
    BY <2>1, <2>2
<1>7. ASSUME NEW q \in 1 .. Len(e[i]) PROVE w[Len(p[i - 1]) + q] = e[i][q]
  <2>1. Len(p[i - 1]) + q \in 1 .. Len(p[i])
    <3> DEFINE a == Len(p[i - 1])
               b == Len(e[i])
               c == Len(p[i])
    <3>1. a \in Nat /\ b \in Nat /\ c = a + b /\ q \in 1 .. b
      BY <1>0, <1>2, Zenon
    <3> HIDE DEF a, b, c
    <3>2. a + q \in 1 .. c
      BY <3>1
    <3> QED
      BY <3>2 DEF a, c
  <2>2. p[i][Len(p[i - 1]) + q] = e[i][q]
    BY <1>0, <1>2, Zenon
  <2> QED
    BY <2>1, <2>2, <1>6, Zenon
<1> QED
  BY <1>0, <1>2, <1>6, <1>7 DEF N, w, PlacedAt

\* What the loop of unescape_string returns from its i-th character on.
Loop(s, from, i) ==
  IF i > Len(s) THEN <<>>
  ELSE IF s[i] # Backslash \/ i = Len(s) THEN <<s[i]>> \o from[i + 1]
  ELSE IF s[i + 1] \in DOMAIN Simple THEN <<Simple[s[i + 1]]>> \o from[i + 2]
  ELSE IF s[i + 1] # 120 THEN <<Backslash, s[i + 1]>> \o from[i + 2]
  ELSE IF i + 3 <= Len(s) /\ FromHex(s[i + 2], s[i + 3]) # {}
  THEN <<CHOOSE b \in FromHex(s[i + 2], s[i + 3]) : TRUE>> \o from[i + 4]
  ELSE SubSeq(s, i, Min({i + 3, Len(s)})) \o from[i + 4]

\* The loop goes on one, two or four characters further.
LEMMA LoopDepends ==
  ASSUME NEW s, NEW i, NEW f, NEW g,
         i <= Len(s) => f[i + 1] = g[i + 1] /\ f[i + 2] = g[i + 2] /\ f[i + 4] = g[i + 4],
         i > Len(s) \/ i <= Len(s)
  PROVE  Loop(s, f, i) = Loop(s, g, i)
<1>1. CASE i > Len(s)
  BY <1>1, Zenon DEF Loop
<1>2. CASE i <= Len(s)
  BY <1>2 DEF Loop
<1> QED
  BY <1>1, <1>2

\* There is such a function: it is built from the end of s backwards.
LEMMA UnescapeLoop ==
  ASSUME NEW X, NEW s \in Seq(X)
  PROVE  \E from : /\ \A i \in 1 .. Len(s) + 4 : from[i] = Loop(s, from, i)
                   /\ unescape_string(s) = from[1]
<1> DEFINE M == Len(s) + 4
           Solves(f, d) == \A i \in 1 .. M : i > M - d => f[i] = Loop(s, f, i)
           Defined == {d \in Nat : \E f : f = [i \in 1 .. M |-> f[i]] /\ Solves(f, d)}
<1>0. M \in Nat /\ Len(s) = M - 4 /\ Len(s) \in Nat
  OBVIOUS
<1> HIDE DEF M
<1>1. 0 \in Defined
  <2> DEFINE f == [i \in 1 .. M |-> <<>>]
  <2>1. f = [i \in 1 .. M |-> f[i]]
    OBVIOUS
  <2>2. Solves(f, 0)
    BY <1>0
  <2> QED
    BY <2>1, <2>2, Zenon
<1>2. ASSUME NEW d \in Nat, d \in Defined PROVE d + 1 \in Defined
  <2>1. PICK f : f = [i \in 1 .. M |-> f[i]] /\ Solves(f, d)
    BY <1>2
  <2> DEFINE g == [i \in 1 .. M |-> IF i = M - d THEN Loop(s, f, i) ELSE f[i]]
  <2>2. \A i \in 1 .. M : g[i] = IF i = M - d THEN Loop(s, f, i) ELSE f[i]
    BY Zenon
  <2>3. g = [i \in 1 .. M |-> g[i]]
    OBVIOUS
  <2> HIDE DEF g
  <2>4. ASSUME NEW i \in 1 .. M, i > M - (d + 1) PROVE g[i] = Loop(s, g, i)
    <3>1. ASSUME i <= Len(s), NEW j \in {1, 2, 4} PROVE f[i + j] = g[i + j]
      <4>1. i + j \in 1 .. M /\ i + j # M - d
        BY <1>0, <2>4, <3>1
      <4> QED
        BY <2>2, <4>1
    <3>2. Loop(s, f, i) = Loop(s, g, i)
      <4>1. i > Len(s) \/ i <= Len(s)
        BY <1>0
      <4> QED
        BY <3>1, <4>1, LoopDepends
    <3>3. g[i] = Loop(s, f, i)
      <4>1. i = M - d \/ i > M - d
        BY <1>0, <2>4
      <4>2. CASE i = M - d
        BY <2>2, <4>2
      <4>3. CASE i # M - d
        BY <2>1, <2>2, <4>1, <4>3
      <4> QED
        BY <4>2, <4>3
    <3> QED
      BY <3>2, <3>3
  <2>5. d + 1 \in Nat
    OBVIOUS
  <2> QED
    BY <2>3, <2>4, <2>5, Zenon
<1>3. Nat \subseteq Defined
  <2> HIDE DEF Defined
  <2> QED
    BY <1>1, <1>2, Induction
<1>4. \E f : f = [i \in 1 .. M |-> Loop(s, f, i)]
  <2>1. M \in Defined
    <3> HIDE DEF Defined
    <3> QED
      BY <1>0, <1>3
  <2>2. PICK f : f = [i \in 1 .. M |-> f[i]] /\ Solves(f, M)
    BY <2>1
  <2>3. \A i \in 1 .. M : f[i] = Loop(s, f, i)
    <3>1. \A i \in 1 .. M : i > M - M
      BY <1>0
    <3> QED
      BY <2>2, <3>1, Zenon
  <2>4. [i \in 1 .. M |-> f[i]] = [i \in 1 .. M |-> Loop(s, f, i)]
    BY <2>3, Zenon
  <2> QED
    BY <2>2, <2>4, Zenon
<1> DEFINE from == CHOOSE f : f = [i \in 1 .. M |-> Loop(s, f, i)]
<1>5. from = [i \in 1 .. M |-> Loop(s, from, i)]
  BY <1>4, Zenon
<1>6. unescape_string(s) = from[1]
  BY Zenon DEF unescape_string, Loop, M
<1> HIDE DEF from
<1>7. \A i \in 1 .. M : from[i] = Loop(s, from, i)
  BY <1>5, Zenon
<1> QED
  BY <1>6, <1>7, Zenon DEF M

\* The escapes that EscapeCode uses.
LEMMA SimpleIs ==
  /\ DOMAIN Simple = {110, 114, 116, 92, 48}
  /\ Simple[110] = 10 /\ Simple[114] = 13 /\ Simple[116] = 9
  /\ Simple[48] = 0 /\ Simple[92] = 92
<1>1. Backslash = 92
  BY DEF Backslash
<1> HIDE DEF Backslash
<1>2. DOMAIN Simple = {110, 114, 116, 92, 48}
  BY <1>1 DEF Simple
<1>3. Simple[110] = 10
  BY <1>1 DEF Simple
<1>4. Simple[48] = 0
  BY <1>1 DEF Simple
<1>5. Simple[92] = 92
  BY <1>1 DEF Simple
<1>6. Simple[114] = 13
  BY <1>1 DEF Simple
<1>7. Simple[116] = 9
  BY <1>1 DEF Simple
<1> QED
  BY <1>2, <1>3, <1>4, <1>5, <1>6, <1>7

\* Two digits of base 16 are read as what they were written for.
LEMMA HexRead ==
  ASSUME NEW c \in 0 .. 127
  PROVE  FromHex(HexDigit(c \div 16), HexDigit(c % 16)) = {c}
<1> DEFINE x == c \div 16
           y == c % 16
<1>1. x \in 0 .. 15 /\ y \in 0 .. 15 /\ c = 16 * x + y
  OBVIOUS
<1> HIDE DEF x, y
<1>2. ASSUME NEW n \in 0 .. 15
      PROVE  HexDigit(n) \in HexDigits /\ HexValue(HexDigit(n)) = n
  <2>1. CASE n < 10
    BY <2>1 DEF HexDigit, HexDigits, HexValue
  <2>2. CASE ~(n < 10)
    BY <2>2 DEF HexDigit, HexDigits, HexValue
  <2> QED
    BY <2>1, <2>2
<1>3. FromHex(HexDigit(x), HexDigit(y)) = {16 * HexValue(HexDigit(x)) + HexValue(HexDigit(y))}
  BY <1>1, <1>2 DEF FromHex
<1>4. FromHex(HexDigit(x), HexDigit(y)) = {c}
  <2>1. HexValue(HexDigit(x)) = x /\ HexValue(HexDigit(y)) = y
    BY <1>1, <1>2
  <2>2. FromHex(HexDigit(x), HexDigit(y)) = {16 * x + y}
    BY <1>3, <2>1
  <2> QED
    BY <1>1, <2>2
<1> QED
  BY <1>4 DEF x, y

\* What a character is written as: itself, a backslash and a letter, or a number.
Plain(c, e) == c # Backslash /\ e = <<c>>
Short(c, e) == \E d \in DOMAIN Simple : e = <<Backslash, d>> /\ Simple[d] = c
Hex(c, e) == \E a, b \in 0 .. 127 : e = <<Backslash, 120, a, b>> /\ FromHex(a, b) = {c}

\* Every ASCII character is written in one of the three ways.
LEMMA Escaped ==
  ASSUME NEW c \in 0 .. 127
  PROVE  /\ EscapeCode(c) \in Seq(0 .. 127)
         /\ Plain(c, EscapeCode(c)) \/ Short(c, EscapeCode(c)) \/ Hex(c, EscapeCode(c))
<1>0. Backslash = 92
  BY DEF Backslash
<1>1. ASSUME NEW d \in DOMAIN Simple, EscapeCode(c) = <<Backslash, d>>, Simple[d] = c
      PROVE  EscapeCode(c) \in Seq(0 .. 127) /\ Short(c, EscapeCode(c))
  <2>1. d \in 0 .. 127
    BY SimpleIs
  <2>2. EscapeCode(c) \in Seq(0 .. 127)
    BY <1>0, <1>1, <2>1
  <2>3. Short(c, EscapeCode(c))
    BY <1>1, Zenon DEF Short
  <2> QED
    BY <2>2, <2>3
<1>2. CASE c = 10 \/ c = 13 \/ c = 9
  <2>1. CASE c = 10
    <3>1. EscapeCode(c) = <<Backslash, 110>>
      BY <1>0, <2>1 DEF EscapeCode
    <3> QED
      BY <1>1, <2>1, <3>1, SimpleIs
  <2>2. CASE c = 13
    <3>1. EscapeCode(c) = <<Backslash, 114>>
      BY <1>0, <2>2 DEF EscapeCode
    <3> QED
      BY <1>1, <2>2, <3>1, SimpleIs
  <2>3. CASE c = 9
    <3>1. EscapeCode(c) = <<Backslash, 116>>
      BY <1>0, <2>3 DEF EscapeCode
    <3> QED
      BY <1>1, <2>3, <3>1, SimpleIs
  <2> QED
    BY <1>2, <2>1, <2>2, <2>3
<1>3. CASE c = 0 \/ c = 92
  <2>1. CASE c = 0
    <3>1. EscapeCode(c) = <<Backslash, 48>>
      BY <1>0, <2>1 DEF EscapeCode
    <3> QED
      BY <1>1, <2>1, <3>1, SimpleIs
  <2>2. CASE c = 92
    <3>1. EscapeCode(c) = <<Backslash, 92>>
      BY <1>0, <2>2 DEF EscapeCode
    <3> QED
      BY <1>1, <2>2, <3>1, SimpleIs
  <2> QED
    BY <1>3, <2>1, <2>2
<1>4. CASE c \in (32 .. 126) \ {92}
  <2>1. EscapeCode(c) = <<c>>
    BY <1>0, <1>4 DEF EscapeCode
  <2> QED
    BY <1>0, <1>4, <2>1 DEF Plain
<1>5. CASE c \notin {10, 13, 9, 0, 92} /\ c \notin 32 .. 126
  <2> DEFINE a == HexDigit(c \div 16)
             b == HexDigit(c % 16)
  <2>1. EscapeCode(c) = <<Backslash, 120, a, b>>
    <3> HIDE DEF a, b
    <3> QED
      BY <1>0, <1>5 DEF EscapeCode, a, b
  <2>2. a \in 0 .. 127 /\ b \in 0 .. 127
    BY DEF HexDigit
  <2>3. FromHex(a, b) = {c}
    BY HexRead
  <2> HIDE DEF a, b
  <2>4. Hex(c, EscapeCode(c))
    BY <2>1, <2>2, <2>3 DEF Hex
  <2>5. EscapeCode(c) \in Seq(0 .. 127)
    BY <1>0, <2>1, <2>2
  <2> QED
    BY <2>4, <2>5
<1> QED
  BY <1>1, <1>2, <1>3, <1>4, <1>5

\* The loop reads what a character is written as, and goes on behind it.
LEMMA Unescaped ==
  ASSUME NEW s, Len(s) \in Nat, NEW from, NEW k \in Nat, NEW c,
         NEW e \in Seq(0 .. 127), Plain(c, e) \/ Short(c, e) \/ Hex(c, e),
         k + Len(e) <= Len(s), \A q \in 1 .. Len(e) : s[k + q] = e[q],
         from[k + 1] = Loop(s, from, k + 1)
  PROVE  from[k + 1] = <<c>> \o from[k + Len(e) + 1]
<1> DEFINE i == k + 1
           N == Len(s)
<1>1. i \in Nat /\ k = i - 1 /\ from[i] = Loop(s, from, i) /\ N \in Nat
  OBVIOUS
<1>2. CASE Plain(c, e)
  <2>1. Len(e) = 1 /\ s[i] = c /\ c # Backslash
    <3>1. e = <<c>> /\ c # Backslash
      BY <1>2 DEF Plain
    <3>2. Len(e) = 1 /\ e[1] = c
      BY <3>1
    <3> QED
      BY <3>1, <3>2
  <2>2. ~(i > Len(s))
    BY <2>1
  <2> HIDE DEF i
  <2>3. from[i] = <<s[i]>> \o from[i + 1]
    BY <1>1, <2>1, <2>2, Zenon DEF Loop
  <2>4. k + Len(e) + 1 = i + 1
    BY <2>1 DEF i
  <2> QED
    BY <2>1, <2>3, <2>4 DEF i
<1>3. CASE Short(c, e)
  <2>1. PICK d \in DOMAIN Simple : e = <<Backslash, d>> /\ Simple[d] = c
    BY <1>3, Zenon DEF Short
  <2>2. Len(e) = 2 /\ e[1] = Backslash /\ e[2] = d
    BY <2>1
  <2>3. s[i] = Backslash /\ s[i + 1] = d
    <3>1. i = k + 1 /\ i + 1 = k + 2 /\ 1 \in 1 .. Len(e) /\ 2 \in 1 .. Len(e)
      BY <2>2
    <3> HIDE DEF i
    <3> QED
      BY <2>2, <3>1, Zenon
  <2>4. ~(i > Len(s)) /\ i # Len(s)
    BY <2>2
  <2>5. i + 2 = k + Len(e) + 1
    BY <2>2
  <2> HIDE DEF i
  <2>6. from[i] = <<Simple[s[i + 1]]>> \o from[i + 2]
    BY <1>1, <2>1, <2>3, <2>4, Zenon DEF Loop
  <2>7. from[i] = <<c>> \o from[i + 2]
    BY <2>1, <2>3, <2>6, Zenon
  <2> QED
    BY <2>5, <2>7, Zenon DEF i
<1>4. CASE Hex(c, e)
  <2>1. PICK a, b \in 0 .. 127 : e = <<Backslash, 120, a, b>> /\ FromHex(a, b) = {c}
    BY <1>4, Zenon DEF Hex
  <2>2. Len(e) = 4 /\ e[1] = Backslash /\ e[2] = 120 /\ e[3] = a /\ e[4] = b
    BY <2>1
  <2>3. s[i] = Backslash /\ s[i + 1] = 120 /\ s[i + 2] = a /\ s[i + 3] = b
    <3>1. /\ i = k + 1 /\ i + 1 = k + 2 /\ i + 2 = k + 3 /\ i + 3 = k + 4
          /\ \A q \in {1, 2, 3, 4} : q \in 1 .. Len(e)
      BY <2>2
    <3>2. /\ s[k + 1] = e[1] /\ s[k + 2] = e[2] /\ s[k + 3] = e[3] /\ s[k + 4] = e[4]
      BY <3>1
    <3> HIDE DEF i
    <3> QED
      BY <2>2, <3>1, <3>2, Zenon
  <2>4. ~(i > Len(s)) /\ i # Len(s) /\ i + 3 <= Len(s)
    BY <2>2
  <2>5. i + 4 = k + Len(e) + 1
    BY <2>2
  <2>6. 120 \notin DOMAIN Simple
    BY SimpleIs
  <2>7. FromHex(a, b) # {} /\ (CHOOSE x \in FromHex(a, b) : TRUE) = c
    BY <2>1
  <2> HIDE DEF i
  <2>8. from[i] = <<CHOOSE x \in FromHex(s[i + 2], s[i + 3]) : TRUE>> \o from[i + 4]
    BY <1>1, <2>3, <2>4, <2>6, <2>7, Zenon DEF Loop
  <2>9. from[i] = <<c>> \o from[i + 4]
    BY <2>3, <2>7, <2>8, Zenon
  <2> QED
    BY <2>5, <2>9, Zenon DEF i
<1> QED
  BY <1>2, <1>3, <1>4

\* One element more in front.
LEMMA Consed ==
  ASSUME NEW Z, NEW r \in Seq(Z), NEW c \in Z
  PROVE  /\ <<c>> \o r \in Seq(Z) /\ Len(<<c>> \o r) = Len(r) + 1 /\ (<<c>> \o r)[1] = c
         /\ \A q \in 1 .. Len(r) : (<<c>> \o r)[q + 1] = r[q]
  OBVIOUS

\* From the last character back, the loop returns what remains of the message.
LEMMA EscapeUndone ==
  ASSUME NEW m \in Seq(0 .. 127)
  PROVE  unescape_string(FlattenSeq([i \in DOMAIN m |-> EscapeCode(m[i])])) = m
<1> DEFINE Z == 0 .. 127
           N == Len(m)
           e == [i \in DOMAIN m |-> EscapeCode(m[i])]
           s == FlattenSeq(e)
<1>0. N \in Nat /\ m \in Seq(Z) /\ \A i \in 1 .. N : m[i] \in Z
  <2>1. m \in Seq(Z)
    OBVIOUS
  <2> HIDE DEF Z
  <2> QED
    BY <2>1
<1>1. e \in Seq(Seq(Z)) /\ Len(e) = N /\ \A i \in 1 .. N : e[i] = EscapeCode(m[i])
  <2>1. \A i \in 1 .. N : EscapeCode(m[i]) \in Seq(Z)
    BY <1>0, Escaped
  <2>2. DOMAIN m = 1 .. N
    BY <1>0
  <2> HIDE DEF N, Z
  <2>3. e \in [1 .. N -> Seq(Z)]
    BY <2>1, <2>2
  <2> QED
    BY <1>0, <2>2, <2>3
<1> HIDE DEF e
<1>2. PICK p \in [0 .. N -> Seq(Z)] :
        /\ p[0] = <<>> /\ \A i \in 1 .. N : p[i] = p[i - 1] \o e[i]
        /\ s = p[N]
  <2> HIDE DEF N, Z
  <2>1. \E p \in [0 .. Len(e) -> Seq(Z)] :
          /\ p[0] = <<>> /\ \A i \in 1 .. Len(e) : p[i] = p[i - 1] \o e[i]
          /\ FlattenSeq(e) = p[Len(e)]
    BY <1>1, Flattened
  <2> QED
    BY <1>1, <2>1
<1> HIDE DEF s, Z, N
<1>3. s \in Seq(Z) /\ Len(s) \in Nat /\ \A i \in 0 .. N : p[i] \in Seq(Z) /\ Len(p[i]) \in Nat
  <2>1. N \in 0 .. N
    BY <1>0
  <2>2. \A i \in 0 .. N : p[i] \in Seq(Z)
    BY <1>2
  <2> QED
    BY <1>2, <2>1, <2>2
<1>4. PICK from : /\ \A i \in 1 .. Len(s) + 4 : from[i] = Loop(s, from, i)
                  /\ unescape_string(s) = from[1]
  BY <1>3, UnescapeLoop
<1>5. ASSUME NEW i \in 1 .. N
      PROVE  from[Len(p[i - 1]) + 1] = <<m[i]>> \o from[Len(p[i]) + 1]
  <2> DEFINE k == Len(p[i - 1])
             x == e[i]
             c == m[i]
  <2>1. /\ Len(p[i]) = k + Len(x) /\ Len(p[i]) <= Len(s)
        /\ \A q \in 1 .. Len(x) : s[k + q] = x[q]
    <3>1. e \in Seq(Seq(Z)) /\ p \in [0 .. Len(e) -> Seq(Z)] /\ i \in 1 .. Len(e)
      BY <1>1, <1>2
    <3>2. Joins(p, e)
      BY <1>1, <1>2 DEF Joins
    <3>3. PlacedAt(p, e, i)
      BY <3>1, <3>2, Placed
    <3>4. p[Len(e)] = s
      BY <1>1, <1>2, Zenon
    <3> QED
      BY <3>3, <3>4, Zenon DEF PlacedAt
  <2>2. k \in Nat
    <3>1. i - 1 \in 0 .. N
      BY <1>0
    <3> QED
      BY <1>3, <3>1
  <2>3. c \in 0 .. 127 /\ x = EscapeCode(c)
    BY <1>0, <1>1 DEF Z
  <2> HIDE DEF k, x, c
  <2>4. x \in Seq(0 .. 127) /\ (Plain(c, x) \/ Short(c, x) \/ Hex(c, x))
    BY <2>3, Escaped, Zenon
  <2>5. Len(x) \in Nat /\ k + Len(x) <= Len(s)
    BY <2>1, <2>4
  <2>6. from[k + 1] = Loop(s, from, k + 1)
    BY <1>3, <1>4, <2>2, <2>5
  <2>7. from[k + 1] = <<c>> \o from[k + Len(x) + 1]
    <3>1. Len(s) \in Nat
      BY <1>3
    <3>2. \A q \in 1 .. Len(x) : s[k + q] = x[q]
      BY <2>1
    <3>3. k + Len(x) <= Len(s)
      BY <2>5
    <3> QED
      BY <2>2, <2>4, <2>6, <3>1, <3>2, <3>3, Unescaped
  <2> QED
    BY <2>1, <2>7 DEF k, c
<1> DEFINE Rest(i) == from[Len(p[i]) + 1]
           Meant(i) == /\ Rest(i) \in Seq(Z) /\ Len(Rest(i)) = N - i
                       /\ \A q \in 1 .. N - i : Rest(i)[q] = m[i + q]
           Back == {d \in Nat : d <= N => Meant(N - d)}
<1>6. ASSUME NEW i \in 1 .. N PROVE Rest(i - 1) = <<m[i]>> \o Rest(i)
  BY <1>5
<1>7. Rest(N) = <<>>
  <2>1. Len(s) + 1 \in 1 .. Len(s) + 4 /\ Len(s) + 1 > Len(s)
    BY <1>3
  <2>2. from[Len(s) + 1] = <<>>
    BY <1>4, <2>1 DEF Loop
  <2> QED
    BY <1>2, <2>2
<1>8. Rest(0) = unescape_string(s)
  <2>1. Len(p[0]) + 1 = 1
    BY <1>2
  <2> QED
    BY <1>4, <2>1
<1> HIDE DEF Rest
<1>9. 0 \in Back
  <2>1. N - 0 = N /\ N - N = 0
    BY <1>0
  <2>2. Meant(N)
    BY <1>7, <2>1
  <2> QED
    BY <2>1, <2>2
<1>10. ASSUME NEW d \in Nat, d \in Back PROVE d + 1 \in Back
  <2> SUFFICES ASSUME d + 1 <= N PROVE Meant(N - (d + 1))
    OBVIOUS
  <2> DEFINE i == N - d
  <2>1. i \in 1 .. N /\ N - (d + 1) = i - 1
    BY <1>0
  <2>2. Meant(i)
    BY <1>10, <1>0
  <2>3. m[i] \in Z /\ Rest(i - 1) = <<m[i]>> \o Rest(i)
    BY <1>0, <1>6, <2>1
  <2> HIDE DEF i
  <2> DEFINE r == Rest(i)
             t == <<m[i]>> \o Rest(i)
  <2>4. /\ t \in Seq(Z) /\ Len(t) = Len(r) + 1 /\ t[1] = m[i]
        /\ \A q \in 1 .. Len(r) : t[q + 1] = r[q]
    BY <2>2, <2>3, Consed
  <2>5. Len(r) = N - i /\ \A q \in 1 .. N - i : r[q] = m[i + q]
    BY <2>2
  <2> HIDE DEF r, t
  <2>6. ASSUME NEW q \in 1 .. N - (i - 1) PROVE t[q] = m[i - 1 + q]
    <3>1. CASE q = 1
      <4>1. i - 1 + q = i
        BY <2>1, <3>1
      <4> QED
        BY <2>4, <3>1, <4>1
    <3>2. CASE q # 1
      <4>1. q - 1 \in 1 .. N - i /\ (q - 1) + 1 = q /\ i - 1 + q = i + (q - 1)
        BY <1>0, <2>1, <3>2
      <4> QED
        BY <2>4, <2>5, <4>1
    <3> QED
      BY <3>1, <3>2
  <2>7. Len(t) = N - (i - 1)
    BY <1>0, <2>1, <2>4, <2>5
  <2>8. Rest(i - 1) = t
    BY <2>3 DEF t
  <2> QED
    BY <2>1, <2>4, <2>6, <2>7, <2>8
<1>11. Nat \subseteq Back
  <2> HIDE DEF Back
  <2> QED
    BY <1>9, <1>10, Induction
<1>12. Meant(0)
  <2>1. N - N = 0 /\ N <= N
    BY <1>0
  <2> HIDE DEF Meant
  <2>2. Meant(N - N)
    BY <1>0, <1>11, <2>1
  <2> QED
    BY <2>1, <2>2
<1>13. Rest(0) = m
  <2>1. /\ Rest(0) \in Seq(Z) /\ Len(Rest(0)) = N /\ \A q \in 1 .. N : Rest(0)[q] = m[q]
    BY <1>0, <1>12
  <2> QED
    BY <1>0, <2>1 DEF N
<1> QED
  BY <1>8, <1>13 DEF s, e

\* A string over fewer characters.
LEMMA Wider ==
  ASSUME NEW X, NEW Y, X \subseteq Y, NEW s \in Seq(X)
  PROVE  s \in Seq(Y)
  OBVIOUS

-----------------------------------------------------------------------------
(***************************************************************************)
(* The theorems.                                                           *)
(***************************************************************************)

\* What is typed is a string of the option's characters.
Typed ==
  /\ option \in {"number", "message"}
  /\ typed \in Seq(IF option = "number" THEN Chars ELSE Codes)

\* The user types nothing but the characters of the option he types.
THEOREM TypedAlways == Spec => []Typed
<1>1. Init => Typed
  BY DEF Init, Typed
<1>2. Typed /\ [Type]_vars => Typed'
  <2> SUFFICES ASSUME Typed, [Type]_vars PROVE Typed'
    OBVIOUS
  <2> DEFINE X == IF option = "number" THEN Chars ELSE Codes
  <2>1. option' = option /\ (typed' = typed \/ \E c \in X : typed' = Append(typed, c))
    BY Zenon DEF Type, vars
  <2>2. typed \in Seq(X) /\ option \in {"number", "message"}
    BY DEF Typed
  <2>3. X' = X
    BY <2>1
  <2> HIDE DEF X
  <2>4. typed' \in Seq(X)
    BY <2>1, <2>2
  <2> QED
    BY <2>1, <2>2, <2>3, <2>4 DEF Typed, X
<1> QED
  BY <1>1, <1>2, PTL DEF Spec

\* parse_duration: whatever is typed, a number with a unit is read as that many
\* milliseconds, up to the largest u64 of seconds, and every other string is refused,
\* with the one exception the property makes.
THEOREM DurationsCorrect == Spec => []DurationsParsed
<1>1. Typed => DurationsParsed
  <2> SUFFICES ASSUME Typed, option = "number"
               PROVE  LET ms == Meaning(typed, [u \in {<<"m", "s">>} |-> 1])
                          limit == 1000 * U64Max
                          secs == Meaning(typed, [u \in {<<c>> : c \in DOMAIN Units} |->
                                                    1000 * Units[u[1]]])
                      IN  parse_duration(typed) =
                            ms \cup {IF n <= limit THEN n ELSE limit : n \in secs}
    BY Zenon DEF DurationsParsed
  <2>1. typed \in Seq(Chars)
    BY DEF Typed
  <2> DEFINE limit == 1000 * U64Max
  <2>2. limit = 1000 * U64Max
    OBVIOUS
  <2> HIDE DEF limit
  <2>3. parse_duration(typed) =
          Meaning(typed, [u \in {<<"m", "s">>} |-> 1]) \cup
          {IF n <= limit THEN n ELSE limit :
             n \in Meaning(typed, [u \in {<<c>> : c \in DOMAIN Units} |->
                                     1000 * Units[u[1]]])}
    BY <2>1, <2>2, DurationParsed
  <2> QED
    BY <2>3, Zenon DEF limit
<1> QED
  BY <1>1, TypedAlways, PTL

\* parse_rate: whatever is typed, a number with or without a k is read as what it says,
\* up to the largest u64, and every other string is refused.
THEOREM RatesCorrect == Spec => []RatesParsed
<1>1. Typed => RatesParsed
  <2> SUFFICES ASSUME Typed, option = "number"
               PROVE  parse_rate(typed) =
                        {IF n <= U64Max THEN n ELSE U64Max :
                           n \in Meaning(typed, [u \in {<<>>, <<"k">>} |->
                                                   IF u = <<>> THEN 1 ELSE 1000])}
    BY Zenon DEF RatesParsed
  <2>1. typed \in Seq(Chars)
    BY DEF Typed
  <2> QED
    BY <2>1, RateParsed, Zenon
<1> QED
  BY <1>1, TypedAlways, PTL

\* unescape_string: every ASCII message, however long, is sent as it was written.
THEOREM UnescapeCorrect == Spec => []UnescapeInvertsEscape
<1>1. Typed => UnescapeInvertsEscape
  <2> SUFFICES ASSUME Typed, option = "message"
               PROVE  unescape_string(FlattenSeq([i \in DOMAIN typed |->
                                                    EscapeCode(typed[i])])) = typed
    BY Zenon DEF UnescapeInvertsEscape
  <2>1. typed \in Seq(0 .. 127)
    <3>1. typed \in Seq(Codes)
      BY DEF Typed
    <3> QED
      BY <3>1, CodesAssumption, Wider
  <2> QED
    BY <2>1, EscapeUndone, Zenon
<1> QED
  BY <1>1, TypedAlways, PTL
=============================================================================
