-------------------------------- MODULE Options --------------------------------
(***************************************************************************)
(* The option parsers of src/src/utils.rs: parse_duration, parse_rate and  *)
(* unescape_string, character by character, with the order of their cases, *)
(* the width of their numbers and the strings they cannot split.  They are *)
(* compared with what the options mean: a grammar for numbers with a unit, *)
(* and the writer that unescape_string undoes.                             *)
(*                                                                         *)
(* The one variable is what the user types.  A character of a number is a  *)
(* one-letter string, "?" stands for a character of more than one byte; a  *)
(* character of a message is its code.                                     *)
(***************************************************************************)
EXTENDS Naturals, SequencesExt

CONSTANTS
  Chars,      \* what a duration or a rate is typed with
  Codes,      \* what a message is made of
  MaxLength,  \* bound: characters typed
  U64Max      \* the largest u64 (scaled down)

ASSUME U64MaxAssumption == U64Max \in Nat

\* Messages are ASCII: a character is one byte.
ASSUME CodesAssumption == Codes \subseteq 0 .. 127

VARIABLES
  option,   \* "number" or "message"
  typed

vars == <<option, typed>>

Init == option \in {"number", "message"} /\ typed = <<>>

\* One more character.
Type ==
  /\ Len(typed) < MaxLength
  /\ \E c \in (IF option = "number" THEN Chars ELSE Codes) : typed' = Append(typed, c)
  /\ UNCHANGED option

Spec == Init /\ [][Type]_vars

-----------------------------------------------------------------------------
(***************************************************************************)
(* The standard library's part.                                            *)
(***************************************************************************)
Numerals == <<"0", "1", "2", "3", "4", "5", "6", "7", "8", "9">>
Digits == ToSet(Numerals)
Space == " "
Plus == "+"
DigitValue == [d \in Digits |-> CHOOSE n \in 0 .. 9 : Numerals[n + 1] = d]

\* str::trim
Trim(s) ==
  LET ink == {i \in DOMAIN s : s[i] # Space}
  IN  IF ink = {} THEN <<>>
      ELSE SubSeq(s, CHOOSE i \in ink : \A j \in ink : i <= j,
                     CHOOSE i \in ink : \A j \in ink : i >= j)

\* str::to_lowercase
LowerCase(s) ==
  [i \in DOMAIN s |-> CASE s[i] = "M" -> "m" [] s[i] = "S" -> "s" [] s[i] = "K" -> "k"
                        [] s[i] = "H" -> "h" [] s[i] = "D" -> "d" [] OTHER -> s[i]]

Value(digits) ==
  LET first[n \in 0 .. Len(digits)] ==  \* of the first n digits
        IF n = 0 THEN 0 ELSE 10 * first[n - 1] + DigitValue[digits[n]]
  IN  first[Len(digits)]

\* str::parse::<u64>, as the set of its results: a plus sign is allowed.
ParseU64(s) ==
  LET digits == IF s # <<>> /\ Head(s) = Plus THEN Tail(s) ELSE s
  IN  IF digits # <<>> /\ ToSet(digits) \subseteq Digits /\ Value(digits) <= U64Max
      THEN {Value(digits)} ELSE {}

saturating_mul(a, b) == IF a * b <= U64Max THEN a * b ELSE U64Max

-----------------------------------------------------------------------------
(***************************************************************************)
(* The parsers.  A result is the set {value}, or {} for an error.          *)
(***************************************************************************)

\* Seconds per unit.
Units == [u \in {"s", "m", "h", "d"} |->
            CASE u = "s" -> 1 [] u = "m" -> 60 [] u = "h" -> 3600 [] OTHER -> 86400]

\* Mutant: the suffix "ms" is taken for the unit "s".
parse_duration_seconds_first(s) ==
  LET sl == LowerCase(Trim(s))
  IN  IF Len(sl) < 2 \/ Last(sl) \notin DOMAIN Units THEN {}
      ELSE {1000 * saturating_mul(n, Units[Last(sl)]) : n \in ParseU64(Trim(Front(sl)))}

\* In milliseconds.  split_at panics if the last character has several bytes, which
\* ends the program as an error does.
parse_duration(s) ==
  LET sl == LowerCase(Trim(s))
  IN  IF IsSuffix(<<"m", "s">>, sl) THEN ParseU64(Trim(Front(Front(sl))))
      ELSE IF Len(sl) < 2 \/ Last(sl) \notin DOMAIN Units THEN {}
      ELSE {1000 * saturating_mul(n, Units[Last(sl)]) : n \in ParseU64(Trim(Front(sl)))}

\* Mutant: the multiplication wraps around.
parse_rate_wrapping(s) ==
  LET sl == LowerCase(Trim(s))
  IN  IF IsSuffix(<<"k">>, sl)
      THEN {(n * 1000) % (U64Max + 1) : n \in ParseU64(Trim(Front(sl)))}
      ELSE ParseU64(sl)

parse_rate(s) ==
  LET sl == LowerCase(Trim(s))
  IN  IF IsSuffix(<<"k">>, sl)
      THEN {saturating_mul(n, 1000) : n \in ParseU64(Trim(Front(sl)))}
      ELSE ParseU64(sl)

Backslash == 92
Simple == [c \in {110, 114, 116, Backslash, 48} |->
             CASE c = 110 -> 10 [] c = 114 -> 13 [] c = 116 -> 9 [] c = Backslash -> Backslash
               [] OTHER -> 0]
HexDigits == (48 .. 57) \cup (65 .. 70) \cup (97 .. 102)
HexValue(c) == IF c <= 57 THEN c - 48 ELSE IF c <= 70 THEN c - 55 ELSE c - 87

\* u8::from_str_radix of two characters, which allows a plus sign too.
FromHex(a, b) ==
  IF b \notin HexDigits THEN {}
  ELSE IF a \in HexDigits THEN {16 * HexValue(a) + HexValue(b)}
  ELSE IF a = 43 THEN {HexValue(b)} ELSE {}

\* Mutant: an escaped backslash may begin another escape.
unescape_overlapping(s) ==
  LET from[i \in 1 .. Len(s) + 3] ==
        IF i > Len(s) THEN <<>>
        ELSE IF s[i] # Backslash \/ i = Len(s) THEN <<s[i]>> \o from[i + 1]
        ELSE IF s[i + 1] = Backslash THEN <<Backslash>> \o from[i + 1]
        ELSE IF s[i + 1] \in DOMAIN Simple THEN <<Simple[s[i + 1]]>> \o from[i + 2]
        ELSE IF s[i + 1] = 120 /\ i + 3 <= Len(s) /\ FromHex(s[i + 2], s[i + 3]) # {}
        THEN <<CHOOSE b \in FromHex(s[i + 2], s[i + 3]) : TRUE>> \o from[i + 4]
        ELSE <<Backslash, s[i + 1]>> \o from[i + 2]
  IN  from[1]

\* Unknown escapes, a last backslash and an \x without two digits are kept as they
\* stand; after such an \x the two characters are taken as they are.
unescape_string(s) ==
  LET from[i \in 1 .. Len(s) + 4] ==
        IF i > Len(s) THEN <<>>
        ELSE IF s[i] # Backslash \/ i = Len(s) THEN <<s[i]>> \o from[i + 1]
        ELSE IF s[i + 1] \in DOMAIN Simple THEN <<Simple[s[i + 1]]>> \o from[i + 2]
        ELSE IF s[i + 1] # 120 THEN <<Backslash, s[i + 1]>> \o from[i + 2]
        ELSE IF i + 3 <= Len(s) /\ FromHex(s[i + 2], s[i + 3]) # {}
        THEN <<CHOOSE b \in FromHex(s[i + 2], s[i + 3]) : TRUE>> \o from[i + 4]
        ELSE SubSeq(s, i, Min({i + 3, Len(s)})) \o from[i + 4]
  IN  from[1]

-----------------------------------------------------------------------------
(***************************************************************************)
(* What the options mean.                                                  *)
(***************************************************************************)

\* The characters of s after the first j, up to the k-th, are a number that blanks may
\* precede, and a plus sign.
Blanks(s, first, last) == \A i \in first .. last : s[i] = Space
Number(s, j, k) ==
  /\ \A i \in j + 1 .. k : s[i] \in Digits
  /\ Value(SubSeq(s, j + 1, k)) <= U64Max
  /\ Blanks(s, 1, j) \/ (j > 0 /\ s[j] = Plus /\ Blanks(s, 1, j - 1))

\* After the first k characters s has the suffix u and blanks: letters may be capital.
Capital == [m |-> "M", s |-> "S", k |-> "K", h |-> "H", d |-> "D"]
SameLetter(c, l) == c = l \/ (l \in DOMAIN Capital /\ c = Capital[l])
Suffix(s, k, u) ==
  \E l \in k .. Len(s) - Len(u) :
    /\ Blanks(s, k + 1, l) /\ Blanks(s, l + Len(u) + 1, Len(s))
    /\ \A i \in DOMAIN u : SameLetter(s[l + i], u[i])

\* The values of s as a number with the suffix u.
Values(s, u) ==
  UNION {{Value(SubSeq(s, j + 1, k)) : j \in {j \in 0 .. k - 1 : Number(s, j, k)}}
           : k \in {k \in 1 .. Len(s) : Suffix(s, k, u)}}

\* The same with one of the suffixes in units, a function from suffixes to factors.
Meaning(s, units) == UNION {{v * units[u] : v \in Values(s, u)} : u \in DOMAIN units}

\* utils.rs: a duration is "10s", "100ms" or "5m"; it "must have at least one digit and
\* one unit character".  Every string that is a number with a unit is read as that many
\* milliseconds, up to the largest u64 of seconds, and every other is refused; the suffix
\* "ms" is never taken for an "s".  Nothing is said of a single 0, which the code refuses
\* like any number without a unit and the help on --warmup allows ("0 to skip").
DurationsParsed ==
  option = "number" /\ typed # <<"0">> =>
    LET ms == Meaning(typed, [u \in {<<"m", "s">>} |-> 1])
        limit == 1000 * U64Max
        secs == Meaning(typed, [u \in {<<c>> : c \in DOMAIN Units} |-> 1000 * Units[u[1]]])
    IN  parse_duration(typed) = ms \cup {IF n <= limit THEN n ELSE limit : n \in secs}

\* utils.rs: a rate is "1000" or "10k".  Every number with or without a k is read as
\* what it says, up to the largest u64, and every other string is refused.
RatesParsed ==
  option = "number" =>
    parse_rate(typed) =
      {IF n <= U64Max THEN n ELSE U64Max :
         n \in Meaning(typed, [u \in {<<>>, <<"k">>} |-> IF u = <<>> THEN 1 ELSE 1000])}

\* Writes a message for --unescape-message-args.
HexDigit(n) == IF n < 10 THEN 48 + n ELSE 87 + n
EscapeCode(c) ==
  CASE c = 10 -> <<Backslash, 110>>
    [] c = 13 -> <<Backslash, 114>>
    [] c = 9 -> <<Backslash, 116>>
    [] c = 0 -> <<Backslash, 48>>
    [] c = Backslash -> <<Backslash, Backslash>>
    [] c \in (32 .. 126) \ {Backslash} -> <<c>>
    [] OTHER -> <<Backslash, 120, HexDigit(c \div 16), HexDigit(c % 16)>>

\* Every ASCII message can be written, whatever its characters are next to, and is sent
\* byte by byte as it was meant.
UnescapeInvertsEscape ==
  option = "message" =>
    unescape_string(FlattenSeq([i \in DOMAIN typed |-> EscapeCode(typed[i])])) = typed
=============================================================================
