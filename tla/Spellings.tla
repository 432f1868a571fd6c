----------------------------- MODULE Spellings ------------------------------
(***************************************************************************)
(* The spellings a configuration value may have, and the one the store     *)
(* keeps (conf.c).  A value is a sequence of characters, a word of a fixed *)
(* vocabulary being one of them.  "bad" is a refusal.  The numeric limits  *)
(* of the code are parameters.                                             *)
(***************************************************************************)
EXTENDS Integers, Sequences, FiniteSets

CONSTANTS
    IntDigits,      \* digits before the point: 8 of a temperature, 9 of a price
    FracDigits,     \* digits behind it: 9
    PositiveCap,    \* 100000: past it no digit is taken
    LongMax,        \* 2147483647, the largest duration
    Second          \* 1000, the shortest credits_ttl

Digits == <<"0", "1", "2", "3", "4", "5", "6", "7", "8", "9">>
Digit(c) == \E n \in DOMAIN Digits : Digits[n] = c
Value(c) == (CHOOSE n \in DOMAIN Digits : Digits[n] = c) - 1
Bad == <<"bad">>
Off == <<"off">>

(* The number the digits of s spell, base ten.                              *)
Spelled(s) ==
    LET of[n \in 0 .. Len(s)] == IF n = 0 THEN 0 ELSE of[n - 1] * 10 + Value(s[n])
    IN of[Len(s)]

(* The longest prefix of digits, from place i on.                           *)
DigitsFrom(s, i) ==
    LET ends == {j \in i - 1 .. Len(s) : \A k \in i .. j : Digit(s[k])}
    IN SubSeq(s, i, CHOOSE j \in ends : \A k \in ends : k <= j)

(* A decimal: digits, and optionally a point with digits behind it.         *)
Whole(s) == DigitsFrom(s, 1)
Point(s) == Len(Whole(s)) < Len(s) /\ s[Len(Whole(s)) + 1] = "."
Frac(s) == IF Point(s) THEN DigitsFrom(s, Len(Whole(s)) + 2) ELSE <<>>
Decimal(s) ==
    /\ Len(Whole(s)) \in 1 .. IntDigits
    /\ Point(s) => Len(Frac(s)) \in 1 .. FracDigits
    /\ Len(s) = Len(Whole(s)) + Len(Frac(s)) + (IF Point(s) THEN 1 ELSE 0)

(* Without the zeros that say nothing.                                      *)
Trimmed(f) ==
    LET last == {n \in 0 .. Len(f) : \A k \in n + 1 .. Len(f) : f[k] = "0"}
    IN SubSeq(f, 1, CHOOSE n \in last : \A m \in last : n <= m)
Led(w) ==
    LET from == {n \in 1 .. Len(w) : \A k \in 1 .. n - 1 : w[k] = "0"}
    IN SubSeq(w, CHOOSE n \in from : \A m \in from : m <= n, Len(w))
Joint(w, f) == IF f = <<>> THEN w ELSE w \o <<".">> \o f

(* Mutant: the fraction is cut, not trimmed.                                *)
TemperatureCut(s) ==
    IF ~Decimal(s) \/ Spelled(Whole(s)) > 2 THEN Bad
    ELSE Joint(<<Digits[Spelled(Whole(s)) + 1]>>, Frac(s))

(* temperature_scan: between 0 and 2, both included.                        *)
Temperature(s) ==
    LET f == Trimmed(Frac(s))
    IN IF \/ ~Decimal(s)
          \/ Spelled(Whole(s)) > 2
          \/ Spelled(Whole(s)) = 2 /\ f # <<>>
       THEN Bad ELSE Joint(<<Digits[Spelled(Whole(s)) + 1]>>, f)

(* price_scan: any decimal but zero.                                        *)
Price(s) ==
    IF ~Decimal(s) \/ \A c \in {s[i] : i \in DOMAIN s} \ {"."} : c = "0" THEN Bad
    ELSE Joint(Led(Whole(s)), Trimmed(Frac(s)))

(* nm_config_max_price_canon: two prices.                                   *)
MaxPrice(s) ==
    LET commas == {i \in DOMAIN s : s[i] = ","}
    IN IF Cardinality(commas) # 1 THEN Bad
       ELSE LET at == CHOOSE i \in commas : TRUE
                a == Price(SubSeq(s, 1, at - 1))
                b == Price(SubSeq(s, at + 1, Len(s)))
            IN IF Bad \in {a, b} THEN Bad ELSE a \o <<",">> \o b

(* nm_config_valid_positive_int: no digit is taken once the value has       *)
(* passed the cap.                                                          *)
PositiveInt(s) ==
    IF /\ s # <<>> /\ \A i \in DOMAIN s : Digit(s[i])
       /\ \A i \in DOMAIN s : Spelled(SubSeq(s, 1, i - 1)) <= PositiveCap
       /\ Spelled(s) > 0
    THEN s ELSE Bad

(* parse_int: what such a value counts for.                                 *)
PositiveValue(s) ==
    IF Spelled(s) > PositiveCap THEN PositiveCap ELSE Spelled(s)

(* nm_config_image_live_canon.                                              *)
ImageLive(s) == IF s = Off THEN Off ELSE PositiveInt(s)

(* duration_parse: -1, or the value; each digit is tested before it could   *)
(* overflow.                                                                *)
DurationParse(s) ==
    LET of[n \in 0 .. Len(s)] ==
          IF n = 0 THEN 0
          ELSE IF of[n - 1] = -1 \/ ~Digit(s[n])
                  \/ of[n - 1] > (LongMax - Value(s[n])) \div 10
               THEN -1 ELSE of[n - 1] * 10 + Value(s[n])
    IN IF of[Len(s)] > 0 THEN of[Len(s)] ELSE -1

(* nm_config_duration_canon.                                                *)
Duration(s) ==
    IF s = Off THEN Off ELSE IF DurationParse(s) > 0 THEN s ELSE Bad

(* normalize_value for credits_ttl and poll_timeout, which narrow it.       *)
CreditsTtl(s) ==
    IF Duration(s) \in {Off, Bad} \/ DurationParse(s) >= Second
    THEN Duration(s) ELSE Bad
PollTimeout(s) == IF s = Off THEN Bad ELSE Duration(s)

-----------------------------------------------------------------------------
(* nm_config_family_set_canon: words joined by +, blanks around them.       *)

Blanks(s, i) ==
    CHOOSE j \in i .. Len(s) + 1 :
        /\ \A k \in i .. j - 1 : s[k] = " "
        /\ j = Len(s) + 1 \/ s[j] # " "
WordEnd(s, i) ==
    CHOOSE j \in i .. Len(s) + 1 :
        /\ \A k \in i .. j - 1 : s[k] \notin {"+", " "}
        /\ j = Len(s) + 1 \/ s[j] \in {"+", " "}

(* The words from place i on; <<>> when the rest is malformed.              *)
FamilyWords(s) ==
    LET from[i \in 1 .. Len(s) + 1] ==
          LET a == Blanks(s, i)
              b == WordEnd(s, a)
              c == Blanks(s, b)
              word == SubSeq(s, a, b - 1)
          IN IF Len(word) # 1 \/ word[1] \notin {"none", "IPv4", "IPv6"}
             THEN <<>>
             ELSE IF c = Len(s) + 1 THEN word
             ELSE IF s[c] # "+" \/ c = Len(s) \/ from[c + 1] = <<>> THEN <<>>
             ELSE word \o from[c + 1]
    IN from[1]

FamilySet(s) ==
    LET words == FamilyWords(s)
        has == {words[i] : i \in DOMAIN words}
    IN CASE words = <<>> -> Bad
         [] "none" \in has -> IF Len(words) = 1 THEN <<"none">> ELSE Bad
         [] has = {"IPv4", "IPv6"} -> <<"IPv4", "+", "IPv6">>
         [] OTHER -> <<CHOOSE f \in has : TRUE>>

-----------------------------------------------------------------------------
(* Vocabularies: the first list a word is in names its spelling.            *)

Word(s) == IF Len(s) = 1 THEN s[1] ELSE ""
OffWords == {"off", "no", "false", "0"}
OnWords  == {"on", "true", "yes", "1"}

(* nm_config_valid_bool, and normalize_bool.                                *)
Bool(s) ==
    CASE Word(s) \in OnWords  -> <<"on">>
      [] Word(s) \in OffWords -> Off
      [] OTHER -> Bad

(* nm_config_reasoning_echo_canon.                                          *)
Echo(s) ==
    CASE Word(s) \in OffWords -> Off
      [] Word(s) \in {"tools", "tool", "calls", "tool-calls", "tool_calls"} ->
            <<"tools">>
      [] Word(s) \in OnWords \cup {"all"} -> <<"all">>
      [] OTHER -> Bad

(* nm_config_kbd_canon.                                                     *)
Kbd(s) ==
    CASE Word(s) \in {"auto", "default"} -> <<"auto">>
      [] Word(s) \in OnWords \cup {"kitty"} -> <<"on">>
      [] Word(s) \in OffWords \cup {"legacy"} -> Off
      [] OTHER -> Bad

(* nm_config_color_canon.                                                   *)
Color(s) ==
    CASE Word(s) \in {"auto", "default"} -> <<"auto">>
      [] Word(s) \in {"16", "ansi", "ansi16", "ansi-16"} -> <<"16">>
      [] Word(s) \in {"rgb", "truecolor", "true-color", "24bit", "24-bit",
                      "direct"} -> <<"rgb">>
      [] OTHER -> Bad

(* normalize_value and normalize_scoped_value: a key's kind says what its   *)
(* values may be.                                                           *)
Kinds == {"count", "live", "temperature", "echo", "kbd", "color", "duration",
          "ttl", "poll", "bool", "families", "price"}
Normalize(kind, s) ==
    CASE kind = "count"       -> PositiveInt(s)
      [] kind = "live"        -> ImageLive(s)
      [] kind = "temperature" -> Temperature(s)
      [] kind = "echo"        -> Echo(s)
      [] kind = "kbd"         -> Kbd(s)
      [] kind = "color"       -> Color(s)
      [] kind = "duration"    -> Duration(s)
      [] kind = "ttl"         -> CreditsTtl(s)
      [] kind = "poll"        -> PollTimeout(s)
      [] kind = "bool"        -> Bool(s)
      [] kind = "families"    -> FamilySet(s)
      [] kind = "price"       -> MaxPrice(s)
=============================================================================
