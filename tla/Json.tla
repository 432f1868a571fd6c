-------------------------------- MODULE Json --------------------------------
(***************************************************************************)
(* The JSON reader and writer (json.c).  A text is a sequence of bytes: an *)
(* ASCII character stands for itself, "NL" and "CTL" for control           *)
(* characters, "NUL" for the byte 0, and a byte from 0x80 on is written in *)
(* hexadecimal.  A number keeps the text it was read from, and reading     *)
(* strtod's value back is left out: the program is given whole numbers.    *)
(***************************************************************************)
EXTENDS Repeat

CONSTANT NumberMax      \* 64: bytes of a number

At(s, i) == IF i \in DOMAIN s THEN s[i] ELSE "end"
Starts(s, i, w) == Len(s) >= i + Len(w) - 1 /\ SubSeq(s, i, i + Len(w) - 1) = w

---------------------------------------------------------------------------
(* UTF-8 *)

(* The bytes from 0x80 on, in the classes the checks tell apart.            *)
Low  == {"80"}      \* 80..8F
Mid  == {"90"}      \* 90..9F
High == {"A0"}      \* A0..BF
Tails == Low \cup Mid \cup High
Two   == {"C2"}                 \* C2..DF
Three == {"E0", "E1", "ED"}     \* E1 for all others up to EF
Four  == {"F0", "F1", "F4"}     \* F1 for F2 and F3
Bare  == {"C0", "F5"}           \* C0, C1 and F5..FF, never part of a text
Wide(c) == c \in Tails \cup Two \cup Three \cup Four \cup Bare

(* What may follow the lead byte.                                           *)
SecondByte(lead) ==
    CASE lead = "E0" -> High              [] lead = "ED" -> Low \cup Mid
      [] lead = "F0" -> Mid \cup High     [] lead = "F4" -> Low
      [] OTHER -> Tails

Expected(c) == CASE c \in Two -> 2 [] c \in Three -> 3 [] c \in Four -> 4 [] OTHER -> 1

(* utf8_scan: the bytes of the character at i (0 for none), and the longest *)
(* part of one, which stands for one replacement.                           *)
Utf8Scan(s, i) ==
    IF ~Wide(s[i]) THEN [n |-> 1, part |-> 1]
    ELSE IF s[i] \in Tails \cup Bare THEN [n |-> 0, part |-> 1]
    ELSE LET good(k) == At(s, i + k) \in (IF k = 1 THEN SecondByte(s[i]) ELSE Tails)
             parts == {k \in 1 .. Expected(s[i]) : \A j \in 1 .. k - 1 : good(j)}
             part == CHOOSE k \in parts : \A j \in parts : j <= k
         IN [n |-> IF part = Expected(s[i]) THEN part ELSE 0, part |-> part]

(* utf8_valid of tools_file.c: its own walk over a whole text.              *)
Utf8Valid(s) ==
    LET step(r) ==
          LET c == s[r.i]   n == Expected(c)
          IN IF ~Wide(c) THEN [r EXCEPT !.i = @ + 1]
             ELSE IF \/ c \in Tails \cup Bare
                     \/ r.i + n - 1 > Len(s)
                     \/ (\E k \in 1 .. n - 1 : At(s, r.i + k) \notin Tails)
                     \/ (c = "E0" /\ s[r.i + 1] \in Low \cup Mid)
                     \/ (c = "ED" /\ s[r.i + 1] \in High)
                     \/ (c = "F0" /\ s[r.i + 1] \in Low)
                     \/ (c = "F4" /\ s[r.i + 1] \in Mid \cup High)
                  THEN [r EXCEPT !.ok = FALSE]
             ELSE [r EXCEPT !.i = @ + n]
    IN Until(step, LAMBDA r : ~r.ok \/ r.i > Len(s), [i |-> 1, ok |-> TRUE]).ok

---------------------------------------------------------------------------
(* Strings *)

Quote == "\""
Slash == "\\"
Escapes == [c \in {Quote, Slash, "/", "b", "f", "n", "r", "t"} |->
               CASE c = "n" -> "NL" [] c \in {"b", "f", "r", "t"} -> c \o "!" [] OTHER -> c]
HexDigits == {"0", "1", "3", "4", "8", "C", "D", "d", "e"}
Control(c) == c \in {"NL", "CTL", "NUL", "b!", "f!", "r!", "t!"}
Blank(c) == c \in {" ", "NL", "t!", "r!"}

(* What the unit of four hexadecimal digits at i stands for: a character of *)
(* one byte, or the kind of what it takes more bytes or units to write.     *)
Hex4(s, i) ==
    LET a == At(s, i)   b == At(s, i + 1)   c == At(s, i + 2)   d == At(s, i + 3)
    IN IF ~({a, b, c, d} \subseteq HexDigits) THEN "bad"
       ELSE IF a \in {"D", "d"} /\ b = "8" THEN "high"
       ELSE IF a \in {"D", "d"} /\ b \in {"C", "D", "d"} THEN "low"
       ELSE IF a # "0" \/ b \notin {"0", "1", "4"} THEN "three"
       ELSE IF b # "0" \/ c \notin {"0", "1", "3", "4"} THEN "two"
       ELSE IF c = "3" THEN (IF d = "e" THEN ">" ELSE "8")
       ELSE IF c = "4" THEN "a"
       ELSE IF c = "1" THEN "CTL"
       ELSE CASE d = "0" -> "NUL" [] d = "8" -> "b!" [] d = "C" -> "f!"
              [] d \in {"D", "d"} -> "r!" [] OTHER -> "CTL"

(* The first pass: the quote that closes, an escape hiding what follows it. *)
ClosesAt(s, start) ==
    Until(LAMBDA i : IF s[i] = Slash THEN i + 2 ELSE i + 1,
          LAMBDA i : At(s, i) \in {Quote, "end"}, start)

(* The second pass: the room the decoded string gets.                       *)
Reserved(s, start) ==
    LET step(r) == IF s[r.i] # Slash THEN [i |-> r.i + 1, n |-> r.n + 1]
                   ELSE IF At(s, r.i + 1) = "end" THEN [r EXCEPT !.i = @ + 1]
                   ELSE IF s[r.i + 1] = "u" THEN [i |-> r.i + 5, n |-> r.n + 3]
                   ELSE [i |-> r.i + 2, n |-> r.n + 1]
    IN Until(step, LAMBDA r : At(s, r.i) \in {Quote, "end"}, [i |-> start, n |-> 0]).n

Encoded(unit) ==
    CASE unit = "two" -> <<"C2", "80">>     [] unit = "three" -> <<"E1", "80", "80">>
      [] unit = "pair" -> <<"F1", "80", "80", "80">>  [] OTHER -> <<unit>>

(* Mutant: a lone surrogate is encoded like any other unit.                 *)
UnitAtLoose(s, i) ==
    IF i + 4 > Len(s) \/ Hex4(s, i + 1) = "bad" THEN [ok |-> FALSE]
    ELSE LET u == Hex4(s, i + 1)
         IN IF u \in {"high", "low"} THEN [ok |-> TRUE, put |-> <<"ED", "A0", "80">>, to |-> i + 5]
            ELSE [ok |-> TRUE, put |-> Encoded(u), to |-> i + 5]

(* The escape whose "u" is at i: a unit, or a pair of surrogates.           *)
UnitAt(s, i) ==
    LET u == Hex4(s, i + 1)
    IN IF i + 4 > Len(s) \/ u \in {"bad", "low"} THEN [ok |-> FALSE]
       ELSE IF u # "high" THEN [ok |-> TRUE, put |-> Encoded(u), to |-> i + 5]
       ELSE IF At(s, i + 5) = Slash /\ At(s, i + 6) = "u" /\ Hex4(s, i + 7) = "low"
            THEN [ok |-> TRUE, put |-> Encoded("pair"), to |-> i + 11]
       ELSE [ok |-> FALSE]

(* The third pass, up to the closing quote.                                 *)
ParseString(s, at) ==
    LET start == at + 1
        qend == ClosesAt(s, start)
        step(r) ==
          IF s[r.i] = Slash
          THEN LET e == s[r.i + 1]
               IN IF e = "u"
                  THEN LET u == UnitAt(s, r.i + 1)
                       IN IF u.ok THEN [r EXCEPT !.i = u.to, !.out = @ \o u.put]
                          ELSE [r EXCEPT !.ok = FALSE]
                  ELSE IF e \in DOMAIN Escapes
                  THEN [r EXCEPT !.i = @ + 2, !.out = Append(@, Escapes[e])]
                  ELSE [r EXCEPT !.ok = FALSE]
          ELSE LET n == Utf8Scan(SubSeq(s, 1, qend - 1), r.i).n
               IN IF Control(s[r.i]) \/ n = 0 THEN [r EXCEPT !.ok = FALSE]
                  ELSE [r EXCEPT !.i = @ + n, !.out = @ \o SubSeq(s, r.i, r.i + n - 1)]
        r == Until(step, LAMBDA x : ~x.ok \/ x.i >= qend,
                   [i |-> start, out |-> <<>>, ok |-> TRUE])
    IN IF At(s, at) # Quote \/ At(s, qend) # Quote
       THEN [ok |-> FALSE, to |-> at, out |-> <<>>]
       ELSE [ok |-> r.ok, to |-> qend + 1, out |-> r.out]

(* A string ends at its first NUL, as every C string does.                  *)
CString(s) == LET n == Where(LAMBDA c : c = "NUL", s)
              IN IF n = 0 THEN s ELSE SubSeq(s, 1, n - 1)

(* skip_string: the same grammar with no copy and no look at UTF-8 or at    *)
(* surrogates.  0 is a refusal, otherwise the place behind the string.      *)
SkipString(s, at) ==
    LET step(i) ==
          IF s[i] = Slash
          THEN IF At(s, i + 1) = "u"
               THEN IF i + 5 <= Len(s) /\ Hex4(s, i + 2) # "bad" THEN i + 6 ELSE 0
               ELSE IF At(s, i + 1) \in DOMAIN Escapes THEN i + 2 ELSE 0
          ELSE IF Control(s[i]) THEN 0 ELSE i + 1
        to == Until(step, LAMBDA i : i = 0 \/ At(s, i) \in {Quote, "end"}, at + 1)
    IN IF At(s, at) # Quote \/ to = 0 \/ At(s, to) # Quote THEN 0 ELSE to + 1

---------------------------------------------------------------------------
(* Numbers *)

IsDigit(c) == c \in {"0", "1", "2", "3", "4", "5", "6", "7", "8", "9"}
Digits(s, i) == Until(LAMBDA k : k + 1, LAMBDA k : ~IsDigit(At(s, k)), i)

(* scan_number: the place behind the number at i, 0 for none.               *)
ScanNumber(s, i) ==
    LET a == IF At(s, i) = "-" THEN i + 1 ELSE i
        b == IF At(s, a) = "0" THEN a + 1 ELSE Digits(s, a)
        c == IF At(s, b) = "." THEN Digits(s, b + 1) ELSE b
        e == IF At(s, c + 1) \in {"+", "-"} THEN c + 2 ELSE c + 1
        d == IF At(s, c) = "e" THEN Digits(s, e) ELSE c
    IN IF b = a \/ (At(s, b) = "." /\ c = b + 1) \/ (At(s, c) = "e" /\ d = e)
       THEN 0 ELSE d

(* localize_number and normalize_number: the point in the locale's spelling *)
(* and back.                                                                *)
Localized(s, point) ==
    Over(LAMBDA r, c : r \o (IF c = "." THEN point ELSE <<c>>), <<>>, s)

Normalized(s, point) ==
    LET step(r) == IF Starts(s, r.i, point)
                   THEN [i |-> r.i + Len(point), out |-> Append(r.out, ".")]
                   ELSE [i |-> r.i + 1, out |-> Append(r.out, s[r.i])]
    IN Until(step, LAMBDA r : r.i > Len(s), [i |-> 1, out |-> <<>>]).out

---------------------------------------------------------------------------
(* Values: [t, v], v being a text, a sequence of values, or of members.     *)

SkipWs(s, i) == Until(LAMBDA k : k + 1, LAMBDA k : ~Blank(At(s, k)), i)
No(i) == [ok |-> FALSE, to |-> i]
Got(t, v, to) == [ok |-> TRUE, to |-> to, val |-> [t |-> t, v |-> v]]
Words == {"true", "false", "null"}     \* each one element of a text

(* The separator behind an element: more, the end, or neither.              *)
Behind(s, i, close) == LET at == SkipWs(s, i)
                       IN [more |-> At(s, at) = ",", end |-> At(s, at) = close,
                           to |-> at + 1]

RECURSIVE ParseValue(_, _), SkipValue(_, _)

(* parse_object, every member kept, or only those of the keys               *)
(* (parse_object_kept), the values of the others skipped.                   *)
ParseMembers(s, at, kept(_)) ==
    LET step(r) ==
          LET k == ParseString(s, SkipWs(s, r.i))
              colon == SkipWs(s, k.to)
              from == SkipWs(s, colon + 1)
          IN IF ~k.ok \/ At(s, colon) # ":" THEN [r EXCEPT !.ok = FALSE, !.done = TRUE]
             ELSE LET v == IF kept(CString(k.out)) THEN ParseValue(s, from)
                           ELSE LET to == SkipValue(s, from)
                                IN [ok |-> to > 0, to |-> to]
                      b == Behind(s, v.to, "}")
                  IN IF ~v.ok \/ ~(b.more \/ b.end)
                     THEN [r EXCEPT !.ok = FALSE, !.done = TRUE]
                     ELSE [i |-> b.to, ok |-> TRUE, done |-> b.end,
                           out |-> IF kept(CString(k.out))
                                   THEN Append(r.out, [k |-> k.out, v |-> v.val])
                                   ELSE r.out]
        first == SkipWs(s, at + 1)
        r == Until(step, LAMBDA x : x.done,
                   [i |-> at + 1, ok |-> TRUE, done |-> FALSE, out |-> <<>>])
    IN IF At(s, first) = "}" THEN Got("obj", <<>>, first + 1)
       ELSE IF r.ok THEN Got("obj", r.out, r.i) ELSE No(at)

ParseItems(s, at) ==
    LET step(r) ==
          LET v == ParseValue(s, SkipWs(s, r.i))
              b == Behind(s, v.to, "]")
          IN IF ~v.ok \/ ~(b.more \/ b.end) THEN [r EXCEPT !.ok = FALSE, !.done = TRUE]
             ELSE [i |-> b.to, ok |-> TRUE, done |-> b.end, out |-> Append(r.out, v.val)]
        first == SkipWs(s, at + 1)
        r == Until(step, LAMBDA x : x.done,
                   [i |-> at + 1, ok |-> TRUE, done |-> FALSE, out |-> <<>>])
    IN IF At(s, first) = "]" THEN Got("arr", <<>>, first + 1)
       ELSE IF r.ok THEN Got("arr", r.out, r.i) ELSE No(at)

ParseNumber(s, at) ==
    LET to == ScanNumber(s, at)
    IN IF to = 0 \/ to - at >= NumberMax THEN No(at)
       ELSE Got("num", SubSeq(s, at, to - 1), to)

ParseValue(s, i) ==
    LET at == SkipWs(s, i)   c == At(s, at)
    IN IF c = "{" THEN ParseMembers(s, at, LAMBDA k : TRUE)
       ELSE IF c = "[" THEN ParseItems(s, at)
       ELSE IF c = Quote THEN LET p == ParseString(s, at)
                              IN IF p.ok THEN Got("str", p.out, p.to) ELSE No(at)
       ELSE IF c \in Words THEN Got("word", <<c>>, at + 1)
       ELSE IF c = "-" \/ IsDigit(c) THEN ParseNumber(s, at)
       ELSE No(at)

SkipValue(s, i) ==
    LET at == SkipWs(s, i)   c == At(s, at)
        close == IF c = "{" THEN "}" ELSE "]"
        step(r) ==
          LET k == IF c = "{" THEN SkipString(s, SkipWs(s, r)) ELSE r
              colon == SkipWs(s, k)
              v == IF c # "{" THEN SkipValue(s, r)
                   ELSE IF k = 0 \/ At(s, colon) # ":" THEN 0
                   ELSE SkipValue(s, colon + 1)
              b == Behind(s, v, close)
          IN IF v = 0 \/ ~(b.more \/ b.end) THEN 0 ELSE IF b.end THEN - b.to ELSE b.to
        first == SkipWs(s, at + 1)
        end == Until(step, LAMBDA r : r <= 0, at + 1)
        n == ScanNumber(s, at)
    IN IF c = Quote THEN SkipString(s, at)
       ELSE IF c \in {"{", "["}
            THEN IF At(s, first) = close THEN first + 1 ELSE - end
       ELSE IF c \in Words THEN at + 1
       ELSE IF n = 0 \/ n - at >= NumberMax THEN 0 ELSE n

(* One value and nothing behind it.                                         *)
AllOf(s, p) == p.ok /\ SkipWs(s, p.to) = Len(s) + 1
Parse(s) == LET p == ParseValue(s, 1) IN [ok |-> s # <<>> /\ AllOf(s, p), p |-> p]
ParseKept(s, keys) ==
    LET p == ParseMembers(s, 1, LAMBDA k : k \in keys)
    IN [ok |-> s # <<>> /\ AllOf(s, p), p |-> p]

---------------------------------------------------------------------------
(* Writing *)

(* U+FFFD, EF BF BD.                                                        *)
Replacement == <<"E1", "A0", "A0">>

Named == [c \in {Quote, Slash, "NL", "b!", "f!", "r!", "t!"} |->
             CHOOSE e \in DOMAIN Escapes : Escapes[e] = c]

DumpString(str) ==
    LET s == CString(str)
        step(r) ==
          LET c == s[r.i]   u == Utf8Scan(s, r.i)
          IN IF c \in DOMAIN Named
             THEN [i |-> r.i + 1, out |-> r.out \o <<Slash, Named[c]>>]
             ELSE IF c = "CTL"
             THEN [i |-> r.i + 1, out |-> r.out \o <<Slash, "u", "0", "0", "0", "1">>]
             ELSE IF u.n > 0
             THEN [i |-> r.i + u.n, out |-> r.out \o SubSeq(s, r.i, r.i + u.n - 1)]
             ELSE [i |-> r.i + u.part, out |-> r.out \o Replacement]
    IN <<Quote>> \o Until(step, LAMBDA r : r.i > Len(s), [i |-> 1, out |-> <<>>]).out
         \o <<Quote>>

RECURSIVE Dump(_)
Dump(v) ==
    LET comma(r, x) == IF r = <<>> THEN x ELSE r \o <<",">> \o x
        each(d(_), s) == Over(LAMBDA r, x : comma(r, d(x)), <<>>, s)
    IN CASE v.t \in {"num", "word"} -> v.v
         [] v.t = "str" -> DumpString(v.v)
         [] v.t = "arr" -> <<"[">> \o each(Dump, v.v) \o <<"]">>
         [] v.t = "obj" -> <<"{">> \o each(LAMBDA m : DumpString(m.k) \o <<":">> \o Dump(m.v), v.v)
                             \o <<"}">>

(* nm_json_get finds the first member of a name.                            *)
Member(obj, key) ==
    LET n == Where(LAMBDA m : CString(m.k) = key, obj.v)
    IN IF n = 0 THEN <<>> ELSE <<obj.v[n].v>>

(* nm_json_set replaces the member in its place, or appends one; a parsed   *)
(* tree is copied member by member on the way in (clone_built).             *)
SetMember(obj, key, v) ==
    LET n == Where(LAMBDA m : CString(m.k) = key, obj.v)
    IN [obj EXCEPT !.v = IF n > 0 THEN [@ EXCEPT ![n].v = v]
                         ELSE Append(@, [k |-> key, v |-> v])]

RECURSIVE Cloned(_)
Cloned(v) ==
    CASE v.t = "obj" -> Over(LAMBDA o, m : SetMember(o, CString(m.k), Cloned(m.v)),
                             [t |-> "obj", v |-> <<>>], v.v)
      [] v.t = "arr" -> [v EXCEPT !.v = [i \in DOMAIN @ |-> Cloned(@[i])]]
      [] v.t = "str" -> [v EXCEPT !.v = CString(@)]
      [] OTHER -> v

(* nm_json_dump_append: all of the text behind what was there, or, when     *)
(* memory ends after `room` bytes, what was there and a refusal.            *)
DumpAppend(had, v, room) ==
    IF Len(had) + Len(Dump(v)) <= room THEN [ok |-> TRUE, text |-> had \o Dump(v)]
    ELSE [ok |-> FALSE, text |-> had]
=============================================================================
