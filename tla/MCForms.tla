------------------------------ MODULE MCForms -------------------------------
(* The parts of the program that only compute: in one step an input of the  *)
(* part that `turn` names is chosen and the part computes on it.            *)
EXTENDS Spellings, FileTools, Prompt, Repeat, TLC

CONSTANTS NumberMax, HistoryMax, LineMax, SlotsMax, SecretMax, TokenMax, WireMax, HeadBytes,
          OutputMax, PlanMax, ReadReserve, LineClamp, Slack, WalkDepth, ColMax, TabWidth,
          CellsMax, Keywords, Aliases, HostMax, CountMax
J == INSTANCE Json
T == INSTANCE Transcript
I == INSTANCE Images
R == INSTANCE Results
S == INSTANCE Screen
N == INSTANCE Round
M == INSTANCE Mentions
K == INSTANCE Marks
B == INSTANCE Brackets
L == INSTANCE Scrollback

VARIABLES turn, input, computed
forms == <<computed, turn, input>>

UpTo(chars, n) == UNION {[1 .. k -> chars] : k \in 0 .. n}

---------------------------------------------------------------------------
(* The spellings: every string of a few digits, points and commas, and the  *)
(* words of a family set.                                                   *)
Spelt == UpTo({"0", "1", "2", ".", ","}, 4) \cup UpTo({"0", "3"}, 4)
            \cup UpTo({"none", "IPv4", "IPv6", "+", " "}, 4)
            \cup {<<w>> : w \in OnWords \cup OffWords \cup
                     {"tools", "calls", "kitty", "legacy", "auto", "ansi", "rgb"}}

(* The number a decimal spells, in thousandths.                             *)
Scale(s) == Spelled(Whole(s) \o SubSeq(Frac(s) \o <<"0", "0", "0">>, 1, 3))

(* A canonical spelling is one its own canonicalizer keeps (the store is    *)
(* re-read through it), spells the number the user wrote, and is given for  *)
(* exactly the accepted numbers; the tests against overflow let no duration *)
(* past the largest one, refuse none below, and count no positive value for *)
(* more than the cap (conf.c).                                              *)
SpellingsKeep(text) ==
    /\ \A kind \in Kinds : LET c == Normalize(kind, text)
                          IN c # Bad => Normalize(kind, c) = c
    /\ \A canon \in {Temperature(text), Price(text)} \ {Bad} :
         Decimal(canon) /\ Scale(canon) = Scale(text)
    /\ Temperature(text) # Bad <=> Decimal(text) /\ Scale(text) <= 2000
    /\ Duration(text) # Bad <=>
         text = Off \/ /\ text # <<>> /\ \A i \in DOMAIN text : Digit(text[i])
                       /\ Spelled(text) \in 1 .. LongMax
    /\ PositiveInt(text) # Bad => PositiveValue(text) \in 1 .. PositiveCap

---------------------------------------------------------------------------
(* JSON: strings with every kind of escape and byte, pairs of members,      *)
(* nestings and numbers, whole and broken.                                  *)
Quote == J!Quote
Slash == J!Slash
Atoms == {<<"a">>, <<Quote>>, <<Slash>>, <<Slash, "u", "0", "0", "0", "0">>,
          <<Slash, "u", "D", "8", "0", "0">>, <<Slash, "u", "d", "C", "0", "1">>,
          <<Slash, "u", "0", "1">>, <<Slash, "n">>, <<"NL">>, <<"NUL">>, <<"C2">>,
          <<"E0">>, <<"ED">>, <<"F0">>, <<"F4">>, <<"80">>, <<"90">>, <<"A0">>}
Member(k) == <<Quote, k, Quote, ":">>
Values == {<<"1">>, <<"-">>, <<"[", "]">>, <<"true">>, <<Quote, "a", Quote>>,
           <<"{", Quote, "a", Quote, ":", "0", "}">>, <<Quote, "80", Quote>>,
           <<"[", "1", ",">>}
Jsons ==
    {Joined(<<<<Quote>>>> \o w \o <<<<Quote>>>>) : w \in UpTo(Atoms, 3)}
    \cup {<<"{">> \o Member("a") \o v \o <<sep>> \o Member(k) \o w \o <<end>> :
            v \in Values, w \in Values, k \in {"a", "b"}, sep \in {",", ":"},
            end \in {"}", "]", " "}}
    \cup UpTo({"[", "]", "{", "}", ",", " ", "1"}, 4)
    \cup UpTo({"-", "0", "1", ".", "e", "+"}, 5)

(* The grammar of a number: digits without a leading zero, and optionally a *)
(* fraction and an exponent.                                                *)
NumberOf(s) ==
    LET some(t) == t # <<>> /\ \A i \in DOMAIN t : t[i] \in {"0", "1"}
        unsigned(t, signs) == IF t # <<>> /\ t[1] \in signs THEN Tail(t) ELSE t
    IN \E a, b \in 0 .. Len(s) : a <= b /\
         LET whole == unsigned(SubSeq(s, 1, a), {"-"})
             frac == SubSeq(s, a + 1, b)
             exp == SubSeq(s, b + 1, Len(s))
         IN /\ some(whole) /\ (Len(whole) > 1 => whole[1] # "0")
            /\ frac # <<>> => frac[1] = "." /\ some(Tail(frac))
            /\ exp # <<>> => exp[1] = "e" /\ some(unsigned(Tail(exp), {"+", "-"}))

(* The room reserved for a string is never too small, and what it decodes   *)
(* to is valid UTF-8 without a lone surrogate; the reader that skips a      *)
(* value ends where the one that builds it ends; what is written reads      *)
(* back, as valid UTF-8 and unchanged from then on, even from bytes that    *)
(* are not; keeping some members changes none of them; and a number comes   *)
(* back through any locale's spelling of the point (json.c).                *)
JsonKeeps(text) ==
    LET v == J!ParseValue(text, 1)
        p == J!Parse(text)
        d == J!Dump(p.p.val)
        quoted == J!DumpString(text)
        back == J!ParseString(quoted, 1)
        number == text # <<>> /\ J!ScanNumber(text, 1) = Len(text) + 1
        string == J!ParseString(text, 1)
    IN /\ string.ok => J!Utf8Valid(string.out)
       /\ J!At(text, 1) = Quote /\ J!At(text, J!ClosesAt(text, 2)) = Quote =>
              Len(string.out) <= J!Reserved(text, 2)
       /\ v.ok => J!SkipValue(text, 1) = v.to
       /\ p.ok => /\ J!Utf8Valid(d) /\ J!Parse(d).ok
                  /\ J!Dump(J!Parse(d).p.val) = d
                  /\ J!Dump(J!Cloned(p.p.val)) = J!Dump(J!Cloned(J!Parse(d).p.val))
                  /\ \A had \in {<<>>, <<"x">>} : \A room \in {0, 2, 9} :
                        LET a == J!DumpAppend(had, p.p.val, room)
                        IN a.text = had \o (IF a.ok THEN d ELSE <<>>)
       /\ back.ok /\ back.to = Len(quoted) + 1
       /\ J!Utf8Valid(J!CString(text)) <=> back.out = J!CString(text)
       /\ p.ok /\ p.p.val.t = "obj" /\ text[1] = "{" =>
             LET k == J!ParseKept(text, {<<"a">>})
             IN k.ok /\ J!Member(k.p.val, <<"a">>) = J!Member(p.p.val, <<"a">>)
       /\ number <=> NumberOf(text)
       /\ \A point \in {<<",">>, <<"C2", "A0">>, <<".">>} :
             number => J!Normalized(J!Localized(text, point), point) = text

---------------------------------------------------------------------------
(* Edits: a text, and what is sought and put in its place.                  *)
EditForms == {[hay |-> h, e |-> [old |-> o, new |-> n, all |-> TRUE]] :
                 h \in UpTo({"x", "y"}, 5), o \in UpTo({"x", "y"}, 2) \ {<<>>},
                 n \in UpTo({"x", "y"}, 2)}

(* The hits do not overlap and none is missed between them, the new text    *)
(* stays within its room, and putting the old text back undoes it           *)
(* (edit_file_exec).                                                        *)
EditsKeep(text) ==
    LET hits == Hits(text.hay, text.e.old)
        n == Len(text.e.old)
        out == Edited(text.hay, text.e)
        ends == [i \in 1 .. Len(hits) + 1 |-> IF i = 1 THEN 0 ELSE hits[i - 1] + n]
        shift == Len(text.e.new) - n
    IN /\ \A i \in DOMAIN hits :
            /\ SubSeq(text.hay, hits[i] + 1, hits[i] + n) = text.e.old
            /\ hits[i] >= ends[i]
            /\ SubSeq(out, hits[i] + (i - 1) * shift + 1,
                      hits[i] + (i - 1) * shift + Len(text.e.new)) = text.e.new
       /\ \A at \in 0 .. Len(text.hay) - n :
            SubSeq(text.hay, at + 1, at + n) = text.e.old =>
               \E i \in DOMAIN hits : hits[i] \in at - n + 1 .. at
       /\ Len(out) <= Room(text.hay, text.e)
       /\ Len(out) = Len(text.hay) + Len(hits) * shift

---------------------------------------------------------------------------
MCLetters == <<"a", "b", "c">>

(* A SKILL.md of up to five lines.                                          *)
Lines == {<<"---">>, <<>>, <<"a">>, <<"name:", " ", "b">>, <<"desc:", "\"", "a", "\"">>,
          <<"desc:", " ">>, <<"desc:", " ", ">", "-">>, <<" ", "a">>, <<" ", " ", "b", " ">>}
SkillFiles == UNION {[1 .. k -> Lines] : k \in 1 .. 4}
                 \cup {<<<<"---">>>> \o f : f \in [1 .. 4 -> Lines]}

(* The two walks over a SKILL.md, the one for its keys when the menu is     *)
(* made and the one for its text when the skill is loaded, agree on where   *)
(* the frontmatter ends, and a listed skill says what it is for (skills.c). *)
SkillsKeep(text) ==
    LET m == FmScan(text)   body == SkillBody(text)
        below == From(text, m.close + 1)
    IN /\ m.how = "ok" =>
            /\ \E k \in 0 .. Len(below) :
                 /\ below = [i \in 1 .. k |-> <<>>] \o body
                 /\ body # <<>> => body[1] # <<>>
            /\ m.desc # <<>> /\ Trim(m.desc) = m.desc
            /\ \E i \in 2 .. m.close - 1 : text[i] # <<>> /\ text[i][1] = "desc:"
       /\ m.how = "refused" /\ IsFence(text[1]) /\ Len(text) > 1 => body = <<>>

(* Skills of the user's, and of two directories of a chain.                 *)
File(name, desc) == <<<<"---">>>> \o (IF name = "" THEN <<>> ELSE <<<<"name:", name>>>>)
                        \o <<<<"desc:">> \o desc, <<"---">>, <<"a">>>>
Entries(d) == {[kind |-> "skill", dir |-> n, at |-> d, text |-> f] :
                 n \in {"a", "b"}, f \in {File("", <<"x">>), File("b", <<"x", "x", "x">>),
                                            File("c", <<>>)}}
              \cup {[kind |-> "bare", dir |-> "a", at |-> d, text |-> <<<<>>>>]}
Shelves(d, n) == UNION {[1 .. k -> Entries(d)] : k \in 0 .. n}
Registries == {[user |-> u, of |-> 1 :> d @@ 2 :> e, wd |-> 2, marked |-> m] :
                 u \in Shelves(0, 1), d \in Shelves(1, 1), e \in Shelves(2, 2),
                 m \in {{}, {0}, {1}, {2}, {1, 2}}}

(* Every skill found is listed, in the place of an earlier one, refused or  *)
(* dropped for want of room; the registry is in order, without two of one   *)
(* name, and holds the last one found unless some were dropped; the menu    *)
(* lists a first part of it within its size and tells how many it leaves.   *)
RegistryKeeps(text) ==
    LET chain == Chain(text.wd, text.marked)
        s == Registry(text.user, text.of, chain)
        found == Candidates(text.user) \o Joined([i \in DOMAIN chain |-> Candidates(text.of[chain[i]])])
        good == {i \in DOMAIN found : FmScan(found[i].text).how = "ok"}
        nameOf(i) == LET n == FmScan(found[i].text).name
                     IN IF n = <<>> THEN <<found[i].dir>> ELSE n
        last == {i \in good : \A j \in good : nameOf(i) = nameOf(j) => j <= i}
        menu == Menu(s)
    IN /\ \A i, j \in DOMAIN s.items : i < j => Before(s.items[i].name, s.items[j].name)
       /\ s.dropped = 0 =>
            /\ {<<x.name, x.dir, x.at>> : x \in Range(s.items)} =
                  {<<nameOf(i), found[i].dir, found[i].at>> : i \in last}
            /\ s.refused + s.unlisted = Len(found) - Cardinality(good)
       /\ Len(s.items) <= SkillsMax /\ s.refused <= RefusalsMax
       /\ Len(s.items) + s.refused + s.unlisted + s.dropped <= Len(found)
       /\ menu.listed \o From(s.items, Len(menu.listed) + 1) = s.items
       /\ Len(menu.listed) + menu.rest = Len(s.items) + s.dropped
       /\ menu.used + (IF menu.rest > 0 THEN MenuReserve ELSE 0) <= MenuMax
       /\ chain[Len(chain)] = text.wd /\ Len(chain) <= DepthMax

(* AGENTS.md files, from the outermost to the working directory's.          *)
Agents == {[label |-> "l", text |-> t] : t \in UpTo({"x", "NL", "<r"}, 3) \cup
                                              {<<"x", "NL", "x", "x", "x", "x", "x", "x", "x">>}}
Blocks == UNION {[1 .. k -> Agents] : k \in 0 .. 2}

(* The files stand in the block in order, each whole and closed but the     *)
(* last, which is cut behind a line if it can be and says so; what they     *)
(* hold stays within the cap, and no tag of a reminder comes through.       *)
ContextKeeps(text) ==
    LET b == ContextBlock(text)
        pieces == {i \in DOMAIN b.out : b.out[i] = "<file"}
        closed == {i \in DOMAIN b.out : b.out[i] = "</file>"}
        shown == {i \in DOMAIN text : Trim(text[i].text) # <<>>}
    IN /\ Cardinality(pieces) = Cardinality(closed)
       /\ \A i \in closed : b.out[i - 1] \in {"NL", ">"}
       /\ Len(b.out) <= ContextMax + Scaffold + 2 + (IF b.stop THEN 1 ELSE 0)
       /\ ~b.stop => Len(b.out) <= ContextMax /\ Cardinality(pieces) = Cardinality(shown)
       /\ b.stop <=> \E i \in DOMAIN b.out : b.out[i] = "[truncated]"
       /\ b.stop => b.out[Len(b.out)] = "[truncated]"
       /\ \A i \in DOMAIN b.out : b.out[i] # "<r"

(* What the git command prints, and a part of it; or other lines.           *)
Gits ==
    LET parts == UpTo({"m", ""}, 3)
        whole == {<<"B">> \o x \o <<"S">> \o y \o <<"C">> \o z : x, y, z \in parts}
    IN UNION {{SubSeq(g, 1, k) : k \in 0 .. Len(g)} : g \in whole} \cup UpTo({"m", "", "S"}, 3)

(* No line is told twice or out of order, a status without lines is told as *)
(* clean only where its marker says git ran, and a part has its head.       *)
GitKeeps(text) ==
    LET g == GitSection(text)
        heads == {"branch", "status", "commits", "clean"}
        told == SelectSeq(g, LAMBDA l : l \notin heads)
    IN /\ Len(told) <= Len(text)
       /\ \A i \in DOMAIN g : g[i] \in heads => \A j \in DOMAIN g : g[j] = g[i] => i = j
       /\ g # <<>> => g[1] \in heads
       /\ "clean" \in Range(g) => \E i \in DOMAIN text : text[i] = "S"
       /\ ~(\E i \in DOMAIN text : text[i] \in {"B", "S", "C"}) => g = <<>>

---------------------------------------------------------------------------
(* Saved conversations of two messages.                                     *)
Bodies == {<<>>, <<"a">>, <<"a", "NL">>, <<"tick", "tick", "tick", "NL", "a">>,
           <<"NL", "##", "user", "NL">>, <<"-", "-", ">">>}
Message(role, name, reasoning, content, calls) ==
    [role |-> role, name |-> name, id |-> name, reasoning |-> reasoning,
     content |-> content, calls |-> calls, details |-> calls]
Messages ==
    {Message(role, <<>>, <<>>, b, <<>>) : role \in {"system", "user"}, b \in Bodies}
    \cup {Message("tool", n, <<>>, b, <<>>) : b \in Bodies,
             n \in {<<"n">>, <<"n", "NL", "<!--">>, <<"-", "-", ">">>, <<")">>}}
    \cup {Message("assistant", <<>>, r, b, c) : r \in Bodies, b \in Bodies,
             c \in {<<>>, <<Quote, "-", "-", ">", Quote>>}}
Seconds == {Message("user", <<>>, <<>>, <<"a">>, <<>>),
            Message("assistant", <<>>, <<"NL">>, <<"tick">>, <<>>)}
Sessions == {<<m, n>> : m \in Messages, n \in Seconds}

(* The reader session.c describes: a message starts at its heading, the     *)
(* line behind it is the one that counts, and bodies are taken by count.    *)
NextIn(s, w, i) == CHOOSE k \in i .. Len(s) : /\ J!Starts(s, k, w)
                                             /\ \A j \in i .. k - 1 : ~J!Starts(s, j, w)
CommentAt(s, i) == LET end == NextIn(s, <<"-", "-", ">">>, i + 2)
                   IN [kind |-> s[i + 1], json |-> SubSeq(s, i + 2, end - 2), to |-> end + 4]
TextOf(o, k) == LET m == J!Member(o, <<k>>) IN IF m = <<>> THEN <<>> ELSE m[1].v

ReadBody(s, i, labeled, fenced, n) ==
    LET start == IF labeled THEN i + 5 ELSE i + 1
        ticks == IF fenced THEN Until(LAMBDA k : k + 1, LAMBDA k : s[start + k] # "tick", 0) ELSE 0
        from == IF fenced THEN start + ticks + 2 ELSE start
        body == SubSeq(s, from, from + n - 1)
        to == from + n + (IF T!Ended(body) THEN 0 ELSE 1)
    IN [body |-> body, to |-> IF fenced THEN to + ticks + 1 ELSE to]

ReadMessage(s, i) ==
    LET meta == CommentAt(s, NextIn(s, <<"NL">>, i + 1) + 1)
        o == J!Parse(meta.json).p.val
        role == TextOf(o, "role")[1]
        parts == TextOf(o, "parts")
        name(p) == p.v[1].v[1]
        count(p) == CHOOSE n \in DOMAIN T!Count : T!Count[n] = p.v[2].v[1]
        take(r, p) == LET b == ReadBody(s, r.i, name(parts[1]) = "reasoning",
                                        role \in {"system", "tool"}, count(p))
                      IN [r EXCEPT !.i = b.to, ![name(p)] = b.body]
        r == Over(take, [i |-> meta.to, reasoning |-> <<>>, content |-> <<>>], parts)
        tail(at, kind) == IF J!At(s, at + 1) = "<!--" /\ J!At(s, at + 2) = kind
                          THEN CommentAt(s, at + 1) ELSE [json |-> <<>>, to |-> at]
        calls == tail(r.i, "tool_calls")
        details == tail(calls.to, "reasoning_details")
    IN [to |-> details.to,
        m |-> [role |-> role, name |-> TextOf(o, "tool_name"), id |-> TextOf(o, "tool_call_id"),
               reasoning |-> r.reasoning, content |-> r.content,
               calls |-> calls.json, details |-> details.json]]

(* A saved session read by its rules gives the messages back, byte for byte *)
(* whatever the bodies, names and arguments hold; and a fenced body holds   *)
(* nothing that closes its fence (session.c).                               *)
SavesReadBack(text) ==
    LET s == T!Saved(text)
        step(r) == LET m == ReadMessage(s, r.i) IN [i |-> m.to, ms |-> Append(r.ms, m.m)]
        back == Until(step, LAMBDA r : r.i > Len(s), [i |-> NextIn(s, <<"NL">>, 1) + 1, ms |-> <<>>]).ms
        value(json) == IF json = <<>> THEN <<>> ELSE J!Parse(json).p.val.v
    IN /\ Len(back) = Len(text)
       /\ \A i \in DOMAIN text :
            /\ [back[i] EXCEPT !.calls = value(@), !.details = value(@)]
                  = [text[i] EXCEPT !.calls = value(@), !.details = value(@)]
            /\ \A n \in T!FenceLen(text[i].content) .. Len(text[i].content) :
                 ~\E k \in DOMAIN text[i].content :
                     J!Starts(text[i].content, k, T!Times("tick", n))

(* Prompts in the order they were sent.                                     *)
Prompts == UpTo({<<"a">>, <<"NL">>, <<Slash>>, <<Slash, "n">>, <<"a", "a", "NL", "a">>,
                 <<Slash, Slash, "a">>, <<>>}, 4)

(* The history is what was sent, the last first and each once, and a        *)
(* restart gives it back, as long as no line exceeds the buffer it is read  *)
(* through (history.c).                                                     *)
HistoryKeeps(text) ==
    LET h == Over(T!Recorded, <<>>, text)
        sent == {e \in Range(text) : e # <<>>}
        loaded == T!HistoryLoaded(T!HistoryFile(h))
    IN /\ Range(h) \subseteq sent /\ Len(h) = Cardinality(Range(h))
       /\ Len(h) = IF Cardinality(sent) < HistoryMax THEN Cardinality(sent) ELSE HistoryMax
       /\ \A i, j \in DOMAIN h : i < j =>
            \E k \in DOMAIN text : text[k] = h[i] /\ \A l \in k .. Len(text) : text[l] # h[j]
       /\ \A e \in sent : T!Unescaped(T!Escaped(e)) = e
       /\ (\A e \in Range(h) : Len(T!Escaped(e)) < LineMax) => loaded = h

(* An authinfo file: entries, each written in one of four ways.             *)
Pairs == {<<"login", "x">>, <<"password", "p">>, <<"password", "q">>, <<"port", "machine">>}
AuthEntries(names, styles) ==
    {[name |-> n, pairs |-> ps, style |-> y] : n \in names, ps \in UpTo(Pairs, 2), y \in styles}
AuthFiles ==
    {<<e, f>> : e \in AuthEntries({<<"m">>, <<>>, <<"m", "m", "m">>}, {"plain", "eq", "quoted", "comment"}),
                f \in AuthEntries({<<"m">>}, {"plain"})}
Written(e) ==
    LET pair(k, v) == CASE e.style = "eq" -> <<k, "=">> \o v \o <<" ">>
                        [] e.style = "quoted" -> <<k, " ", Quote>> \o v \o <<Quote, "NL">>
                        [] e.style = "comment" -> <<k, "#", "machine", "NL">> \o v \o <<" ">>
                        [] OTHER -> <<k, " ">> \o v \o <<" ">>
    IN (IF e.name = <<>> THEN <<"default", " ">> ELSE pair("machine", e.name))
       \o Joined([i \in DOMAIN e.pairs |-> pair(e.pairs[i][1], <<e.pairs[i][2]>>)])

(* However it is written, an entry gives its last password to its machine,  *)
(* the first entry with one wins, and a value is never taken for a key      *)
(* (authinfo.c).                                                            *)
AuthKeeps(text) ==
    LET words(e) == SelectSeq(e.pairs, LAMBDA p : p[1] = "password")
        full == SelectSeq(text, LAMBDA e : words(e) # <<>>)
        slot(e) == [machine |-> IF Len(e.name) < SecretMax THEN e.name ELSE <<>>,
                    secret |-> <<words(e)[Len(words(e))][2]>>]
        file == Joined([i \in DOMAIN text |-> Written(text[i])])
        first == SelectSeq(full, LAMBDA e : e.name = <<"m">>)
    IN /\ T!Slots(file) = [i \in 1 .. (IF Len(full) < SlotsMax THEN Len(full) ELSE SlotsMax)
                             |-> slot(full[i])]
       /\ Len(full) <= SlotsMax =>
            T!Password(file, <<"m">>) = IF first = <<>> THEN <<>> ELSE slot(first[1]).secret

---------------------------------------------------------------------------
(* Image files: headers of every kind, cut anywhere.                        *)
Jpegs == {<<255, 216>> \o Joined(w) :
             w \in UpTo({<<255, 224, 0, 2>>, <<255, 224, 0, 4, 9, 9>>, <<255, 208>>, <<9>>,
                         <<255, 192, 0, 11, 8, 0, 3, 1, 4>>, <<255, 196, 0, 2>>,
                         <<255, 224, 0, 1>>}, 3)}
Pngs == {I!PngSign \o <<0, 0, 0, 13>> \o I!Ihdr \o <<a, 0, 0, b, 0, 0, 1, 2>> :
            a \in {0, 127, 128}, b \in {0, 1}}
Gifs == {I!Gif8 \o <<57, 97, w, 1, 2, 0>> : w \in {0, 3}}
Webps == {I!Riff \o <<9, 0, 0, 0>> \o I!Webp \o I!Vp8(c) \o <<n, 0, 0, top>>
             \o <<p, 1, 2, 157, 1, 42, 3, 64, 4, 192>> :
             c \in {88, 32, 76, 33}, n \in {0, 5, 10, 11}, top \in {0, 200}, p \in {47, 0}}
Pictures == UNION {{SubSeq(d, 1, k) : k \in 0 .. Len(d)} : d \in Jpegs \cup Pngs \cup Gifs \cup Webps}

(* What a header shows has a size, and the signature alone tells the same   *)
(* kind; the two ways a file comes in agree; and an image that was taken    *)
(* comes back the same from the URL it is sent as (image_bytes.c).          *)
ImagesKeep(text) ==
    LET s == I!Sniff(text)   a == I!AttachFile(text)   b == I!AttachBytes(text)
        back == I!AttachUrl(b.url)
        d == I!Decode(I!Encode(text), Len(text))
    IN /\ s.kind # "unknown" => s.w > 0 /\ s.h > 0
       /\ s.kind \in {"png", "gif", "webp"} => I!HeadKind(text) = s.kind
       /\ s.kind = "jpeg" => I!HeadKind(text) \in {"jpeg", "unknown"}
       /\ a.ok => b = [a EXCEPT !.marker = "tool"]
       /\ a.ok => Len(text) <= WireMax /\ a.format # "unknown"
       /\ b.ok => back = [b EXCEPT !.marker = "received"]
       /\ I!Probe(text, WireMax).len <= IF WireMax > HeadBytes THEN WireMax ELSE HeadBytes
       /\ d.ok /\ d.bytes = text

(* Base64 texts, sound or not.                                              *)
Letterings == UpTo({0, 1, 63, 64, 65}, 4) \cup [1 .. 8 -> {0, 17, 64}] \cup UpTo({64}, 5)

(* A text is taken in whole groups with the padding at its end, for exactly *)
(* as many bytes as were encoded to its length, and decodes to what encodes *)
(* and decodes to the same bytes again.                                     *)
LettersKeep(text) ==
    LET d == I!Decode(text, 9)
        pads == Cardinality({i \in DOMAIN text : text[i] = I!Pad})
    IN /\ d.ok => /\ Len(I!Encode(d.bytes)) = Len(text)
                  /\ 4 * Len(d.bytes) = 3 * Len(text) - 4 * pads
                  /\ I!Decode(I!Encode(d.bytes), 9) = d
       /\ d.ok <=> /\ Len(text) % 4 = 0 /\ pads <= 2
                   /\ \A i \in DOMAIN text : text[i] <= I!Pad
                   /\ \A i \in 1 .. Len(text) - 1 : text[i] = I!Pad => text[i + 1] = I!Pad

---------------------------------------------------------------------------
(* Outputs: characters of one to three bytes, and blanks.                   *)
Outs == {Joined(w) : w \in UpTo({<<"x">>, <<" ">>, <<"C2", "80">>, <<"E1", "80", "A0">>}, 6)}
           \cup UpTo({"x", "80", "NUL", "NL"}, 4)

(* Whatever is cut is cut between two characters and keeps the budget, or,  *)
(* for a job, the budget and its notice; the head, and the tail of a job,   *)
(* are the text's own; no more is said to be missing than is, and at most   *)
(* what a character and a digit take less; and only no output says so.      *)
ResultsKeep(text) ==
    LET s == J!CString(text)
        h == R!HeadResult(TRUE, text)   j == R!JobResult(TRUE, text)
        trimmed == {n \in 0 .. Len(s) : \A i \in n + 1 .. Len(s) : s[i] \in {" ", "NL"}}
        end == CHOOSE n \in trimmed : \A k \in trimmed : n <= k
        cutHead == \E k \in 0 .. Len(s) : \E told \in Len(s) - k - 4 .. Len(s) - k :
            /\ told > 0 /\ h.out = SubSeq(s, 1, k) \o R!OmittedNotice(told)
        cutJob == \E k \in 0 .. end : \E t \in k .. end :
            \E told \in t - k - 6 .. t - k :
               /\ told > 0
               /\ j.out = SubSeq(s, 1, k) \o R!OmittedNotice(told) \o SubSeq(s, t + 1, end)
    IN /\ J!Utf8Valid(s) => J!Utf8Valid(h.out) /\ J!Utf8Valid(j.out)
       /\ Len(h.out) <= OutputMax /\ Len(j.out) <= OutputMax + Len(R!OmittedNotice(Len(s) + 1))
       /\ IF Len(s) <= OutputMax THEN h.out = s /\ h.truncated = 0
          ELSE h.truncated = 1 /\ (J!Utf8Valid(s) => cutHead)
       /\ IF end = 0 THEN j.out = <<"(empty)">>
          ELSE IF end <= OutputMax THEN j.out = SubSeq(s, 1, end) /\ j.truncated = 0
          ELSE j.truncated = 1 /\ (J!Utf8Valid(s) => cutJob)
       /\ \A code \in {0, 1} : \A note \in BOOLEAN :
            LET r == R!RunResult(code, note, text)
            IN /\ r.ok <=> code = 0 /\ ~note
               /\ r.out = IF s = <<>> THEN <<"(empty)">> ELSE h.out

(* What is done to a set of tools in a run.                                 *)
ToolSteps == UpTo({"add", "skills", "none", "json"}, 6)

(* The schema that is sent is that of the tools there are, however late one *)
(* is added, and the tool that loads a skill is in it once, and only with   *)
(* a skill to load.                                                         *)
ToolsKeep(text) ==
    LET do(ts, op) == CASE op = "add" -> R!AddTool(ts, "read_file")
                        [] op = "skills" -> R!AddSkillsTool(ts, 1)
                        [] op = "none" -> R!AddSkillsTool(ts, 0)
                        [] op = "json" -> R!ToolsJson(ts)
        ts == R!ToolsJson(Over(do, R!NewTools, text))
    IN /\ ts.schema = ts.tools
       /\ Cardinality({i \in DOMAIN ts.tools : ts.tools[i] = "load_skill"}) =
            IF "skills" \in Range(text) THEN 1 ELSE 0
       /\ \A name \in {"read_file", "load_skill"} :
            R!ExecuteTool(ts, name) # "unknown tool" <=> name \in Range(ts.schema)

(* Calls of a tool: two members, of strings of all kinds, or others.        *)
Calls ==
    {<<"{">> \o Member("a") \o <<Quote>> \o Joined(w) \o <<Quote, ",">> \o Member(k) \o v
        \o <<"}">> : w \in UpTo(Atoms, 2), k \in {"a", "b"}, v \in Values}

(* No argument can look like a second one or like a line of its own, and    *)
(* what is shown of it is not cut within a character (nm_tool_plan).        *)
PlanKeeps(text) ==
    LET plan == R!Plan("tool", text)
        p == J!Parse(text)
        members == IF p.ok /\ p.p.val.t = "obj" THEN Len(p.p.val.v) ELSE 0
    IN /\ J!Utf8Valid(plan)
       /\ Cardinality({i \in DOMAIN plan : plan[i] = "NL"}) = members
       /\ Len(plan) <= 1 + members * (6 + PlanMax + 3)

---------------------------------------------------------------------------
(* Reads of a text in windows.                                              *)
Readings == [of : UpTo({"x", "NL"}, 6) \cup UpTo({"x", "NL", "C2", "80", "NUL"}, 3),
          limit : 0 .. 2, numbered : BOOLEAN]

(* Whoever goes on from the offset each notice names reads every line once, *)
(* whole and in order, in results within the budget, as long as each line   *)
(* fits into one; a window of one that does not shows nothing of it.        *)
WindowsKeep(text) ==
    LET window(at) == R!Window(text.of, at, text.limit, text.limit > 0, text.numbered)
        lines == R!LinesOf(text.of)
        shown(i) == IF text.numbered THEN R!Numbered(lines[i], i) ELSE lines[i]
        cost(i) == Len(lines[i]) + (IF text.numbered THEN R!NumberCost ELSE 0)
        fits(i) == cost(i) <= OutputMax - ReadReserve
        body(w) == IF w.rest THEN SubSeq(w.out, 1, Len(w.out) - 4) ELSE w.out
        page(r) == LET w == window(r.at)
                   IN [at |-> w.resume, out |-> r.out \o body(w), n |-> r.n + 1, rest |-> w.rest]
        end == Until(page, LAMBDA r : ~r.rest \/ r.n > Len(lines),
                     [at |-> 1, out |-> <<>>, n |-> 0, rest |-> TRUE])
    IN IF ~J!Utf8Valid(text.of) THEN window(1).state = "not text"
       ELSE IF text.of = <<>> THEN window(1).state = "empty" /\ window(1).truncated = 0
       ELSE /\ \A at \in DOMAIN lines :
                 /\ Len(window(at).out) <= OutputMax
                 /\ ~fits(at) => window(at).kept = 0 /\ window(at).truncated = 2
            /\ window(Len(lines) + 1).state = "past the end"
            /\ (\A i \in DOMAIN lines : fits(i)) /\ "NUL" \notin Range(text.of) =>
                 /\ end.out = Joined([i \in DOMAIN lines |-> shown(i)])
                 /\ end.n <= Len(lines) /\ ~end.rest

(* Paths of up to three names, under every kind of directory.               *)
Paths == [path : UNION {[1 .. k -> {"a", "", "~"}] : k \in 1 .. 3},
          workdir : {<<>>, <<"w">>}, agent : {<<>>, <<"", "g">>}, home : {<<>>, <<"", "h">>}]

(* The directory a path leads through is where its parent leads.            *)
PathsKeep(text) ==
    LET to(p) == R!ResolvePath(p, text.workdir, text.agent, text.home)
    IN Len(text.path) > 1 /\ R!ParentDir(text.path) # <<"~">> =>
         R!ParentDir(to(text.path)) = to(R!ParentDir(text.path))

(* Directories, with all that can be met in one.                            *)
Node(name, kind, t, of) == [name |-> <<name>>, kind |-> kind, text |-> t, of |-> of]
Leaves(name) == {Node(name, "file", t, <<>>) :
                   t \in {<<"x">>, <<"y", "NL", "x", "C2", "80", "x", "NL", "x">>, <<"x", "80">>}}
                  \cup {Node(name, "gone", <<>>, <<>>), Node(name, "closed", <<>>, <<>>)}
Branches(name, nodes) == {Node(name, "dir", <<>>, of) : of \in {<<>>} \cup {<<n>> : n \in nodes}}
Inner == Leaves("c") \cup Branches("d", Branches("e", Leaves("f"))) \cup Branches("d", Leaves("c"))
Outer == Leaves("a") \cup Branches("b", Inner) \cup Branches(".git", Leaves("c"))
Roots == {Node("r", "dir", <<>>, of) : of \in {<<>>} \cup {<<n>> : n \in Outer}
                                                \cup (Outer \X Leaves("z")) \cup (Leaves("z") \X Outer)}
         \cup Leaves("r")

(* A listing and a search give everything there is to tell, in the order it *)
(* was met, or say that the budget cut it and keep the budget; a root that  *)
(* cannot be read is no miss.                                               *)
TreesKeep(text) ==
    LET found == R!Search(text, <<"x">>)
        listed == R!Listing(text.of)
        hits(path, e) ==
          LET ls == R!LinesOf(e.text)
          IN IF e.kind = "file" /\ J!Utf8Valid(e.text)
             THEN {R!Hit(path, i, R!Bare1(ls[i])) : i \in {k \in DOMAIN ls : "x" \in Range(ls[k])}}
             ELSE {}
        below(path, d) == UNION {hits(path \o e.name, e) : e \in Range(d)}
        open(d) == {e \in Range(d) : e.kind = "dir" /\ e.name # <<".git">>}
        all == IF text.kind = "file" THEN hits(text.name, text)
               ELSE below(text.name, text.of)
                      \cup UNION {below(text.name \o e.name, e.of) : e \in open(text.of)}
        size(set) == Cardinality(UNION {{h} \X DOMAIN h : h \in set})
        part(out, of) == \A h \in of : \E k \in DOMAIN out : J!Starts(out, k, h)
    IN /\ "out" \notin DOMAIN found <=> text.kind \in {"gone", "closed"} \/ ~J!Utf8Valid(text.text)
       /\ "out" \in DOMAIN found =>
            /\ Len(found.out) <= OutputMax
            /\ found.truncated = 0 /\ all = {} => found.out = <<"(empty)">>
            /\ found.truncated = 0 /\ all # {} => Len(found.out) = size(all) /\ part(found.out, all)
            /\ found.truncated = 1 => size(all) >= OutputMax - Slack
       /\ Len(listed.out) <= OutputMax
       /\ listed.truncated = 0 /\ text.of # <<>> =>
            /\ part(listed.out, {e.name : e \in Range(text.of)})
            /\ Cardinality({i \in DOMAIN listed.out : listed.out[i] = "NL"}) = Len(text.of)

---------------------------------------------------------------------------
(* What a job prints on one line: a stroke is a text and what it does to a  *)
(* terminal whose line is `ColMax` wide.                                    *)
Stroke(text, act, n) == [text |-> text, act |-> act, n |-> n]
Sequence(digits, final) == <<"ESC", "[">> \o digits \o <<final>>
Strokes ==
    {Stroke(<<c>>, "put", 0) : c \in {"a", "b", " "}}
    \cup {Stroke(<<"CR">>, "to", 0), Stroke(<<"BS">>, "back", 1), Stroke(<<"TAB">>, "tab", 0),
          Stroke(Sequence(<<>>, "K"), "erase end", 0), Stroke(Sequence(<<"1">>, "K"), "erase start", 0),
          Stroke(Sequence(<<"2">>, "J"), "erase line", 0), Stroke(Sequence(<<>>, "C"), "ahead", 1),
          Stroke(Sequence(<<"3">>, "C"), "ahead", 3), Stroke(Sequence(<<>>, "D"), "back", 1),
          Stroke(Sequence(<<"2">>, "D"), "back", 2), Stroke(Sequence(<<"1", "0">>, "G"), "to", 9),
          Stroke(Sequence(<<>>, "H"), "to", 0), Stroke(Sequence(<<"1", ";", "3">>, "H"), "to", 2),
          Stroke(Sequence(<<"2", ";", "3">>, "H"), "none", 0), Stroke(Sequence(<<"1">>, "m"), "none", 0),
          Stroke(<<"ESC", "]", "a", "BEL">>, "none", 0), Stroke(<<"ESC", "]", "ESC", "\\">>, "none", 0),
          Stroke(<<"ESC", "b">>, "none", 0), Stroke(<<"BEL">>, "none", 0),
          Stroke(<<"ESC", "[", " ">>, "cut", 0)}
Drawings == UpTo(Strokes, 3) \cup {Append(p, Stroke(<<"ESC", "]", "a">>, "cut", 0)) : p \in UpTo(Strokes, 2)}

(* A terminal: its cursor and what stands in each column, "" being nothing. *)
(* `astray` where the program is known to draw otherwise: text behind what  *)
(* was erased, and a step back that names no number.                        *)
Blank0 == [col |-> 0, cells |-> [k \in 0 .. ColMax - 1 |-> ""], erased |-> {}, stop |-> FALSE,
           astray |-> FALSE]
Drawn(d, p) ==
    LET put(e, c) ==
          IF e.col >= ColMax THEN [e EXCEPT !.stop = TRUE]
          ELSE [e EXCEPT !.cells = [@ EXCEPT ![e.col] = c], !.col = @ + 1,
                         !.erased = @ \ {e.col},
                         !.astray = @ \/ \E k \in e.erased : k < e.col]
        next == (d.col \div TabWidth + 1) * TabWidth
        wipe(columns) == [d EXCEPT !.cells = [k \in DOMAIN @ |-> IF k \in columns THEN "" ELSE @[k]],
                                   !.erased = @ \cup {k \in columns : d.cells[k] # ""}]
        to(column) == [d EXCEPT !.col = column]
    IN CASE d.stop \/ p.act = "cut" -> [d EXCEPT !.stop = TRUE]
         [] p.act = "put" -> put(d, p.text[1])
         [] p.act = "tab" -> Over(put, d, [k \in 1 .. next - d.col |-> " "])
         [] p.act = "to" -> to(p.n)
         [] p.act = "ahead" -> to(IF d.col + p.n < ColMax THEN d.col + p.n ELSE ColMax)
         [] p.act = "back" -> [to(IF d.col > p.n THEN d.col - p.n ELSE 0) EXCEPT
                                 !.astray = @ \/ p.text = Sequence(<<>>, "D")]
         [] p.act = "erase end" -> wipe(d.col .. ColMax - 1)
         [] p.act = "erase line" -> wipe(0 .. ColMax - 1)
         [] p.act = "erase start" ->
              [d EXCEPT !.cells = [k \in DOMAIN @ |-> IF k < d.col /\ @[k] # "" THEN " " ELSE @[k]]]
         [] OTHER -> d
Lit(d) ==
    LET on == {k \in DOMAIN d.cells : d.cells[k] # ""}
        width == IF on = {} THEN 0 ELSE 1 + (CHOOSE k \in on : \A l \in on : l <= k)
    IN [k \in 1 .. width |-> IF d.cells[k - 1] = "" THEN " " ELSE d.cells[k - 1]]
Printed(strokes) == Joined([i \in DOMAIN strokes |-> strokes[i].text])

(* What is given of a line is what a terminal shows of it, within its width *)
(* and without a control left in it, and each line is drawn by itself; but  *)
(* for the strokes that go astray (render_line).                            *)
ScreenKeeps(text) ==
    LET r == S!Render(Printed(text))
        d == Over(Drawn, Blank0, text)
    IN /\ ~d.astray /\ S!NeedsRender(Printed(text)) => r = Lit(d)
       /\ ~S!NeedsRender(r) /\ S!Render(r) = r /\ Len(r) <= ColMax
       /\ S!Render(Printed(text) \o <<"NL">> \o Printed(text)) = r \o <<"NL">> \o r

---------------------------------------------------------------------------
(* What a stream brings in one round.                                       *)
Deltas == {[channel |-> c, text |-> t] : c \in {"content", "reasoning", "details"},
              t \in {<<>>, <<"a">>, <<"b">>}}
          \cup {[channel |-> "image", text |-> <<t>>] : t \in {"data", "broken", "address"}}
          \cup {[channel |-> "calls", text |-> <<"call">>]}
Collected(deltas) == Over(N!OnDelta, N!RoundReset, deltas)

(* What is shown of an answer is what the session keeps of it, in order,    *)
(* and a round counts as void exactly when nothing but reasoning came.      *)
DeltasKeep(text) ==
    LET r == Collected(text)
        shown(c) == Joined([i \in DOMAIN r.shown |->
                              IF r.shown[i].channel = c THEN r.shown[i].text ELSE <<>>])
        came == {i \in DOMAIN text : text[i].text # <<>>}
    IN /\ r.text = shown("content") /\ r.reasoning = shown("reasoning")
       /\ Len(shown("image")) = Len(r.images) /\ shown("details") = <<>>
       /\ Len(r.images) + r.notices = Cardinality({i \in came : text[i].channel = "image"})
       /\ N!Void(r) <=> \A i \in came :
             text[i].channel \in {"reasoning", "details"}
                \/ (text[i].channel = "image" /\ text[i].text # <<"data">>)

(* Rounds with their usage reports: complete, or without some counters, or  *)
(* reported twice.                                                          *)
Full == N!Report(5, 2, 3, 1)
Reported == {<<>>, <<Full>>, <<N!Report(4, 1, N!Unknown, N!Unknown)>>,
             <<N!Report(N!Unknown, 0, 2, N!Unknown)>>, <<N!NoReport>>,
             <<Full, N!Report(6, 3, 0, 0)>>}
EndOf(status, reason, served) ==
    [status |-> status, reason |-> reason, served |-> served, tier |-> ""]
RoundForms == {[deltas |-> <<[channel |-> c, text |-> <<"a">>]>>, reports |-> u, end |-> e] :
                 c \in {"content", "reasoning"}, u \in Reported,
                 e \in {EndOf("ok", "stop", ""), EndOf("ok", "length", "p")}}
              \cup {[deltas |-> <<>>, reports |-> <<Full>>, end |-> EndOf("fault", "", "q")]}

(* A sum is known when one completed round reported it, and is then what    *)
(* those reported; a round that failed or came back void moves nothing; the *)
(* gauge is the last completed round's; and as long as no provider reports  *)
(* a cache without a prompt, no more is read from it than was sent.         *)
UsageKeeps(text) ==
    LET of(x) == Over(N!OnUsage, Collected(x.deltas), x.reports)
        a == Over(LAMBDA b, x : N!FinishRound(b, of(x), x.end), N!NewAgent, text)
        done == SelectSeq(text, LAMBDA x : x.end.status = "ok" /\ ~N!Void(of(x)))
        told == SelectSeq(done, LAMBDA x : x.reports # <<>>)
        use(x) == x.reports[Len(x.reports)]
        known(k) == SelectSeq(told, LAMBDA x : use(x)[k] # N!Unknown)
        sum(k) == Over(LAMBDA n, x : n + use(x)[k], 0, known(k))
        lines == N!ContextLines(a)
    IN /\ \A k \in DOMAIN Full :
            N!SessionTokens(a, k) = IF known(k) = <<>> THEN N!Unknown ELSE sum(k)
       /\ N!LastUsage(a) = IF known("in") = <<>> THEN N!NoReport ELSE use(told[Len(told)])
       /\ a.rounds = Len(told)
       /\ a.cuts = Cardinality({i \in DOMAIN done : done[i].end.reason = "length"})
       /\ Range(known("read")) \subseteq Range(known("in")) =>
             N!CacheBase(a) = N!Unknown \/ a.read <= a.base
       /\ "rate" \in lines => known("read") # <<>> /\ a.base > 0
       /\ N!ContextTier(a.last.in, 0) = 0
       /\ \A limit \in 1 .. 8 : N!ContextTier(a.last.in, limit) >= N!ContextTier(a.last.in, limit + 1)

(* A count is shown within a tenth of its unit, never above it, and its     *)
(* digits are grouped in threes from the right.                             *)
TokensKeep(text) ==
    LET n == Spelled(text)   t == N!FormatTokens(n)   exact == N!FormatExact(text)
        digits(s) == SelectSeq(s, LAMBDA c : c # ",")
    IN /\ t.unit * t.whole + (t.unit \div 10) * t.frac \in n - (t.unit \div 10) .. n
       /\ t.unit > 1 => t.whole > 0
       /\ digits(exact) = text
       /\ \A i \in DOMAIN exact : LET after == SubSeq(exact, i + 1, Len(exact))
            IN exact[i] = "," <=> /\ i > 1 /\ exact[i - 1] # "," /\ Len(digits(after)) % 3 = 0
                                  /\ after # <<>> /\ after[1] # ","

---------------------------------------------------------------------------
(* Prompts with mentions in them.                                           *)
Prompted == UpTo({"a", "@", "\"", "\\", " ", "(", "NL"}, 4)
               \cup UpTo({"a", "@", "\"", " "}, 6)

(* What the cursor is in is one of the mentions the prompt is scanned for,  *)
(* these stand one behind the other, and a path that was picked is the path *)
(* that is sent, whatever stands around it.                                 *)
MentionsKeep(text) ==
    LET spans == M!Scan(text)
        whole(t) == LET all == M!Scan(t)
                    IN [i \in DOMAIN all |-> M!MentionPath(t, all[i], Len(t))]
        plain == text # <<>> /\ Range(text) \cap {"\"", "\\", "NL"} = {}
    IN /\ \A i \in DOMAIN spans :
            /\ spans[i].start < spans[i].from /\ spans[i].from <= spans[i].end
            /\ i > 1 => spans[i - 1].end <= spans[i].start
            /\ ~spans[i].quoted => \A k \in spans[i].from + 1 .. spans[i].end :
                                     ~M!TokenEnds(text[k])
       /\ \A cursor \in 0 .. Len(text) :
            M!MentionAt(text, cursor) =
              SelectSeq(spans, LAMBDA s : s.start < cursor /\ cursor <= s.end)
       /\ plain => \A before \in {<<>>, <<"a", " ">>, <<"(">>} :
            /\ whole(before \o M!MentionFormat(text, FALSE) \o <<" ", "a">>) = <<text>>
            /\ whole(before \o M!MentionFormat(text, TRUE))[1] =
                 text \o (IF text[Len(text)] = "/" THEN <<>> ELSE <<"/">>)

(* A directory and what is typed of a name in it.                           *)
Names == {<<"a">>, <<"A">>, <<"b", "a">>, <<"a", "b">>, <<"a", ".", "b">>, <<".", "a">>, <<"B">>}
Listings == [raw : UNION {[n -> BOOLEAN] : n \in {s \in SUBSET Names : Cardinality(s) <= 3}},
             query : UpTo({"a", "B", ".", "/"}, 2), pinned : BOOLEAN]

(* The list offers each name that matches and is not hidden, once, those    *)
(* that start as typed first; and what is picked leads to what was listed.  *)
ListKeeps(text) ==
    LET raw == {[name |-> n, isdir |-> text.raw[n]] : n \in DOMAIN text.raw}
        list == M!MentionList(raw, text.query, text.pinned)
        typed == SubSeq(text.query, 1, M!DirLen(text.query))
        leaf == IF text.pinned THEN <<>> ELSE SubSeq(text.query, Len(typed) + 1, Len(text.query))
        low(s) == [i \in DOMAIN s |-> M!Fold(s[i])]
        starts(n) == Len(n) >= Len(leaf) /\ SubSeq(low(n), 1, Len(leaf)) = low(leaf)
        at(c) == M!ResolveMention(<<"w">>, c, <<"h">>)
    IN /\ \A i, j \in DOMAIN list : i < j =>
            /\ list[i].name # list[j].name
            /\ starts(list[j].name) => starts(list[i].name)
            /\ leaf = <<>> /\ list[j].isdir => list[i].isdir
       /\ \A e \in raw : starts(e.name) /\ (e.name[1] = "." => leaf # <<>>) =>
            \E c \in Range(list) : c.name = e.name /\ c.isdir = e.isdir
       /\ \A c \in Range(list) :
            /\ c.name[1] = "." => leaf # <<>> /\ leaf[1] = "."
            /\ at(typed \o c.name) = at(typed) \o c.name

---------------------------------------------------------------------------
(* Answers of a few lines, and single lines.                                *)
Ticks(n) == [k \in 1 .. n |-> "tick"]
AnswerLines == {<<>>, <<"a">>, <<" ", "a">>, <<"#", " ", "a">>, <<"-", " ", "a">>, <<">", "a">>,
             <<"=", "=">>, <<"-", "-">>, <<"|", "a", "|", "b">>, <<"|", "-", "|", ":", "-">>,
             <<"|", "-", "|">>, <<"!", "[", "a", "]", "(", "b", ")">>, Ticks(3),
             Ticks(3) \o <<"a">>, Ticks(4), <<"~", "~", "~">>}
Answers == UpTo(AnswerLines, 3) \cup {<<f, a, b, c>> : f \in {Ticks(3), <<"|", "a", "|", "b">>},
                                     a \in AnswerLines, b \in AnswerLines, c \in AnswerLines}

(* Fences open and close in turn, and what stood in one has no bearing on   *)
(* the lines behind it; a line is made a heading or the head of a table     *)
(* only while it is the end of a text, with as many cells as its underline; *)
(* a blank line is dropped only behind another; and a heading, an image, a  *)
(* list item and a quote own no line of text below them (markdown.h).       *)
MarksKeep(text) ==
    LET out == K!Classified(text).out
        class(i) == out[i].class
        count(c, i) == Cardinality({k \in 1 .. i : class(k) = c})
        within(i) == count("open", i - 1) > count("close", i - 1)
        fresh(i) == Over(LAMBDA r, line :
                           LET v == K!Classify(r.m, line, r.prev)
                           IN [m |-> v.m, prev |-> line,
                               out |-> Append(r.out, [class |-> v.class, kind |-> v.kind])],
                         [m |-> K!Reset, prev |-> text[i], out |-> <<>>], From(text, i + 1))
        owner(i) == out[i].kind \in {"heading", "image", "list", "quote"} /\ class(i) = "start"
    IN \A i \in DOMAIN text :
         /\ count("open", i) - count("close", i) \in {0, 1}
         /\ within(i) <=> class(i) = "close" \/ (class(i) = "continues" /\ count("open", i) > count("close", i))
         /\ class(i) = "close" => From(out, i + 1) = fresh(i).out
         /\ class(i) = "retro" => i > 1 /\ ~K!Blank(text[i - 1]) /\ ~within(i)
         /\ out[i].kind = "table" =>
               /\ out[i - 1].kind \in {"", "paragraph"} /\ class(i - 1) # "retro"
               /\ Len(K!SplitCells(text[i - 1]).cells) = Len(K!SplitCells(text[i]).cells)
         /\ class(i) = "blank" <=> ~within(i) /\ K!Blank(text[i]) /\ (i = 1 \/ K!Blank(text[i - 1]))
         /\ i > 1 /\ owner(i - 1) /\ ~K!Blank(text[i]) => class(i) # "continues"
         /\ out[i].kind = "image" => i = 1 \/ K!Blank(text[i - 1])

Marked == UpTo({"|", "\\", "a", " ", "-", ":"}, 5)
            \cup {Joined(w) : w \in UpTo({<<"!", "[">>, <<"]", "(">>, <<")">>, <<"a">>, <<"]">>, <<" ">>}, 5)}

(* The cells of a row are what stands between the bars that no backslash    *)
(* escapes; a line is an image where it is nothing else; and a text ends    *)
(* with a blank line when its last line is.                                 *)
RowsKeep(text) ==
    LET row == K!SplitCells(text)
        escaped(i) == \E k \in 1 .. i - 1 :
            /\ (i - k) % 2 = 1 /\ \A j \in k .. i - 1 : text[j] = "\\"
            /\ k > 1 => text[k - 1] # "\\"
        bars == {i \in DOMAIN text : text[i] = "|" /\ ~escaped(i)}
        lead == IF row.pipe THEN 1 ELSE 0
        open == IF bars = {} THEN TRUE
                ELSE ~K!Blank(From(text, 1 + (CHOOSE i \in bars : \A k \in bars : k <= i)))
        solid(s) == SelectSeq(s, LAMBDA c : c # " ")
        kept == Joined([i \in DOMAIN text |-> IF i \in bars THEN <<>> ELSE <<text[i]>>])
        ref == K!ImageRef(text)
        shape(a, b, c) ==
            LET alt == SubSeq(text, a, b - 1)   src == SubSeq(text, b + 2, c - 1)
            IN /\ J!Starts(text, a - 2, <<"!", "[">>) /\ J!Starts(text, b, <<"]", "(">>)
               /\ text[c] = ")" /\ "]" \notin Range(alt) /\ src # <<>>
               /\ K!Blank(SubSeq(text, 1, a - 3)) /\ a <= 7 /\ K!Blank(From(text, c + 1))
               /\ ref # <<>> /\ ref[1].alt = alt /\ ref[1].src = src
    IN /\ solid(Joined(row.cells)) = solid(kept)
       /\ \A k \in DOMAIN row.cells : K!Trimmed(row.cells[k]) = row.cells[k]
       /\ Len(row.cells) \in
             {Cardinality(bars) - lead + (IF open THEN 1 ELSE 0), 1}
       /\ ref # <<>> => \E a, b, c \in DOMAIN text : 2 < a /\ a <= b /\ b + 2 < c /\ shape(a, b, c)
       /\ K!TrailingBlank(text \o <<"NL">>) <=> K!Blank(text)
       /\ K!TrailingBlank(<<"a", "NL">> \o text \o <<"NL">>) <=> K!Blank(text)

---------------------------------------------------------------------------
(* The lines of a fence.                                                    *)
MCKeywords == [c |-> {<<"i", "f">>}, sh |-> {<<"f", "i">>}, json |-> {<<"e">>}]
MCAliases == <<"f">> :> "c" @@ <<"f", "i">> :> "sh" @@ <<"e">> :> "json"
Label == [c |-> <<" ", "F", " ", "i">>, sh |-> <<"f", "i", "TAB">>, json |-> <<"E">>, none |-> <<"f", "e">>]
Coded == {Joined(w) : w \in UpTo({<<"/">>, <<"*">>, <<"\"">>, <<"\\">>, <<"i", "f">>, <<"1">>}, 4)
                        \cup UpTo({<<"#">>, <<"'">>, <<"\"">>, <<"\\">>, <<"f", "i">>, <<" ">>}, 4)
                        \cup UpTo({<<"-">>, <<".">>, <<"1">>, <<"e">>, <<"\"">>}, 4)}
Openings == {Joined(w) : w \in UpTo({<<"/">>, <<"*">>, <<"\"">>, <<"\\">>}, 3)}
Fences == {[lang |-> l, lines |-> <<s>>] : l \in {"c", "sh", "json", "none"}, s \in Coded}
            \cup {[lang |-> "c", lines |-> <<a, b>>] : a \in Openings, b \in Openings}

(* Character by character, over the whole text: in a comment, a string or   *)
(* neither.                                                                 *)
Tinted(text) ==
    LET put(r, c, mode, next) == [r EXCEPT !.out = Append(@, c), !.mode = mode, !.skip = next]
        step(r, i) ==
          LET c == text[i]
              ahead == IF i < Len(text) THEN text[i + 1] ELSE "end"
          IN CASE c = "NL" -> put(r, "NL", IF r.mode = "block" THEN "block" ELSE "code", 0)
               [] c # "NL" /\ r.mode \in {"line", "block"} ->
                    put(r, "comment",
                        IF r.mode = "block" /\ r.skip = 0 /\ c = "/" /\ text[i - 1] = "*"
                        THEN "code" ELSE r.mode,
                        IF r.skip > 0 THEN r.skip - 1 ELSE 0)
               [] c # "NL" /\ r.mode \in {"\"", "'"} ->
                    put(r, "string", IF r.skip = 0 /\ c = r.mode THEN "code" ELSE r.mode,
                        IF r.skip = 0 /\ c = "\\" THEN 1 ELSE 0)
               [] c # "NL" /\ r.mode = "code" ->
                    IF c = "/" /\ ahead = "/" THEN put(r, "comment", "line", 0)
                    ELSE IF c = "/" /\ ahead = "*" THEN put(r, "comment", "block", 2)
                    ELSE IF c \in {"\"", "'"} THEN put(r, "string", c, 0)
                    ELSE put(r, "code", "code", 0)
    IN Over(step, [out |-> <<>>, mode |-> "code", skip |-> 0], [i \in DOMAIN text |-> i]).out

(* A fence's first word names its language whatever its case.  The runs of  *)
(* a line cover all of it in order, a keyword is a whole word, a string     *)
(* ends at its quote or with the line, and of a C text each character is    *)
(* given the tint it has in the text as a whole, though the lines are read  *)
(* one by one (highlight.h).                                                *)
HighlightsKeep(text) ==
    LET out == K!Highlighted(K!Lang(Label[text.lang]), text.lines).out
        at(k, i) == K!At(text.lines[k], i)
        name == K!Letter \cup K!Digit
        tint(k) == Joined([j \in DOMAIN out[k] |->
                     [i \in 1 .. out[k][j].to - out[k][j].from |->
                        IF out[k][j].kind \in {"comment", "string"} THEN out[k][j].kind ELSE "code"]])
        whole == Joined([k \in DOMAIN text.lines |->
                           IF k = 1 THEN text.lines[k] ELSE <<"NL">> \o text.lines[k]])
    IN /\ K!Lang(Label[text.lang]) = text.lang
       /\ \A k \in DOMAIN out : \A j \in DOMAIN out[k] :
            LET run == out[k][j]
            IN /\ run.from = (IF j = 1 THEN 1 ELSE out[k][j - 1].to) /\ run.from < run.to
               /\ run.kind = "plain" /\ j > 1 => out[k][j - 1].kind # "plain"
               /\ run.kind = "keyword" =>
                     /\ at(k, run.to) \notin name
                     /\ j > 1 /\ out[k][j - 1].kind # "number" => at(k, run.from - 1) \notin name
               /\ run.kind = "string" =>
                     \/ run.to = Len(text.lines[k]) + 1
                     \/ run.to - run.from > 1 /\ at(k, run.from) = at(k, run.to - 1)
       /\ \A k \in DOMAIN out : text.lines[k] # <<>> =>
            out[k] # <<>> /\ out[k][Len(out[k])].to = Len(text.lines[k]) + 1
       /\ text.lang = "c" =>
            Joined([k \in DOMAIN out |-> IF k = 1 THEN tint(k) ELSE <<"NL">> \o tint(k)]) = Tinted(whole)

---------------------------------------------------------------------------
(* A provider's brackets, and what is told of them: refusals to pay, rounds *)
(* that were paid, and balance answers.                                     *)
Option(set) == {<<>>} \cup {<<x>> : x \in set}
Windowed(share) == [used |-> share, resets |-> <<>>, limited |-> FALSE]
Window == Option({Windowed(<<>>), Windowed(<<40>>), Windowed(<<97>>),
                  [Windowed(<<100>>) EXCEPT !.limited = TRUE]})
Dollars(balance, allowance, period) ==
    [balance |-> balance, allowance |-> allowance, period |-> period,
     session |-> <<>>, weekly |-> <<>>]
Planned(left) == [left |-> <<left>>, resets |-> <<5>>]
InWindows == [Dollars(<<>>, <<>>, <<>>) EXCEPT !.session = <<Planned(3)>>, !.weekly = <<Planned(60)>>]
Key(remaining, free, spent) ==
    [remaining |-> remaining, limit |-> <<1000>>, free |-> free, daily |-> spent,
     weekly |-> spent, monthly |-> <<>>, credits |-> spent, used |-> <<100>>]
Events == [
    ollama |-> {[step |-> 0, doc |-> [included |-> i, purchased |-> p]] :
                  i \in Option({Dollars(<<700>>, <<1000>>, << <<9>> >>), Dollars(<<20>>, <<>>, <<>>), InWindows}),
                  p \in Option({<<>>, <<0>>, <<250>>})},
    openrouter |-> {[step |-> t, doc |-> Key(r, f, u)] : t \in {0, 1}, r \in Option({30}),
                  f \in Option({[remaining |-> <<40>>, limit |-> <<50>>],
                                [remaining |-> <<>>, limit |-> <<50>>]}),
                  u \in Option({250})},
    go |-> {[step |-> 0, doc |-> <<a, b, c>>] : a \in Window, b \in Window, c \in Window},
    zen |-> {}]
Paid(status) == [step |-> status, doc |-> <<>>]
Purse(provider, n) == UpTo(Events[provider] \cup {Paid(402), Paid(200)}, n)

Heard(provider, events) ==
    Over(LAMBDA s, e :
           CASE e.step \in {200, 402} -> B!FoldRound(s, e.step)
             [] e.step \in {0, 1} /\ provider = "ollama" -> B!OllamaAnswer(s, e.doc)
             [] e.step \in {0, 1} /\ provider = "openrouter" -> B!OpenrouterAnswer(s, e.step, e.doc)
             [] e.step \in {0, 1} /\ provider = "go" -> B!GoAnswer(s, e.doc),
         B!InitBrackets(provider), events)

(* The row shows every window that refuses, and of what is left as much as  *)
(* it has room for; first in rank the longest window, next the one nearest  *)
(* to a refusal; nothing that was only spent while something is left; and   *)
(* in the order of the ladder.  A refusal to pay stands until an answer     *)
(* speaks of the same bracket, and a round that was paid changes nothing    *)
(* (credit.h).                                                              *)
PurseKeeps(provider, events) ==
    LET s == Heard(provider, events)
        cells == B!StatusCells(s)
        b(c) == s.all[c.at]
        left == {k \in 1 .. s.n : s.all[k].kind = "left" /\ s.all[k].state # "unknown"}
        shown == {c.at : c \in Range(cells)}
        last == Len(events)
        nearer(x, y) == B!Above(B!Pressure(x), B!Pressure(y))
        before == Heard(provider, SubSeq(events, 1, last - 1))
    IN /\ \A i, j \in DOMAIN cells : i < j => cells[i].at < cells[j].at
       /\ {c.rank : c \in Range(cells)} = 1 .. Len(cells)
       /\ \A k \in 1 .. s.n : s.all[k].state = "exhausted" => k \in shown
       /\ left \subseteq shown \/ (Len(cells) = 3 /\ shown \subseteq left)
       /\ left # {} => shown \subseteq left
       /\ \A c \in Range(cells) :
            /\ c.rank = 1 => \A k \in left : B!SpanRank[s.all[k].window] <= B!SpanRank[b(c).window]
            /\ c.rank = 2 => \A k \in left : nearer(s.all[k], b(c)) => \E e \in Range(cells) : e.rank = 1 /\ e.at = k
       /\ last > 0 /\ events[last].step = 200 => s = before
       /\ last > 0 /\ before.all[1].state = "exhausted" /\ before.all[1].origin = "refusal" =>
            s.all[1].state = "exhausted" \/ s.all[1].origin = "endpoint"

(* Dates, and times of two of them: a date's day is what the days of the    *)
(* years and months before it add up to; and what is told of a time to come *)
(* or gone by, or of a count, is never more than it is, nor less by as much *)
(* as the last unit told.                                                   *)
Dates == {[year |-> y, month |-> m, day |-> d] :
            y \in {1969, 1970, 1972, 1999, 2000, 2001, 2024, 2100, 2101}, m \in 0 .. 13, d \in {0, 1, 28, 29, 30, 31, 32}}
Months(y) == [m \in 1 .. 12 |-> CASE m \in {4, 6, 9, 11} -> 30
                                  [] m = 2 -> IF (y % 4 = 0 /\ y % 100 # 0) \/ y % 400 = 0 THEN 29 ELSE 28
                                  [] OTHER -> 31]
Sum(f(_), n) == Over(LAMBDA r, k : r + f(k), 0, [k \in 1 .. n |-> k])
DatesKeep(date) ==
    LET days(y) == Sum(LAMBDA m : Months(y)[m], 12)
        day == B!DaysOf(date.year, date.month, date.day)
        real == date.year >= 1970 /\ date.month \in 1 .. 12 /\ date.day \in 1 .. Months(date.year)[date.month]
    IN /\ real => day = Sum(LAMBDA k : days(1969 + k), date.year - 1970)
                          + Sum(LAMBDA m : Months(date.year)[m], date.month - 1) + date.day - 1
       /\ day = -1 => ~real

Moments == {0, 1, 2, 59, 60, 61, 119, 120, 3599, 3600, 3601, 7199, 7200, 86399, 86400, 86401, 172799,
            172800, 999, 1000, 1099, 1100, 99999, 100000, 999949, 999999, 1000000, 1949999}
Times == [now : Moments, at : Moments]
TimesKeep(t) ==
    LET unit == [seconds |-> <<1, 1>>, minutes |-> <<60, 60>>, hours |-> <<3600, 60>>,
                 days |-> <<86400, 3600>>]
        until == B!FormatUntil(t.now, t.at)
        age == B!FormatAge(t.now, t.at)
        count == B!FormatCount(t.at)
        close(told, is, by) == told <= is /\ is < told + by
    IN /\ until.told = "nothing" <=> t.at = 0
       /\ until.told = "now" <=> t.at > 0 /\ t.at <= t.now
       /\ until.told \in DOMAIN unit =>
            LET u == unit[until.told]
            IN /\ close(until.big * u[1] + until.small * u[2], t.at - t.now, u[2])
               /\ until.small * u[2] < u[1] \/ u[1] = u[2]
       /\ age.told \in DOMAIN unit =>
            close(age.big * unit[age.told][1], IF t.now < t.at THEN 0 ELSE t.now - t.at, unit[age.told][1])
       /\ count.unit = 1 => count.tenths = t.at * 10
       /\ count.unit > 1 => close(count.tenths * (count.unit \div 10), t.at, count.unit \div 10)
       /\ \A digits \in {B!FormatMoney(t.at), B!FormatCredits(t.at)} :
            t.at = Over(LAMBDA r, k : r + digits[k] * <<100, 10, 1>>[k], 0, [k \in DOMAIN digits |-> k])

---------------------------------------------------------------------------
(* The transcript: deltas, tools, notices and ends of a turn.  No text and  *)
(* no notice comes while a tool runs.                                       *)
Event(what, text) == [what |-> what, text |-> text]
Spoken == {<<"x">>, <<"NL">>, <<"x", "NL">>, <<"NL", "x">>, <<"x", "NL", "NL">>,
           <<"x", "CR", "NL">>, <<"CR", "NL">>}
Happening(texts) ==
    [what : L!Streams, text : texts]
      \cup {Event(what, <<>>) : what \in {"image", "start", "end", "picture",
                                         "done", "error", "interrupted", "notice"}}
Orderly(events) ==
    LET running(k) == \E i \in 1 .. k : /\ events[i].what = "start"
                                        /\ \A j \in i + 1 .. k : events[j].what \notin
                                             {"end", "picture", "error", "interrupted"}
    IN \A k \in DOMAIN events :
         IF running(k - 1) THEN events[k].what \in {"end", "picture", "error", "interrupted"}
         ELSE events[k].what \notin {"end", "picture"}
SomeTurns == {t \in UpTo(Happening(Spoken), 3) \cup [1 .. 4 -> Happening({<<"NL">>, <<"x", "NL", "NL">>})] :
                Orderly(t)}

Happens(s, e) ==
    CASE e.what \in L!Streams \cup {"image"} -> L!OnDelta(s, e.what, e.text)
      [] e.what = "start" -> L!ToolStarts(s)
      [] e.what \in {"end", "picture"} -> L!ToolEnds(s, e.what = "picture")
      [] e.what = "notice" -> L!Notice(s)
      [] OTHER -> L!OnState(s, e.what)

(* Every byte of a stream is shown in its order or still held, what is held *)
(* is nothing but line breaks, and no run ends in an empty line of its own; *)
(* a row never follows a run without the one blank row between them, and no *)
(* two blank rows follow each other (chat_app.c, on stream_text and the     *)
(* separator).  A picture's caption stands alone, and nothing separates     *)
(* reasoning that comes behind content.                                     *)
TranscriptKeeps(events) ==
    LET after(k) == Over(Happens, L!Silent, SubSeq(events, 1, k))
        closes(stream) == {"start", "done", "error", "interrupted", "notice"}
                            \cup IF stream = "reasoning" THEN {"content", "image"} ELSE {}
        last(p(_), n) == CHOOSE i \in 0 .. n : /\ i = 0 \/ p(i)
                                              /\ \A j \in i + 1 .. n : ~p(j)
        said(stream, k) ==
            LET from == last(LAMBDA i : events[i].what \in closes(stream), k)
            IN Joined([i \in 1 .. k - from |-> IF events[from + i].what = stream
                                               THEN events[from + i].text ELSE <<>>])
        shown(stream, posts) ==
            LET from == last(LAMBDA i : posts[i].to = "end" /\ posts[i].text = <<stream>>, Len(posts))
            IN Joined([i \in 1 .. Len(posts) - from |-> IF posts[from + i].to = stream
                                                        THEN posts[from + i].text ELSE <<>>])
        rows == SelectSeq(after(Len(events)).posts, LAMBDA p : p.to # "end")
        trailing(text) == SubSeq(text, L!BodyLen(text) + 1, Len(text))
    IN /\ \A k \in DOMAIN events, stream \in L!Streams :
            LET s == after(k)
            IN /\ shown(stream, s.posts) \o s.hold[stream] = said(stream, k)
               /\ \A i \in DOMAIN s.hold[stream] : s.hold[stream][i] \in L!Breaks
               /\ trailing(shown(stream, s.posts)) \in {<<>>, <<"NL">>, <<"CR">>, <<"CR", "NL">>}
       /\ \A i \in 2 .. Len(rows) :
            /\ rows[i - 1].to \in L!Streams /\ rows[i].to # rows[i - 1].to =>
                 rows[i].to \in {"blank", "caption"} \/ rows[i].to = "reasoning"
            /\ ~(rows[i - 1].to = "blank" /\ rows[i].to = "blank")
            /\ rows[i - 1].to = "result" => rows[i].to \in {"blank", "picture"}
       /\ rows # <<>> => rows[1].to # "blank"

(* The rows of a result are its lines, those of a reminder set apart.       *)
ResultTexts == UpTo({"a", "NL", "CR", "<reminder>", "</reminder>"}, 5)
ResultRowsKeep(output) ==
    LET rows == L!ResultRows(output, FALSE)
        lines == Joined([i \in DOMAIN rows |-> rows[i].text \o <<"NL">>])
        bare(text) == SelectSeq(text, LAMBDA c : c # "CR")
    IN /\ bare(lines) \in {bare(output), bare(output) \o <<"NL">>}
       /\ \A i \in DOMAIN rows :
            /\ rows[i].error <=> i = 1
            /\ rows[i].reminder <=>
                 \E k \in 1 .. i : /\ rows[k].text = <<"<reminder>">>
                                   /\ \A j \in k .. i - 1 : rows[j].text # <<"</reminder>">>

---------------------------------------------------------------------------
(* The endpoint's URL, and the parts of a well-formed one.                  *)
Urls == {<<"http://">> \o rest : rest \in UpTo({"h", "[", "]", ":", "/", "8"}, 5)}
          \cup {<<"https://">> \o rest : rest \in UpTo({"h", "[", "]", ":", "/", "8"}, 3)}
UrlsKeep(url) ==
    LET read == N!SplitBaseUrl(url)
        default == IF url[1] = "https://" THEN 443 ELSE 80
        names == UpTo({"h", "8"}, 2) \ {<<>>}
        literals == {<<"[">> \o name \o <<"]">> : name \in UpTo({"h", ":"}, 2) \ {<<>>}}
        inner(host) == IF host[1] = "[" THEN SubSeq(host, 2, Len(host) - 1) ELSE host
        starts(s, t) == Len(s) <= Len(t) /\ SubSeq(t, 1, Len(s)) = s
        rest == Tail(url)
    IN /\ \A host \in names \cup literals, port \in {<<>>, <<":", "8">>, <<":", "8", "8">>} :
            LET authority == host \o port
                path == SubSeq(rest, Len(authority) + 1, Len(rest))
            IN starts(authority, rest) /\ (path = <<>> \/ path[1] = "/") =>
                 /\ N!UrlPathPrefix(url) = path
                 /\ read = [ok |-> TRUE, host |-> inner(host),
                            port |-> CASE Len(port) = 3 -> 88 [] Len(port) = 2 -> 8 [] OTHER -> default]
       /\ read.ok => /\ Len(read.host) \in 1 .. HostMax - 1
                     /\ starts(read.host, rest) \/ starts(<<"[">> \o read.host \o <<"]">>, rest)
                     /\ \A i \in DOMAIN read.host : read.host[i] # "/"
                     /\ rest[1] # "[" => \A i \in DOMAIN read.host : read.host[i] # ":"

---------------------------------------------------------------------------
(* A request's messages and knobs on the wire.                              *)
Maybe(x) == {<<>>, <<x>>}
Said(roles, images) ==
    [role : roles, content : {<<>>, <<"">>, <<"a">>}, images : images, calls : Maybe("c"),
     answers : Maybe("id"), reasoning : {<<>>, <<"">>, <<"r">>}, details : Maybe("d")]
WireForms ==
    [system : Maybe("s"),
     messages : [1 .. 1 -> Said({"user", "assistant", "tool"}, {<<>>, <<"p">>, <<"p", "q">>})]
                  \cup [1 .. 2 -> [role : {"assistant", "tool"}, content : {<<"a">>}, images : {<<>>, <<"p">>},
                                   calls : Maybe("c"), answers : Maybe("id"), reasoning : Maybe("r"),
                                   details : {<<>>}]]]
Knobs == [ep : [session : Maybe("n"), usage : Maybe("u"), cache : -1 .. 2, effort : {"none", "top", "object"}],
          req : [temperature : Maybe(0), limit : Maybe(0), effort : Maybe("high"), tools : Maybe("t")]]

(* An object names no member twice, and a reader of the wire gets back what *)
(* every message is made of, the pictures of an answer beside its text.     *)
Of(object, name) == LET held == {v \in object : v[1] = name}
                    IN IF held = {} THEN <<>> ELSE (CHOOSE v \in held : TRUE)[2]
Unique(object) == \A v, w \in object : v[1] = w[1] => v = w
BodiesKeep(req) ==
    LET wire == N!ComposeMessages(req)
        skip == Len(req.system)
    IN /\ Len(wire) = skip + Len(req.messages)
       /\ req.system # <<>> => Of(wire[1], "role") = <<"system">> /\ Of(wire[1], "content") = req.system
       /\ \A i \in DOMAIN req.messages :
            LET m == req.messages[i]
                o == wire[skip + i]
                parts == Of(o, "parts")
            IN /\ Unique(o)
               /\ Of(o, "role") = <<m.role>>
               /\ (IF parts = <<>> THEN Of(o, "content") ELSE SubSeq(parts, 1, 1))
                    = (IF m.content = <<>> THEN <<"">> ELSE m.content)
               /\ (IF parts = <<>> THEN Of(o, "images") ELSE Tail(parts)) = m.images
               /\ m.role = "assistant" => parts = <<>>
               /\ Of(o, "tool_calls") = m.calls /\ Of(o, "tool_call_id") = m.answers
               /\ Of(o, "reasoning_content") = m.reasoning
               /\ Of(o, "reasoning_details") = m.details
KnobsKeep(k) ==
    LET o == N!ComposeParameters(k.ep, k.req)
        sent == Of(o, "reasoning_effort") \o Of(o, "reasoning.effort")
    IN /\ Unique(o)
       /\ sent = IF k.ep.effort = "none" THEN <<>> ELSE k.req.effort
       /\ Of(o, "temperature") = k.req.temperature /\ Of(o, "max_tokens") = k.req.limit
       /\ Of(o, "tools") = k.req.tools /\ (Of(o, "tool_choice") # <<>> <=> k.req.tools # <<>>)
       /\ Of(o, "session_id") = k.ep.session
       /\ Of(o, "cache_control") # <<>> <=> k.ep.cache \in {1, 2}

Headers == UpTo([name : Maybe("n"), value : Maybe("v")], 4)
HeadersKeep(extra) ==
    LET sent == N!AppendExtraHeaders(<<>>, extra, 3)
        first == SubSeq(extra, 1, IF Len(extra) < 3 THEN Len(extra) ELSE 3)
    IN \A h \in {sent[i] : i \in DOMAIN sent} \cup {first[i] : i \in DOMAIN first} :
         Len(SelectSeq(sent, LAMBDA g : g = h)) =
           IF h.name = <<>> \/ h.value = <<>> THEN 0 ELSE Len(SelectSeq(first, LAMBDA g : g = h))

(* A figure the endpoint did not report stays unknown; only the total is    *)
(* put together, from both of its parts.                                    *)
Counted == {<<>>, <<0>>, <<5>>}
Usages == [prompt : Counted, completion : Counted, total : Counted, cached : Counted,
           cost : {<<>>, <<[usd |-> <<>>]>>, <<[usd |-> <<3>>]>>}]
ReportsKeep(u) ==
    LET read == N!ParseUsage(u)
    IN /\ \A name \in {"prompt", "completion", "cached"} :
            IF u[name] = <<>> THEN read[name] = N!Unknown ELSE u[name] = <<read[name]>>
       /\ u.total # <<>> => u.total = <<read.total>>
       /\ u.total = <<>> => IF <<>> \in {u.prompt, u.completion} THEN read.total = N!Unknown
                            ELSE read.total = read.prompt + read.completion
       /\ read.cost = N!Unknown <=> u.cost \in {<<>>, <<[usd |-> <<>>]>>}

---------------------------------------------------------------------------
(* The filter behind /model.  Only ctx:<1, which no window passes, is taken *)
(* for no bound.                                                            *)
Counts == {<<"1">>, <<"9">>, <<"1", "k">>, <<"0">>, <<"9", "9", "M">>, <<"9", "9", "9", "M">>, <<"x">>, <<>>}
Ops == {<<>>, <<">">>, <<">", "=">>, <<"<">>, <<"<", "=">>, <<"=">>}
Filter(kind, rest) == [kind |-> kind, rest |-> rest]
Filters == {Filter("word", <<"g">>), Filter("at", <<"vision">>), Filter("cap", <<"vision">>),
            Filter("cap", <<"tools">>), Filter("cap", <<"x">>), Filter("tag", <<>>),
            Filter("tag", <<"v">>), Filter("tag", <<"V", "w">>)}
              \cup {Filter("ctx", op \o count) : op \in Ops, count \in Counts}
Queries == UpTo(Filters, 2)
             \cup [1 .. 3 -> {f \in Filters : f.kind \in {"tag", "cap"} \/ \E op \in Ops :
                                              f.rest \in {op \o <<"9">>, op \o <<"1">>}}]
Listed == [context : {-1, 1, 2, 8, 9, 10, 1000, 99000000}, tags : {{}, {<<"V">>, <<"v", "w">>}},
           vision : BOOLEAN, image : {FALSE}, tools : BOOLEAN]
CountOf(spec) ==
    CASE spec = <<"1">> -> 1 [] spec = <<"9">> -> 9 [] spec = <<"1", "k">> -> 1000
      [] spec = <<"9", "9", "M">> -> 99000000 [] OTHER -> 0
Passes(f, entry) ==
    LET op == M!Op(f.rest)
        n == CountOf(SubSeq(f.rest, Len(op) + 1, Len(f.rest)))
        has == entry.context
    IN CASE f.kind = "word" -> TRUE
         [] f.kind = "cap" -> entry[f.rest[1]]
         [] f.kind = "tag" -> entry.tags # {}
         [] f.kind = "ctx" -> CASE op = <<">">> -> has > n [] op = <<"<", "=">> -> has \in 0 .. n
                                [] op = <<"<">> -> n = 1 \/ has \in 0 .. n - 1
                                [] op = <<"=">> -> has = n [] OTHER -> has >= n
Fine(f) ==
    CASE f.kind = "word" -> TRUE
      [] f.kind = "at" -> FALSE
      [] f.kind = "cap" -> f.rest # <<"x">>
      [] f.kind = "tag" -> f.rest # <<>>
      [] f.kind = "ctx" -> CountOf(SubSeq(f.rest, Len(M!Op(f.rest)) + 1, Len(f.rest))) > 0

(* A filter is refused exactly when one of its tokens is malformed or a tag *)
(* is named twice, and an entry passes exactly when it passes every token.  *)
QueriesKeep(tokens) ==
    LET q == M!ParseQuery(tokens)
        tags == {i \in DOMAIN tokens : tokens[i].kind = "tag"}
    IN /\ q.ok <=> /\ \A i \in DOMAIN tokens : Fine(tokens[i])
                   /\ \A i, j \in tags : i = j
       /\ q.ok => \A entry \in Listed :
            M!Matches(q, entry) <=> \A i \in DOMAIN tokens : Passes(tokens[i], entry)
       /\ q.ok /\ M!Unfiltered(q) => \A entry \in Listed : M!Matches(q, entry)

---------------------------------------------------------------------------
Forms == [spell |-> Spelt, json |-> Jsons, edit |-> EditForms, skill |-> SkillFiles,
          skills |-> Registries, context |-> Blocks, git |-> Gits,
          save |-> Sessions, history |-> Prompts, auth |-> AuthFiles,
          image |-> Pictures, base64 |-> Letterings,
          result |-> Outs, tools |-> ToolSteps, plan |-> Calls,
          window |-> Readings, path |-> Paths, tree |-> Roots,
          screen |-> Drawings,
          deltas |-> UpTo(Deltas, 3), usage |-> UpTo(RoundForms, 3),
          mention |-> Prompted, list |-> Listings, marks |-> Answers, row |-> Marked,
          fence |-> Fences, ollama |-> Purse("ollama", 3), openrouter |-> Purse("openrouter", 3),
          go |-> Purse("go", 2), zen |-> Purse("zen", 3), date |-> Dates, time |-> Times,
          turns |-> SomeTurns, rows |-> ResultTexts, url |-> Urls, body |-> WireForms, knobs |-> Knobs,
          headers |-> Headers, report |-> Usages, query |-> Queries,
          tokens |-> UpTo({"0", "1", "9"}, 6) \ {<<>>}]

(* What each kind of input is asked to keep.                                *)
Keeps(kind, text) ==
    /\ kind = "spell" => SpellingsKeep(text)
    /\ kind = "json" => JsonKeeps(text)
    /\ kind = "edit" => EditsKeep(text)
    /\ kind = "skill" => SkillsKeep(text)
    /\ kind = "skills" => RegistryKeeps(text)
    /\ kind = "context" => ContextKeeps(text)
    /\ kind = "git" => GitKeeps(text)
    /\ kind = "save" => SavesReadBack(text)
    /\ kind = "history" => HistoryKeeps(text)
    /\ kind = "auth" => AuthKeeps(text)
    /\ kind = "image" => ImagesKeep(text)
    /\ kind = "base64" => LettersKeep(text)
    /\ kind = "result" => ResultsKeep(text)
    /\ kind = "tools" => ToolsKeep(text)
    /\ kind = "plan" => PlanKeeps(text)
    /\ kind = "window" => WindowsKeep(text)
    /\ kind = "path" => PathsKeep(text)
    /\ kind = "tree" => TreesKeep(text)
    /\ kind = "screen" => ScreenKeeps(text)
    /\ kind = "deltas" => DeltasKeep(text)
    /\ kind = "usage" => UsageKeeps(text)
    /\ kind = "tokens" => TokensKeep(text)
    /\ kind = "mention" => MentionsKeep(text)
    /\ kind = "list" => ListKeeps(text)
    /\ kind = "marks" => MarksKeep(text)
    /\ kind = "row" => RowsKeep(text)
    /\ kind = "fence" => HighlightsKeep(text)
    /\ kind \in {"ollama", "openrouter", "go", "zen"} => PurseKeeps(kind, text)
    /\ kind = "date" => DatesKeep(text)
    /\ kind = "time" => TimesKeep(text)
    /\ kind = "turns" => TranscriptKeeps(text)
    /\ kind = "rows" => ResultRowsKeep(text)
    /\ kind = "url" => UrlsKeep(text)
    /\ kind = "body" => BodiesKeep(text)
    /\ kind = "knobs" => KnobsKeep(text)
    /\ kind = "headers" => HeadersKeep(text)
    /\ kind = "report" => ReportsKeep(text)
    /\ kind = "query" => QueriesKeep(text)

FormsInit == input = <<>> /\ computed = FALSE

FormsNext ==
    /\ turn \in DOMAIN Forms /\ ~computed
    /\ input' \in Forms[turn]
    /\ computed' = TRUE /\ UNCHANGED turn

(* What the program reads, writes or puts together keeps its meaning,       *)
(* whatever the text.                                                       *)
FormsHold == [][computed' => Keeps(turn, input')]_forms

(* What a job printed is given as a dumb terminal would show it (proc.h).   *)
ShownAsOnTerminal ==
    [][computed' /\ turn = "screen" =>
         S!Render(Printed(input')) = Lit(Over(Drawn, Blank0, input'))]_forms
=============================================================================
