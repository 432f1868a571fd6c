------------------------------ MODULE Mentions ------------------------------
(***************************************************************************)
(* What is typed at the prompt.  The @path mentions of a message           *)
(* (mention.c) and the names offered for one that is being typed           *)
(* (mention_source.c): a text is a sequence of characters; offsets count   *)
(* from 0, as in the code.  And the filter behind /model (chat_app.c):     *)
(* words, and typed tokens for a capability, a tag and bounds on the       *)
(* context window, and which entries of a catalog pass it: a token is its  *)
(* kind and what follows the colon; a context length of -1 is one the      *)
(* catalog does not know.                                                  *)
(***************************************************************************)
EXTENDS Repeat, FiniteSets

CONSTANT CountMax   \* the largest count of tokens a bound may name

Spaces == {" ", "TAB", "NL"}
Quote == "\""
TokenEnds(c) == c = Quote \/ c \in Spaces

(* boundary_before, boundaries of a word.                                   *)
BoundaryBefore(text, i) == i = 0 \/ text[i] \in Spaces \cup {"(", "[", "{", ",", ";"}

(* From i on, the first place where stop holds, or the end.                 *)
Until1(text, i, stop(_)) == Until(LAMBDA j : j + 1, LAMBDA j : j >= Len(text) \/ stop(text[j + 1]), i)

(* next_span: a quoted path ends at its quote or with the line, a bare one  *)
(* where a token does.                                                      *)
SpanAt(text, i) ==
    LET quoted == i + 1 < Len(text) /\ text[i + 2] = Quote
        stop == Until1(text, i + 2, LAMBDA c : c \in {Quote, "NL"})
        closed == stop < Len(text) /\ text[stop + 1] = Quote
    IN IF quoted
       THEN [start |-> i, quoted |-> TRUE, from |-> i + 2, closed |-> closed,
             end |-> IF closed THEN stop + 1 ELSE stop]
       ELSE [start |-> i, quoted |-> FALSE, from |-> i + 1, closed |-> TRUE,
             end |-> Until1(text, i + 1, TokenEnds)]
NextSpan(text, from) ==
    LET starts == {i \in from .. Len(text) - 1 : text[i + 1] = "@" /\ BoundaryBefore(text, i)}
    IN IF starts = {} THEN <<>>
       ELSE <<SpanAt(text, CHOOSE i \in starts : \A k \in starts : i <= k)>>

(* nm_mention_scan                                                          *)
Scan(text) ==
    LET step(r) == LET s == NextSpan(text, r.from)
                   IN IF s = <<>> THEN [r EXCEPT !.more = FALSE]
                      ELSE [r EXCEPT !.out = @ \o s, !.from = s[1].end]
    IN Until(step, LAMBDA r : ~r.more, [out |-> <<>>, from |-> 0, more |-> TRUE]).out

(* nm_mention_at: the span the cursor is in or at the end of.               *)
MentionAt(text, cursor) ==
    LET step(r) == LET s == NextSpan(text, r.from)
                   IN CASE s = <<>> -> [r EXCEPT !.more = FALSE]
                        [] s # <<>> /\ s[1].start < cursor /\ cursor <= s[1].end ->
                             [r EXCEPT !.out = s, !.more = FALSE]
                        [] OTHER -> [r EXCEPT !.from = s[1].end, !.more = s[1].start < cursor]
    IN Until(step, LAMBDA r : ~r.more, [out |-> <<>>, from |-> 0, more |-> TRUE]).out

(* Mutant: a closed path keeps its quote.                                   *)
MentionPathOpen(text, s, upto) ==
    LET to == IF upto < s.end THEN upto ELSE s.end
    IN [k \in 1 .. (IF to > s.from THEN to - s.from ELSE 0) |->
          IF text[s.from + k] = "\\" THEN "/" ELSE text[s.from + k]]

(* nm_mention_path: the path of a span, up to the cursor.                   *)
MentionPath(text, s, upto) ==
    LET end == IF s.quoted /\ s.closed /\ s.end > s.from THEN s.end - 1 ELSE s.end
        to == IF upto < end THEN upto ELSE end
    IN [k \in 1 .. (IF to > s.from THEN to - s.from ELSE 0) |->
          IF text[s.from + k] = "\\" THEN "/" ELSE text[s.from + k]]

(* nm_mention_format: a directory's quote is left open, one goes on below.  *)
NeedsQuote(path) == path = <<>> \/ \E i \in DOMAIN path : TokenEnds(path[i])
MentionFormat(path, isdir) ==
    LET quote == IF NeedsQuote(path) THEN <<Quote>> ELSE <<>>
    IN <<"@">> \o quote \o path
         \o (IF ~isdir THEN quote
             ELSE IF path # <<>> /\ path[Len(path)] = "/" THEN <<>> ELSE <<"/">>)

(* nm_mention_split_query: up to the last slash, and the rest.              *)
DirLen(query) ==
    LET slashes == {i \in DOMAIN query : query[i] = "/"}
    IN IF slashes = {} THEN 0 ELSE CHOOSE i \in slashes : \A k \in slashes : k <= i

---------------------------------------------------------------------------
(* The names a directory offers. *)

(* resolve                                                                  *)
ResolveMention(workdir, path, home) ==
    LET base == IF workdir # <<>> THEN workdir ELSE <<".">>
    IN CASE path # <<>> /\ path[1] = "~" /\ (Len(path) = 1 \/ path[2] = "/") /\ home # <<>> ->
              home \o <<"/">> \o Tail(path)
         [] path # <<>> /\ path[1] = "/" -> path
         [] OTHER -> base \o (IF base[Len(base)] = "/" THEN <<>> ELSE <<"/">>) \o path

Fold(c) == CASE c = "A" -> "a" [] c = "B" -> "b" [] OTHER -> c
Order == <<"end", ".", "A", "B", "a", "b">>
Place(c) == CHOOSE k \in DOMAIN Order : Order[k] = c
CharAt(s, i) == IF i \in DOMAIN s THEN s[i] ELSE "end"

(* name_rank: a name that starts as typed, the shorter the better; then one *)
(* that holds what is typed in order, the fewer gaps the better.            *)
NameRank(name, leaf) ==
    LET starts == Len(name) >= Len(leaf) /\ \A i \in DOMAIN leaf : Fold(name[i]) = Fold(leaf[i])
        match(r, c) == CASE r.at > Len(leaf) -> r
                         [] r.at <= Len(leaf) /\ Fold(c) = Fold(leaf[r.at]) -> [r EXCEPT !.at = @ + 1]
                         [] OTHER -> [r EXCEPT !.gaps = IF r.at > 1 THEN @ + 1 ELSE @]
        end == Over(match, [at |-> 1, gaps |-> 0], name)
    IN CASE leaf = <<>> -> 0
         [] leaf # <<>> /\ starts -> 2000 - Len(name)
         [] leaf # <<>> /\ ~starts /\ end.at > Len(leaf) -> 1000 - end.gaps
         [] OTHER -> -1

(* strcmp and its like: the first place where two names differ.             *)
Less(x, y) ==
    \E i \in 1 .. Len(x) + 1 :
        /\ Place(CharAt(x, i)) < Place(CharAt(y, i))
        /\ \A k \in 1 .. i - 1 : CharAt(x, k) = CharAt(y, k)

(* cand_cmp                                                                 *)
CandBefore(x, y) ==
    LET small(name) == [i \in DOMAIN name |-> Fold(name[i])]
        folded == {s \in {<<x.name, y.name>>, <<y.name, x.name>>} : Less(small(s[1]), small(s[2]))}
    IN IF x.score # y.score THEN x.score > y.score
       ELSE IF x.isdir # y.isdir THEN x.isdir
       ELSE IF folded # {} THEN <<x.name, y.name>> \in folded
       ELSE Less(x.name, y.name)

(* nm_mention_list: hidden names only where a dot was typed, in order.      *)
MentionList(raw, query, pinned) ==
    LET leaf == IF pinned THEN <<>> ELSE SubSeq(query, DirLen(query) + 1, Len(query))
        hidden(e) == e.name[1] = "."
        cands == {[name |-> e.name, isdir |-> e.isdir, hidden |-> hidden(e),
                   score |-> NameRank(e.name, leaf)] :
                    e \in {f \in raw : hidden(f) => CharAt(leaf, 1) = "."}}
        shown == {c \in cands : c.score >= 0}
    IN [k \in 1 .. Cardinality(shown) |->
          CHOOSE c \in shown : Cardinality({d \in shown : CandBefore(d, c)}) = k - 1]

---------------------------------------------------------------------------
Value == [d \in {"0", "1", "9"} |-> CASE d = "0" -> 0 [] d = "1" -> 1 [] d = "9" -> 9]
NoCount == -1

(* parse_token_count                                                       *)
ParseTokenCount(s) ==
    LET other == Where(LAMBDA c : c \notin DOMAIN Value, s)
        digits == IF other = 0 THEN s ELSE SubSeq(s, 1, other - 1)
        suffix == SubSeq(s, Len(digits) + 1, Len(s))
        v == Over(LAMBDA n, d : IF n = NoCount \/ n > CountMax THEN NoCount ELSE n * 10 + Value[d],
                  0, digits)
        mult == CASE suffix \in {<<"k">>, <<"K">>} -> 1000 [] suffix \in {<<"m">>, <<"M">>} -> 1000000
                  [] OTHER -> 1
    IN IF s = <<>> \/ v = NoCount \/ (suffix # <<>> /\ mult = 1) \/ v > CountMax \div mult
       THEN NoCount ELSE v * mult

NoQuery == [ok |-> TRUE, cap |-> {}, tag |-> <<>>, min |-> 0, max |-> 0, text |-> <<>>]
Refused(q) == [q EXCEPT !.ok = FALSE]

(* apply_ctx_token: 0 is no bound.                                         *)
Op(spec) ==
    IF Len(spec) >= 2 /\ spec[1] \in {"<", ">"} /\ spec[2] = "=" THEN SubSeq(spec, 1, 2)
    ELSE IF spec # <<>> /\ spec[1] \in {"<", ">", "="} THEN SubSeq(spec, 1, 1) ELSE <<>>

(* Mutant: the last bound stands, not the narrowest.                       *)
ApplyCtxTokenLast(q, spec) ==
    LET op == Op(spec)
        v == ParseTokenCount(SubSeq(spec, Len(op) + 1, Len(spec)))
        lo == CASE op \in {<<>>, <<">", "=">>, <<"=">>} -> v [] op = <<">">> -> v + 1 [] OTHER -> 0
        hi == CASE op \in {<<"<", "=">>, <<"=">>} -> v [] op = <<"<">> -> v - 1 [] OTHER -> 0
    IN IF v <= 0 THEN Refused(q)
       ELSE [q EXCEPT !.min = IF lo # 0 THEN lo ELSE @, !.max = IF hi # 0 THEN hi ELSE @]

ApplyCtxToken(q, spec) ==
    LET op == Op(spec)
        v == ParseTokenCount(SubSeq(spec, Len(op) + 1, Len(spec)))
        lo == CASE op \in {<<>>, <<">", "=">>, <<"=">>} -> v [] op = <<">">> -> v + 1 [] OTHER -> 0
        hi == CASE op \in {<<"<", "=">>, <<"=">>} -> v [] op = <<"<">> -> v - 1 [] OTHER -> 0
    IN IF v <= 0 THEN Refused(q)
       ELSE [q EXCEPT !.min = IF lo > @ THEN lo ELSE @,
                      !.max = IF hi # 0 /\ (@ = 0 \/ hi < @) THEN hi ELSE @]

(* model_query_parse                                                       *)
Capabilities == {"vision", "image", "tools"}
Token(q, t) ==
    CASE ~q.ok -> q
      [] q.ok /\ t.kind = "at" -> Refused(q)
      [] q.ok /\ t.kind = "cap" ->
           IF Len(t.rest) = 1 /\ t.rest[1] \in Capabilities THEN [q EXCEPT !.cap = @ \cup {t.rest[1]}]
           ELSE Refused(q)
      [] q.ok /\ t.kind = "tag" ->
           IF t.rest = <<>> \/ q.tag # <<>> THEN Refused(q) ELSE [q EXCEPT !.tag = t.rest]
      [] q.ok /\ t.kind = "ctx" -> ApplyCtxToken(q, t.rest)
      [] q.ok /\ t.kind = "word" -> [q EXCEPT !.text = Append(@, t.rest)]
ParseQuery(tokens) == Over(Token, NoQuery, tokens)

(* ascii_ieq, entry_has_tag                                                *)
Folded(tag) == [i \in DOMAIN tag |-> IF tag[i] = "V" THEN "v" ELSE tag[i]]
HasTag(entry, tag) == \E own \in entry.tags : Folded(own) = Folded(tag)

(* model_query_match                                                       *)
Matches(q, entry) ==
    /\ \A cap \in q.cap : entry[cap]
    /\ q.tag # <<>> => HasTag(entry, q.tag)
    /\ q.min # 0 \/ q.max # 0 =>
         /\ entry.context >= 0
         /\ q.min # 0 => entry.context >= q.min
         /\ q.max # 0 => entry.context <= q.max

(* model_query_is_plain: only then is the text tried as the exact name.    *)
Unfiltered(q) == q.cap = {} /\ q.tag = <<>> /\ q.min = 0 /\ q.max = 0
=============================================================================
