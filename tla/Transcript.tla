----------------------------- MODULE Transcript ------------------------------
(***************************************************************************)
(* What the program writes down of a conversation and reads of the user's: *)
(* the saved session (session.c), whose bodies are counted and whose other *)
(* channels are escaped, the prompt history (history.c), one entry a line, *)
(* and the keys of ~/.authinfo (authinfo.c).  A text is a sequence of      *)
(* characters as in Json; a count is written as one of them.               *)
(***************************************************************************)
EXTENDS Json

CONSTANTS
    HistoryMax,     \* NM_HISTORY_MAX
    LineMax,        \* the 8192 bytes of a line read back
    SlotsMax,       \* AUTHINFO_SLOTS
    SecretMax,      \* AUTHINFO_MACHINE_MAX and AUTHINFO_SECRET_MAX
    TokenMax        \* AUTHINFO_TOKEN_MAX, and above SecretMax

Count == <<"1", "2", "3", "4", "5", "6", "7", "8", "9">>
Times(c, n) == [i \in 1 .. n |-> c]
Ended(s) == s # <<>> /\ s[Len(s)] = "NL"
Line(s) == s \o (IF Ended(s) THEN <<>> ELSE <<"NL">>)

---------------------------------------------------------------------------
(* The saved session.  A message is [role, name, id, reasoning, content,    *)
(* calls, details], a text that is empty being none.                        *)

(* fence_len: one more than the longest run of backticks, at least three.   *)
FenceLen(body) ==
    LET runs == {n \in 1 .. Len(body) : \E i \in 0 .. Len(body) - n :
                    SubSeq(body, i + 1, i + n) = Times("tick", n)}
        best == IF runs = {} THEN 0 ELSE CHOOSE n \in runs : \A k \in runs : k <= n
    IN IF best < 3 THEN 3 ELSE best + 1

Fenced(body) ==
    LET fence == Times("tick", FenceLen(body))
    IN fence \o <<"text", "NL">> \o Line(body) \o fence \o <<"NL">>

(* Mutant: the escape that hides the end of the comment is escaped itself.  *)
CommentTwice(json) ==
    LET step(r) ==
          IF Starts(json, r.i, <<"-", "-", ">">>)
          THEN [i |-> r.i + 3, out |-> r.out \o <<"-", "-", Slash, Slash, "u", "0", "0", "3", "e">>]
          ELSE [i |-> r.i + 1, out |-> Append(r.out, json[r.i])]
    IN Until(step, LAMBDA r : r.i > Len(json), [i |-> 1, out |-> <<>>]).out

(* comment_write: nothing in it ends the comment it stands in.              *)
Comment(json) ==
    LET step(r) ==
          IF Starts(json, r.i, <<"-", "-", ">">>)
          THEN [i |-> r.i + 3, out |-> r.out \o <<"-", "-", Slash, "u", "0", "0", "3", "e">>]
          ELSE [i |-> r.i + 1, out |-> Append(r.out, json[r.i])]
    IN Until(step, LAMBDA r : r.i > Len(json), [i |-> 1, out |-> <<>>]).out

CommentLine(kind, json) ==
    <<"<!--", kind>> \o Comment(json) \o <<" ", "-", "-", ">", "NL">>

(* message_part: the trace before the answer, each where there is one.      *)
PartsOf(m) ==
    (IF m.reasoning # <<>> THEN <<[k |-> "reasoning", v |-> m.reasoning]>> ELSE <<>>)
    \o (IF m.content # <<>> THEN <<[k |-> "content", v |-> m.content]>> ELSE <<>>)

Str(s) == [t |-> "str", v |-> s]
Arr(s) == [t |-> "arr", v |-> s]
Obj(pairs) == [t |-> "obj", v |-> [i \in DOMAIN pairs |-> [k |-> <<pairs[i].k>>, v |-> pairs[i].v]]]

(* meta_json: what a reader goes by.                                        *)
Meta(m) ==
    LET field(k, s) == IF s = <<>> THEN <<>> ELSE <<[k |-> k, v |-> Str(s)]>>
        part(p) == Arr(<<Str(<<p.k>>), [t |-> "num", v |-> <<Count[Len(p.v)]>>]>>)
        parts == PartsOf(m)
    IN Obj(<<[k |-> "role", v |-> Str(<<m.role>>)]>>
           \o field("tool_name", m.name) \o field("tool_call_id", m.id)
           \o <<[k |-> "parts", v |-> Arr([i \in DOMAIN parts |-> part(parts[i])])]>>)

(* part_write: the bodies the program put together or relayed are fenced.   *)
Part(m, p) ==
    (IF m.reasoning # <<>> THEN <<"NL", "###", p.k, "NL", "NL">> ELSE <<"NL">>)
    \o (IF m.role \in {"system", "tool"} THEN Fenced(p.v) ELSE Line(p.v))

(* heading_field: a control character shows as two hexadecimal digits.      *)
HeadingField(s) ==
    Over(LAMBDA r, c : r \o (IF Control(c) THEN <<Slash, "x", "0", "a">> ELSE <<c>>), <<>>, s)

(* One message of nm_session_save.                                          *)
SavedMessage(m) ==
    LET heading == <<"NL", "##", m.role>>
                   \o (IF m.name = <<>> THEN <<>> ELSE <<" (">> \o HeadingField(m.name) \o <<")">>)
                   \o (IF m.id = <<>> THEN <<>> ELSE <<" id=">> \o HeadingField(m.id))
        tail(kind, json) == IF json = <<>> THEN <<>> ELSE <<"NL">> \o CommentLine(kind, json)
        parts == PartsOf(m)
    IN heading \o <<"NL">> \o CommentLine("meta", Dump(Meta(m)))
       \o Joined([i \in DOMAIN parts |-> Part(m, parts[i])])
       \o tail("tool_calls", m.calls) \o tail("reasoning_details", m.details)

Saved(messages) ==
    <<"<!--", "session", "-", "-", ">", "NL">>
    \o Joined([i \in DOMAIN messages |-> SavedMessage(messages[i])])

---------------------------------------------------------------------------
(* The prompt history, the newest entry first.                              *)

Escaped(s) ==
    Over(LAMBDA r, c : r \o (CASE c = "NL" -> <<Slash, "n">> [] c = Slash -> <<Slash, Slash>>
                               [] OTHER -> <<c>>), <<>>, s)

Unescaped(s) ==
    LET step(r) ==
          IF s[r.i] = Slash /\ At(s, r.i + 1) = "n" THEN [i |-> r.i + 2, out |-> Append(r.out, "NL")]
          ELSE IF s[r.i] = Slash /\ At(s, r.i + 1) = Slash
               THEN [i |-> r.i + 2, out |-> Append(r.out, Slash)]
          ELSE [i |-> r.i + 1, out |-> Append(r.out, s[r.i])]
    IN Until(step, LAMBDA r : r.i > Len(s), [i |-> 1, out |-> <<>>]).out

(* nm_history_record: an entry moves to the front, the oldest one goes.     *)
Recorded(h, line) ==
    LET i == Where(LAMBDA e : e = line, h)
        others == IF i = 0 THEN h ELSE SubSeq(h, 1, i - 1) \o SubSeq(h, i + 1, Len(h))
        kept == IF Len(others) = HistoryMax THEN SubSeq(others, 1, HistoryMax - 1) ELSE others
    IN IF line = <<>> THEN h ELSE <<line>> \o kept

(* nm_history_save: the oldest entry first, a line each.                    *)
HistoryFile(h) ==
    Joined([i \in DOMAIN h |-> Escaped(h[Len(h) + 1 - i]) \o <<"NL">>])

(* nm_history_load: a line at a time, of at most LineMax - 1 bytes; a longer *)
(* one is taken in pieces, each an entry.                                   *)
HistoryLoaded(file) ==
    LET step(r) ==
          LET ends == {k \in r.i .. Len(file) : file[k] = "NL" \/ k - r.i = LineMax - 2}
              to == IF ends = {} THEN Len(file) ELSE CHOOSE k \in ends : \A j \in ends : k <= j
              line == SubSeq(file, r.i, IF file[to] = "NL" THEN to - 1 ELSE to)
          IN [i |-> to + 1, h |-> Recorded(r.h, Unescaped(line))]
    IN Until(step, LAMBDA r : r.i > Len(file), [i |-> 1, h |-> <<>>]).h

---------------------------------------------------------------------------
(* ~/.authinfo.                                                             *)

Space(c) == c \in {" ", "NL"}

(* next_token: [there, tok, to]; blanks and comments are passed over, and a *)
(* token is cut at the buffer it goes to.                                   *)
NextToken(s, i, cap) ==
    LET start == Until(LAMBDA k : IF s[k] = "#" THEN Until(LAMBDA n : n + 1, LAMBDA n : At(s, n) \in {"NL", "end"}, k)
                                  ELSE k + 1,
                       LAMBDA k : k > Len(s) \/ ~(Space(s[k]) \/ s[k] = "#"), i)
        quote == At(s, start) = Quote
        first == IF quote THEN start + 1 ELSE start
        end == Until(LAMBDA k : k + 1,
                     LAMBDA k : k > Len(s) \/ (IF quote THEN s[k] = Quote ELSE Space(s[k]) \/ s[k] = "#"),
                     first)
        all == SubSeq(s, first, end - 1)
    IN IF start > Len(s) THEN [there |-> FALSE, to |-> start]
       ELSE [there |-> TRUE, tok |-> SubSeq(all, 1, IF Len(all) < cap THEN Len(all) ELSE cap - 1),
             to |-> IF quote /\ end <= Len(s) THEN end + 1 ELSE end]

(* entry_flush: an entry with a password takes a slot, while there is one.  *)
Flushed(r) ==
    IF r.open /\ r.pending # <<>> /\ Len(r.slots) < SlotsMax
    THEN Append(r.slots, [machine |-> r.name, secret |-> r.pending]) ELSE r.slots

(* A pair of the scan: a machine opens an entry, a password fills it, and   *)
(* what does not fit its place counts as not written.                       *)
Paired(r, key, val) ==
    IF key \in {<<"machine">>, <<"default">>}
    THEN [r EXCEPT !.slots = Flushed(r), !.open = TRUE, !.pending = <<>>,
                   !.name = IF key = <<"machine">> /\ Len(val) < SecretMax THEN val ELSE <<>>]
    ELSE IF key = <<"password">> /\ r.open /\ val # <<>> /\ Len(val) < SecretMax
    THEN [r EXCEPT !.pending = val] ELSE r

(* slots_rebuild: a key takes one token as its value unless it holds one    *)
(* behind "=", and "default" takes none.                                    *)
Slots(s) ==
    LET step(r) ==
          LET t == NextToken(s, r.i, TokenMax + 1)
              eq == Where(LAMBDA c : c = "=", t.tok)
              v == NextToken(s, t.to, TokenMax)
          IN IF ~t.there THEN [r EXCEPT !.done = TRUE]
             ELSE IF eq > 0
             THEN [(IF eq - 1 < TokenMax
                    THEN Paired(r, SubSeq(t.tok, 1, eq - 1), SubSeq(t.tok, eq + 1, Len(t.tok)))
                    ELSE r) EXCEPT !.i = t.to]
             ELSE IF Len(t.tok) >= TokenMax THEN [r EXCEPT !.i = t.to]
             ELSE IF t.tok = <<"default">> THEN [Paired(r, t.tok, <<>>) EXCEPT !.i = t.to]
             ELSE IF ~v.there THEN [r EXCEPT !.done = TRUE]
             ELSE [Paired(r, t.tok, v.tok) EXCEPT !.i = v.to]
        r == Until(step, LAMBDA x : x.done,
                   [i |-> 1, done |-> FALSE, slots |-> <<>>, open |-> FALSE,
                    name |-> <<>>, pending |-> <<>>])
    IN Flushed(r)

(* nm_authinfo_password: the first slot of the machine.                     *)
Password(s, machine) ==
    LET n == Where(LAMBDA x : x.machine = machine, Slots(s))
    IN IF n = 0 THEN <<>> ELSE Slots(s)[n].secret
=============================================================================
