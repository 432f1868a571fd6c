------------------------------ MODULE MCReply ------------------------------
(* Replies of a few events each, written by an encoder: one text for the    *)
(* events, three line endings, three framings, chunks cut in odd places.    *)
EXTENDS ChatStream

Json == [error |-> FALSE, usage |-> "", reasoning |-> "", content |-> "",
         images |-> <<>>, finish |-> "", native |-> "", served |-> "",
         details |-> <<>>, calls |-> <<>>]
Frag(i, id, name, args, of) ==
    [index |-> i, id |-> id, name |-> name, args |-> args, of |-> of]

MCSaid ==
    [e \in {<<"a">>, <<"b", "NL", "c">>, <<"fin">>, <<"use">>, <<"err">>,
            <<"p1">>, <<"p2">>, <<"q1">>, <<"q2">>, <<"z">>} |->
       CASE e = <<"a">> -> [Json EXCEPT !.content = "A", !.reasoning = "R",
                                        !.served = "s1"]
         [] e = <<"b", "NL", "c">> -> [Json EXCEPT !.content = "B",
                                !.images = <<"i1", "i2">>, !.served = "s2"]
         [] e = <<"fin">> -> [Json EXCEPT !.finish = "stop", !.content = "F",
                                          !.details = <<"d">>]
         [] e = <<"use">> -> [Json EXCEPT !.usage = "U"]
         [] e = <<"err">> -> [Json EXCEPT !.error = TRUE]
         \* two calls by index, ids on the first fragments only
         [] e = <<"p1">> -> [Json EXCEPT !.calls =
                <<Frag(0, "x", "f", <<"1">>, 1), Frag(1, "y", "g", <<"2">>, 2)>>]
         [] e = <<"p2">> -> [Json EXCEPT !.finish = "tool_calls", !.calls =
                <<Frag(1, "", "", <<"3">>, 2), Frag(0, "", "", <<"4">>, 1)>>]
         \* two calls under index 0, ids on every fragment
         [] e = <<"q1">> -> [Json EXCEPT !.calls =
                <<Frag(0, "x", "f", <<"1">>, 1), Frag(0, "y", "g", <<"2">>, 2)>>]
         [] e = <<"q2">> -> [Json EXCEPT !.calls =
                <<Frag(0, "y", "", <<"3">>, 2), Frag(0, "x", "", <<"4">>, 1)>>]
         \* one call that comes whole
         [] e = <<"z">> -> [Json EXCEPT !.finish = "tool_calls", !.calls =
                <<Frag(0, "x", "f", <<"1">>, 1)>>]]

MCDigit == [d \in {"0", "1", "2", "3", "8"} |->
              CASE d = "0" -> 0 [] d = "1" -> 1 [] d = "2" -> 2
                [] d = "3" -> 3 [] d = "8" -> 8]

Line(is, n, text) == [is |-> is, number |-> n, text |-> text]
MCHeadLine ==
    [t \in {"200", "401", "500", "x9", "chunked", "length", "short",
            "sse", "json", "other", "noise"} |->
       CASE t = "200" -> Line("status", 200, "")
         [] t = "401" -> Line("status", 401, "")
         [] t = "500" -> Line("status", 500, "")
         [] t = "x9"  -> Line("status", 999, "")
         [] t = "chunked" -> Line("chunked", 0, "")
         [] t = "length" -> Line("length", 13, "")
         [] t = "short" -> Line("length", 2, "")
         [] t = "sse" -> Line("type", 0, "event-stream")
         [] t = "json" -> Line("type", 0, "json")
         [] t = "other" -> Line("other", 0, "")
         [] t = "noise" -> Line("noise", 0, "")]

-----------------------------------------------------------------------------
(* The encoder.  A token carries the number of the event it completes.      *)
Tok(t)     == [t |-> t, ends |-> 0]
Toks(s)    == [i \in DOMAIN s |-> Tok(s[i])]
Eol(crlf)  == CASE crlf = "LF" -> <<"LF">> [] crlf = "CR" -> <<"CR">>
                [] crlf = "CRLF" -> <<"CR", "LF">>

DataLines(e, eol) ==
    Joined([i \in DOMAIN e |-> IF e[i] = "NL" THEN <<>>
                                   ELSE <<"data", ":", " ", e[i]>> \o Eol(eol)])
EventToks(e, k, eol) ==
    LET blank == Eol(eol)
    IN Toks(DataLines(e, eol)) \o <<[t |-> blank[1], ends |-> k]>>
       \o Toks(Tail(blank))
Payload(es, eol) ==
    Joined([k \in DOMAIN es |-> EventToks(es[k], k, eol)])

(* Chunks of n bytes, of size line ext; the last one is what remains.       *)
SizeToks(n, ext) == Toks(<<ToString(n)>> \o ext \o <<"CR", "LF">>)
Chunks(p, n, ext, trailer) ==
    LET full == Len(p) \div n
        rest == Len(p) % n
        piece(i) == SizeToks(n, ext) \o SubSeq(p, (i - 1) * n + 1, i * n)
                    \o Toks(<<"CR", "LF">>)
        last == IF rest = 0 THEN <<>>
                ELSE SizeToks(rest, ext) \o SubSeq(p, full * n + 1, Len(p))
                     \o Toks(<<"CR", "LF">>)
    IN Joined([i \in 1 .. full |-> piece(i)]) \o last
       \o Toks(<<"0", "CR", "LF">> \o trailer \o <<"CR", "LF">>)

Reply(head, body, es) ==
    LET all == Toks(head \o <<"END">>) \o body
    IN [wire   |-> [i \in DOMAIN all |-> all[i].t],
        marks  |-> [k \in DOMAIN es |->
                       Where(LAMBDA t : t.ends = k, all)],
        events |-> es]

Streams3 == {<< <<"a">>, <<"b", "NL", "c">>, <<"fin">>, <<"use">>, Done >>,
             << <<"p1">>, <<"p2">>, Done, <<"a">> >>,
             << <<"q1">>, <<"junk">>, <<"q2">>, Done >>,
             << <<"z">>, <<"use">> >>, << <<"a">>, <<"err">>, Done >>}

MCReplies ==
    {Reply(<<"200", "other", "chunked", "sse">>,
           Chunks(Payload(es, eol), n, ext, tr), es) :
       es \in Streams3, eol \in {"LF", "CRLF"}, n \in {1, 3},
       ext \in {<<>>}, tr \in {<<"other", "CR", "LF">>}}
    \cup {Reply(<<"200", "sse", "chunked">>,
           Chunks(Payload(es, "CR"), 2, <<";", "x">>, <<>>), es) :
       es \in Streams3}
    \cup {Reply(<<"200", "sse">>, Payload(es, eol), es) :
       es \in Streams3, eol \in {"LF", "CR", "CRLF"}}
    \cup {LET es == << <<"fin">>, Done >> IN
          Reply(<<"200", "sse", "length">>, SubSeq(Payload(es, "LF"), 1, 12)
                \o Toks(<<"LF">>), es)}
    \cup {Reply(<<s, "json", "short">>, Toks(<<"{", "}">>), <<>>) :
          s \in {"200", "401", "500"}}
    \cup {Reply(<<"x9", "sse">>, <<>>, <<>>),
          Reply(<<"200", "sse", "chunked">>, Toks(<<"3", "3", "CR">>), <<>>),
          Reply(<<"500", "noise", "other", "other", "other", "other", "other">>,
                Toks(<<"{", "{", "{", "{", "{", "{">>), <<>>)}

(* A whole answer whose framing goes wrong behind [DONE].                   *)
MCFaulty ==
    {LET es   == << <<"fin">>, Done >>
         good == Chunks(Payload(es, "LF"), 3, <<>>, <<>>)
     IN Reply(<<"200", "sse", "chunked">>,
              SubSeq(good, 1, Len(good) - 5) \o Toks(<<"x">>), es)}

(* What the wires say, token by token.                                      *)
Written == {r.wire : r \in MCReplies \cup MCFaulty}

MCUnframed ==
    [w \in Written |->
       LET c     == HeadDone(w)
           e     == IF c.body_started THEN HeadEnd(w) ELSE Len(w)
           x0    == [body |-> c.body, out |-> <<>>]
           read  == Turns(Eights(Len(w) - e),
                          LAMBDA xs : IF e + Len(xs) > Len(w) THEN xs
                             ELSE Append(xs, ByteRead(c.resp, xs[Len(xs)],
                                                      w[e + Len(xs)])),
                          LAMBDA xs : e + Len(xs) > Len(w), <<x0>>)
       IN [n \in 0 .. Len(w) |-> IF n <= e THEN x0 ELSE read[n - e + 1]]]

MCParsed ==
    [w \in Written |->
       LET bytes == MCUnframed[w][Len(w)].out
           x0    == [p |-> NewParser, emitted |-> FALSE, data |-> <<>>,
                     events |-> 0]
           read  == Turns(Eights(Len(bytes)),
                          LAMBDA xs : IF Len(xs) > Len(bytes) THEN xs
                             ELSE Append(xs, ParsedByte(xs[Len(xs)],
                                                        bytes[Len(xs)])),
                          LAMBDA xs : Len(xs) > Len(bytes), <<x0>>)
       IN [m \in 0 .. Len(bytes) |-> read[m + 1]]]
=============================================================================
