----------------------------- MODULE Scrollback -----------------------------
(***************************************************************************)
(* What the chat puts into the transcript while an agent runs             *)
(* (chat_app.c, sysout.c): the two streams of an answer, of which a        *)
(* trailing run of line breaks is held back until text follows it, the     *)
(* blank row owed to text that was shown, the caption of a picture, a      *)
(* tool's plan and result, and the notices.  A post goes to a stream, ends *)
(* one ("end"), or is a row of the program's own.                          *)
(***************************************************************************)
EXTENDS Repeat

Breaks == {"NL", "CR"}
Streams == {"content", "reasoning"}
Silent == [posts |-> <<>>, hold |-> [stream \in Streams |-> <<>>], reasoning |-> FALSE,
           owed |-> FALSE, running |-> FALSE, hinted |-> FALSE]

Post(s, to, text) == [s EXCEPT !.posts = Append(@, [to |-> to, text |-> text])]
Row(s, what) == Post(s, what, <<>>)
Blank(s) == Row(s, "blank")

(* emit_separator                                                          *)
EmitSeparator(s) == IF s.owed THEN Blank([s EXCEPT !.owed = FALSE]) ELSE s

HoldAppend(s, stream, run) == [s EXCEPT !.hold[stream] = @ \o run]
HoldFlush(s, stream) ==
    IF s.hold[stream] = <<>> THEN s
    ELSE [Post(s, stream, s.hold[stream]) EXCEPT !.hold[stream] = <<>>]
HoldDiscard(s, stream) == [s EXCEPT !.hold[stream] = <<>>]

(* The length of text without the line breaks it ends in.                  *)
BodyLen(text) ==
    LET ends == {n \in 0 .. Len(text) : \A i \in n + 1 .. Len(text) : text[i] \in Breaks}
    IN CHOOSE n \in ends : \A other \in ends : n <= other

(* Mutant: what was held is shown behind the text that follows it.         *)
StreamTextFirst(s, stream, text) ==
    LET body == BodyLen(text)
        shown == HoldFlush(Post([s EXCEPT !.owed = TRUE], stream, SubSeq(text, 1, body)), stream)
    IN HoldAppend(IF body = 0 THEN s ELSE shown, stream, SubSeq(text, body + 1, Len(text)))

(* stream_text: the body with one line break; the rest of the run waits.   *)
StreamText(s, stream, text) ==
    LET speaking == [s EXCEPT !.reasoning = @ \/ stream = "reasoning"]
        body == BodyLen(text)
        tail == SubSeq(text, body + 1, Len(text))
        term == IF tail = <<>> THEN 0
                ELSE IF Len(tail) >= 2 /\ SubSeq(tail, 1, 2) = <<"CR", "NL">> THEN 2 ELSE 1
        shown == Post(HoldFlush(speaking, stream), stream, SubSeq(text, 1, body + term))
    IN IF body = 0 THEN HoldAppend(speaking, stream, text)
       ELSE HoldAppend([shown EXCEPT !.owed = TRUE], stream, SubSeq(tail, term + 1, Len(tail)))

End(s, stream) == Post(s, "end", <<stream>>)

(* close_reasoning_phase                                                   *)
CloseReasoning(s) ==
    IF ~s.reasoning THEN s
    ELSE EmitSeparator(HoldDiscard(End([s EXCEPT !.reasoning = FALSE], "reasoning"), "reasoning"))

(* stream_end_all                                                          *)
EndAll(s) ==
    LET ended == End(End([s EXCEPT !.reasoning = FALSE], "content"), "reasoning")
    IN EmitSeparator(HoldDiscard(HoldDiscard(ended, "content"), "reasoning"))

(* show_received_image: the caption, the picture, and once a hint.         *)
ShowReceived(s) ==
    LET shown == Row(Row(s, "caption"), "picture")
    IN IF s.hinted THEN shown ELSE Row([shown EXCEPT !.hinted = TRUE], "hint")

(* nm_chat_app_on_delta                                                    *)
OnDelta(s, channel, text) ==
    CASE channel = "image" -> ShowReceived(CloseReasoning(s))
      [] channel = "content" -> StreamText(CloseReasoning(s), "content", text)
      [] channel = "reasoning" -> StreamText(s, "reasoning", text)

(* sys_tool_result: a row for every line of the output, those of a         *)
(* reminder set apart, the first told to be an error.                      *)
ResultRows(output, ok) ==
    LET lineEnd(from) ==
          LET at == Where(LAMBDA c : c = "NL", SubSeq(output, from, Len(output)))
          IN IF at = 0 THEN Len(output) + 1 ELSE from + at - 1
        step(r) ==
          LET stop == lineEnd(r.at)
              whole == SubSeq(output, r.at, stop - 1)
              line == IF whole # <<>> /\ whole[Len(whole)] = "CR"
                      THEN SubSeq(whole, 1, Len(whole) - 1) ELSE whole
              inside == r.inside \/ line = <<"<reminder>">>
          IN [at |-> stop + 1, inside |-> inside /\ line # <<"</reminder>">>,
              rows |-> Append(r.rows, [text |-> line, reminder |-> inside,
                                       error |-> ~ok /\ r.rows = <<>>])]
    IN Until(step, LAMBDA r : r.rows # <<>> /\ r.at > Len(output),
             [at |-> 1, inside |-> FALSE, rows |-> <<>>]).rows

(* nm_chat_app_on_tool: one blank row closes the block; with a picture     *)
(* only one that is owed.                                                  *)
ToolStarts(s) == [Row(EndAll(s), "plan") EXCEPT !.running = TRUE]
ToolEnds(s, picture) ==
    LET told == [Row(s, "result") EXCEPT !.running = FALSE]
    IN IF picture THEN EmitSeparator(Row(told, "picture")) ELSE Blank(told)

(* nm_chat_app_on_state                                                    *)
OnState(s, state) ==
    LET closed == IF state # "done" /\ s.running THEN Blank(s) ELSE s
        ended == EndAll(closed)
    IN [(IF state = "done" THEN ended ELSE Row(ended, state)) EXCEPT !.running = FALSE]

(* nm_sysout_vnotice with the transcript's close_run.                      *)
Notice(s) == Blank(Row(EndAll(s), "notice"))
=============================================================================
