----------------------------- MODULE ChatStream -----------------------------
(***************************************************************************)
(* A streamed chat reply, src/src/openai_client.c: nm_openai_chat_step     *)
(* over a connection whose request is on the wire, the parser of its       *)
(* events, the dispatch of an event's parts to the agent's callbacks, the  *)
(* assembly of tool calls, the verdict at the end of the stream and the    *)
(* framing tail that is waited for behind [DONE].                          *)
(*                                                                         *)
(* A behaviour is one reply: the tokens the peer sends, what they say, and *)
(* how often it stops short of them, are constants; how the tokens arrive  *)
(* and when the connection closes is open.  The phases of the connection   *)
(* before the reply are module ConnectWalk's.                              *)
(***************************************************************************)
EXTENDS HttpBody, Sse, FiniteSets, SequencesExt

CONSTANTS
    Replies,   \* what a peer may send, see IsReply
    Unframed,  \* wire -> what it says behind each token, see IsUnframed
    Parsed,    \* wire -> what its bytes say, see IsParsed
    Said,      \* the text of an event -> the JSON object it holds
    BufMax,    \* READ_BUF_CAP, in tokens
    SinkMax,   \* the sink of the tail, in tokens
    ErrorMax,  \* ERROR_BODY_MAX - 1, in tokens
    Budget,    \* NM_CHAT_TAIL_BUDGET_MS, in ticks
    SegMax     \* bound: tokens in a segment that is not the last

ASSUME BuffersAssumption ==
    /\ BufMax \in Nat \ {0} /\ SinkMax \in Nat \ {0} /\ Budget \in Nat
    /\ \A e \in DOMAIN Said :
          ~Said[e].error => Said[e].calls \in Seq(ToSet(Said[e].calls))

VARIABLES
    reply,     \* the reply: [wire, marks, events]
    sent,      \* how much of reply.wire has arrived
    phase,     \* "none", "refused"; the connection: "connecting", "up",
               \* "failed"
    h          \* the NmChatStream

streamVars == <<reply, sent, phase, h>>

(* What the events of a round have added up to, and what has been told of   *)
(* them: log is the callbacks made.                                         *)
NoAnswer == [saw_done |-> FALSE, finished |-> FALSE, finish_reason |-> "",
             native_finish_reason |-> "", meta |-> "", slots |-> <<>>,
             details |-> <<>>, log |-> <<>>, delivered |-> <<>>]

(* A stream as nm_openai_chat_begin hands it out.  tail: ticks left of the  *)
(* budget, -1 before it is armed; result: what the last step returned.      *)
Begun == [conn |-> Fresh, sse |-> NewParser, preread |-> <<>>,
          head_checked |-> FALSE, error_mode |-> "no", error_len |-> 0,
          done |-> FALSE, tail |-> -1, answer |-> NoAnswer,
          result |-> "pending"]

Returns(s, result) == [s EXCEPT !.result = result]

(* stream_teardown: the connection and the parser are gone.                 *)
Ends(s, result) == [s EXCEPT !.result = result, !.done = TRUE,
                             !.conn = Fresh, !.sse = NewParser,
                             !.preread = <<>>]

-----------------------------------------------------------------------------
(* handle_event.                                                            *)

First(old, new) == IF old = "" THEN new ELSE old
One(what, x)    == IF x = "" THEN <<>> ELSE <<<<what, x>>>>

(* The callbacks of one chunk, in the order the code makes them.            *)
Told(j) == One("usage", j.usage) \o One("reasoning", j.reasoning)
           \o One("content", j.content)
           \o [i \in 1 .. Len(j.images) |-> <<"image", j.images[i]>>]

(* Mutant: fragments are told apart by the wire's index alone.              *)
ContinuesByIndex(slot, f) == slot.index = f.index

(* A fragment continues a call of its index, unless both carry an id and    *)
(* the ids differ.                                                          *)
Continues(slot, f) == /\ slot.index = f.index
                      /\ f.id = "" \/ slot.id = "" \/ slot.id = f.id

NewSlot(f) == [index |-> f.index, id |-> "", name |-> "", args |-> <<>>]

(* One fragment of a tool call: the first slot it continues, or a new one.  *)
Fragment(calls, f) ==
    LET at   == Where(LAMBDA c : Continues(c, f), calls)
        open == IF at = 0 THEN Append(calls, NewSlot(f)) ELSE calls
        k    == IF at = 0 THEN Len(open) ELSE at
    IN IF f.index < 0 THEN calls
       ELSE [open EXCEPT ![k].args = @ \o f.args,
                         ![k].name = First(@, f.name),
                         ![k].id = First(@, f.id)]

Chunk(a, j) ==
    [a EXCEPT !.finished = @ \/ j.finish # "",
              !.finish_reason = First(@, j.finish),
              !.native_finish_reason = First(@, j.native),
              !.meta = First(@, j.served),
              !.slots = Over(Fragment, @, j.calls),
              !.details = @ \o j.details,
              !.log = @ \o Told(j)]

Done == <<"[DONE]">>

(* Text that is no JSON is passed over.                                     *)
Event(s, text) ==
    IF text = Done THEN [s EXCEPT !.answer.saw_done = TRUE]
    ELSE IF text \notin DOMAIN Said THEN s
    ELSE IF Said[text].error THEN Ends(s, "http")
    ELSE [s EXCEPT !.answer = Chunk(@, Said[text])]

(* feed_and_dispatch: every event the bytes complete, until one ends the    *)
(* stream.  A feed takes a byte at least.                                   *)
DispatchStops(s) == s.done \/ s.answer.saw_done \/ s.sse.hold = <<>>

DispatchTurn(s) ==
    LET r == SseFeed(s.sse, <<>>)
        t == [s EXCEPT !.sse = r.p]
    IN CASE DispatchStops(s) -> s
         [] ~DispatchStops(s) /\ r.emitted -> Event(t, r.data)
         [] ~DispatchStops(s) /\ ~r.emitted -> t

(* Mutant: one event a call; the rest waits for more bytes.                 *)
DispatchedOne(s, bytes) == DispatchTurn([s EXCEPT !.sse.hold = @ \o bytes])

Dispatched(s, bytes) ==
    LET t == [s EXCEPT !.sse.hold = @ \o bytes]
    IN IF bytes = <<>> THEN s
       ELSE Turns(Eights(Len(t.sse.hold)), DispatchTurn, DispatchStops, t)

-----------------------------------------------------------------------------
(* The end of the stream: the framing is over, or only its tail is missing. *)

(* Mutant: the framing's end is the answer's end.                           *)
VerdictKind(s) == Ends([s EXCEPT !.answer.delivered = s.answer.slots], "ok")

(* The details of the reasoning are told whole, behind everything else.     *)
DetailsTold(details) ==
    IF details = <<>> THEN <<>> ELSE <<<<"details">> \o details>>

(* Neither [DONE] nor a finish_reason: what arrived is delivered, and the   *)
(* round fails.                                                             *)
Verdict(s) ==
    Ends([s EXCEPT !.answer.log = @ \o DetailsTold(s.answer.details),
                   !.answer.delivered = s.answer.slots,
                   !.answer.slots = <<>>],
         IF s.answer.saw_done \/ s.answer.finished THEN "ok" ELSE "transport")

(* Mutant: every gap in the tail gets a new budget.                         *)
TailWaitsAgain(s) == Returns([s EXCEPT !.tail = Budget], "pending")

(* The tail would block: its budget is armed once, by the first gap.        *)
TailWaits(s) ==
    CASE s.tail = -1 -> Returns([s EXCEPT !.tail = Budget], "pending")
      [] s.tail > 0 -> Returns(s, "pending")
      [] s.tail = 0 -> Verdict(s)

(* tail_step: what is here of the framing is read and dropped.              *)
TailTurn(s) ==
    LET r == ReadBody(s.conn, SinkMax)
        t == [s EXCEPT !.conn = r.c]
    IN IF s.result # "go" THEN s ELSE
       CASE r.ret = "data" -> t
         [] r.ret \in {"end", "error"} -> Verdict(t)
         [] r.ret = "block" -> TailWaits(t)

(* A loop of reads ends with the first that is not "go"; the others take a  *)
(* byte at least.                                                           *)
Unread(s) == Len(s.conn.net) + Len(s.conn.scratch)
Loop(turn(_), s) == Turns(Eights(Unread(s)), turn, LAMBDA t : t.result # "go", s)

TailStep(s) ==
    IF ~s.conn.resp.chunked THEN Verdict(s)
    ELSE Loop(TailTurn, Returns(s, "go"))

-----------------------------------------------------------------------------
(* stream_one_step: drain what is there.                                    *)

Fed(s, bytes) ==
    LET t == Dispatched(s, bytes)
    IN IF t.answer.saw_done /\ ~t.done THEN TailStep(t) ELSE t

StreamTurn(s) ==
    LET r == ReadBody(s.conn, BufMax)
        t == [s EXCEPT !.conn = r.c]
    IN IF s.result # "go" THEN s ELSE
       CASE r.ret = "block" -> Returns(t, "pending")
         [] r.ret = "error" -> Ends(t, "transport")
         [] r.ret = "end" -> Verdict(t)
         [] r.ret = "data" -> Fed(t, r.out)

StreamStep(s) ==
    LET first == Fed([Returns(s, "go") EXCEPT !.preread = <<>>], s.preread)
    IN Loop(StreamTurn, first)

(* error_drain_step: a body that is no event stream is read for the         *)
(* message, up to its cap.                                                  *)
ErrorAdds(s, n) ==
    LET len == Least(s.error_len + n, ErrorMax)
        t   == [s EXCEPT !.error_len = len]
    IN IF len = ErrorMax THEN Ends(t, s.error_mode) ELSE t

ErrorTurn(s) ==
    LET r == ReadBody(s.conn, BufMax)
        t == [s EXCEPT !.conn = r.c]
    IN IF s.result # "go" THEN s ELSE
       CASE r.ret = "block" -> Returns(t, "pending")
         [] r.ret \in {"end", "error"} ->
              Ends(t, s.error_mode)
         [] r.ret = "data" -> ErrorAdds(t, Len(r.out))

ErrorDrain(s) ==
    LET first == ErrorAdds([Returns(s, "go") EXCEPT !.preread = <<>>],
                           Len(s.preread))
    IN Loop(ErrorTurn, first)

IsStream(resp) == /\ resp.status \in 200 .. 299
                  /\ resp.content_type = "event-stream"

(* The head is here: its verdict, once.                                     *)
HeadCheck(s) ==
    LET t == [s EXCEPT !.head_checked = TRUE]
    IN IF IsStream(s.conn.resp)
       THEN StreamStep(t)
       ELSE ErrorDrain([t EXCEPT !.error_mode =
                           IF s.conn.resp.status \in {401, 403} THEN "auth"
                                                           ELSE "http"])

(* head_pull_step: body bytes that come with the head are kept aside until  *)
(* the verdict.                                                             *)
HeadPull(s) ==
    LET r == ReadBody(s.conn, BufMax)
        t == [s EXCEPT !.conn = r.c]
    IN CASE r.ret = "block" -> Returns(t, "pending")
         [] r.ret = "error" -> Ends(t, "transport")
         [] OTHER -> HeadCheck([t EXCEPT !.preread = r.out])

(* chat_step_impl.                                                          *)
ChatStep(s) ==
    CASE s.done -> s
      [] ~s.done /\ phase = "connecting" -> Returns(s, "pending")
      [] ~s.done /\ phase = "failed" -> Ends(s, "transport")
      [] ~s.done /\ phase = "up" ->
           CASE s.error_mode # "no" -> ErrorDrain(s)
             [] s.error_mode = "no" /\ s.head_checked ->
                  IF s.answer.saw_done THEN TailStep(s) ELSE StreamStep(s)
             [] s.error_mode = "no" /\ ~s.head_checked ->
                  IF s.conn.resp.status = 0 THEN HeadPull(s) ELSE HeadCheck(s)

-----------------------------------------------------------------------------
StreamInit == /\ reply \in Replies
        /\ sent = 0 /\ phase = "none"
        /\ h = Begun

(* nm_openai_chat_begin: no endpoint, no model, a base URL that is none, no *)
(* connection or a request that cannot be queued refuse the stream.         *)
Begin == /\ phase = "none"
         /\ phase' \in {"connecting", "refused"}
         /\ UNCHANGED <<reply, sent, h>>

Connects == /\ phase = "connecting" /\ ~h.done
            /\ phase' \in {"up", "failed"}
            /\ UNCHANGED <<reply, sent, h>>

(* The peer's next bytes.  What arrives before the loop wakes is one        *)
(* segment to the client, so a segment comes when the last one is read.     *)
Arrive(n) == /\ phase = "up" /\ ~h.done /\ ~h.conn.closed
             /\ h.conn.net = <<>>
             /\ \/ n <= SegMax /\ sent + n <= Len(reply.wire)
                \/ sent + n = Len(reply.wire)
             /\ sent' = sent + n
             /\ h' = [h EXCEPT !.conn.net =
                         @ \o SubSeq(reply.wire, sent + 1, sent + n)]
             /\ UNCHANGED <<reply, phase>>

(* The peer closes, wherever it is in its reply.                            *)
PeerCloses == /\ phase = "up" /\ ~h.done /\ ~h.conn.closed
              /\ h' = [h EXCEPT !.conn.closed = TRUE]
              /\ UNCHANGED <<reply, sent, phase>>

(* What wakes the loop: the socket, the connection's verdict, the budget.   *)
Wakes == phase = "failed" \/ h.conn.net # <<>> \/ h.conn.closed \/ h.tail = 0

Step == /\ ~h.done /\ Wakes
        /\ h' = ChatStep(h)
        /\ UNCHANGED <<reply, sent, phase>>

Tick == /\ ~h.done /\ h.tail > 0
        /\ h' = [h EXCEPT !.tail = @ - 1]
        /\ UNCHANGED <<reply, sent, phase>>

(* nm_openai_chat_end: the agent lets go of the stream.                     *)
ChatEnd == /\ ~h.done /\ phase \in {"connecting", "up", "failed"}
           /\ h' = Ends(Begun, "ended")
           /\ UNCHANGED <<reply, sent, phase>>

StreamNext == \/ Begin \/ Connects \/ PeerCloses \/ Step \/ Tick \/ ChatEnd
        \/ \E n \in 1 .. Len(reply.wire) : Arrive(n)

(* The clock runs, and the loop steps a stream that is ready or due: weak   *)
(* fairness of Step, with ENABLED Step written out.                         *)
StreamFairness == /\ []<>~(~h.done /\ Wakes) \/ []<><<Step>>_streamVars
            /\ WF_streamVars(Tick)

StreamSpec == StreamInit /\ [][StreamNext]_streamVars /\ StreamFairness

-----------------------------------------------------------------------------
(* What a wire says, read a token at a time and kept in no buffer: the      *)
(* bytes its framing holds, and the events they complete.                   *)

HeadDone(w) == IF HeadEnd(w) = 0 THEN Fresh
               ELSE HeadRead([Fresh EXCEPT !.scratch = w])

ByteRead(resp, x, b) ==
    IF ~resp.chunked THEN [x EXCEPT !.out = Append(@, b)]
    ELSE IF x.body.err # "none" \/ x.body.chunk_state = "done" THEN x
    ELSE IF x.body.chunk_state = "data"
    THEN [body |-> DataTaken(x.body, 1), out |-> Append(x.out, b)]
    ELSE [x EXCEPT !.body = FramingByte(@, b)]

(* read: the dechunking machine and the bytes it has let through, behind    *)
(* each token of w.                                                         *)
IsUnframed(w, read) ==
    LET c == HeadDone(w)
        e == IF c.body_started THEN HeadEnd(w) ELSE Len(w)
    IN \A n \in 0 .. Len(w) :
          read[n] = IF n <= e THEN [body |-> c.body, out |-> <<>>]
                              ELSE ByteRead(c.resp, read[n - 1], w[n])

(* parsed: the parser behind each byte, and how many events are complete.   *)
ParsedByte(x, b) ==
    LET y == SseByte(x.p, b)
    IN [p |-> y.p, emitted |-> y.emitted, data |-> y.data,
        events |-> IF y.emitted THEN x.events + 1 ELSE x.events]

IsParsed(bytes, parsed) ==
    /\ parsed[0] = [p |-> NewParser, emitted |-> FALSE, data |-> <<>>,
                    events |-> 0]
    /\ \A m \in 1 .. Len(bytes) :
          parsed[m] = ParsedByte(parsed[m - 1], bytes[m])

(* The marks and the events of r are its wire's: events[i] is complete at   *)
(* the token marks[i].                                                      *)
SaysItsEvents(r) ==
    LET read   == Unframed[r.wire]
        bytes  == read[Len(r.wire)].out
        parsed == Parsed[r.wire]
        stream == IsStream(HeadDone(r.wire).resp)
    IN /\ IsUnframed(r.wire, read)
       /\ IsParsed(bytes, parsed)
       /\ DOMAIN r.marks = DOMAIN r.events
       /\ \A n \in 0 .. Len(r.wire) :
             {i \in DOMAIN r.marks : r.marks[i] <= n}
             = 1 .. (IF stream THEN parsed[Len(read[n].out)].events ELSE 0)
       /\ \A m \in 1 .. Len(bytes) :
             stream /\ parsed[m].emitted
                => r.events[parsed[m].events] = parsed[m].data

(* What the events of a round mean: the callbacks they call for, the        *)
(* details behind them, the fragments of calls.                             *)
Closing(e) == e = Done \/ (e \in DOMAIN Said /\ Said[e].error)

WithEvent(x, e) ==
    IF e \notin DOMAIN Said \/ Closing(e) THEN x
    ELSE [told    |-> x.told \o Told(Said[e]),
          details |-> x.details \o Said[e].details,
          calls   |-> x.calls \o Said[e].calls]

Meaning(events) ==
    LET upto[n \in 0 .. Len(events)] ==
          IF n = 0 THEN [told |-> <<>>, details |-> <<>>, calls |-> <<>>]
          ELSE WithEvent(upto[n - 1], events[n])
    IN upto

(* The wire says whose a fragment is, which the client does not see; what   *)
(* the client sees tells the calls apart: those of one index have their ids *)
(* on every fragment.                                                       *)
CallsAreApart(fragments) ==
    \A i \in DOMAIN fragments :
        /\ fragments[i].index \in Nat
        /\ \A j \in 1 .. i - 1 :
             LET f == fragments[i]
                 g == fragments[j]
             IN IF f.of = g.of
                THEN f.index = g.index /\ (f.id = "" \/ g.id = "" \/ f.id = g.id)
                ELSE f.index = g.index
                        => f.id # "" /\ g.id # "" /\ f.id # g.id

(* What a peer may send: no more bytes than it has announced.               *)
IsReply(r) ==
    /\ r.wire \in Seq(ToSet(r.wire))
    /\ r.events \in Seq(ToSet(r.events))
    /\ LET c == HeadDone(r.wire)
       IN c.body_started /\ ~c.resp.chunked
             => \A n \in 0 .. Len(c.scratch) - 1 :
                   ~Complete([c EXCEPT !.body_read = n])
    /\ SaysItsEvents(r)
    /\ CallsAreApart(Meaning(r.events)[Len(r.events)].calls)

ASSUME ReplyAssumption == \A r \in Replies : IsReply(r)

-----------------------------------------------------------------------------
(* The events that have arrived whole, up to [DONE] or an error.            *)
Heard == {i \in DOMAIN reply.marks :
            /\ reply.marks[i] <= sent
            /\ \A k \in 1 .. i - 1 : ~Closing(reply.events[k])}

Meant == Meaning(reply.events)[Cardinality(Heard)]

(* However the reply is cut into segments, and wherever its chunks end, the *)
(* agent has been told exactly what has arrived whenever the loop waits:    *)
(* nothing twice, nothing out of order, no event stranded in a buffer with  *)
(* nothing left to wake the loop.  (stream_one_step, nm_socket_read_body,   *)
(* nm_sse_feed.)                                                            *)
ToldWhatArrived ==
    phase = "up" /\ h.result = "pending" /\ ~h.done /\ ~Wakes
        => h.answer.log = Meant.told

(* A reply is a success only when its end was heard: [DONE], or a           *)
(* finish_reason and a clean end of the framing; then everything in front   *)
(* of it was told, the reasoning's details last, and no reply the peer cut  *)
(* short passes for an answer.                                              *)
OnlyWholeRepliesSucceed ==
    h.result = "ok" =>
        /\ \E i \in Heard : \/ reply.events[i] = Done
                            \/ /\ reply.events[i] \in DOMAIN Said
                               /\ Said[reply.events[i]].finish # ""
        /\ h.answer.log = Meant.told \o DetailsTold(Meant.details)

(* The call k of a wire, put together from the fragments that are its own.  *)
CallOf(fragments, k) ==
    LET upto[n \in 0 .. Len(fragments)] ==
          IF n = 0 THEN [args |-> <<>>, name |-> "", id |-> ""]
          ELSE LET c == upto[n - 1]
                   f == fragments[n]
               IN IF f.of # k THEN c
                  ELSE [args |-> c.args \o f.args,
                        name |-> First(c.name, f.name),
                        id   |-> First(c.id, f.id)]
    IN upto[Len(fragments)]

(* Each tool call reaches the agent with its own arguments, whole, in order *)
(* and under its own id, also when parallel calls come interleaved or all   *)
(* under index 0.                                                           *)
CallsWhole ==
    h.result = "ok" =>
        {[args |-> c.args, name |-> c.name, id |-> c.id] :
            c \in ToSet(h.answer.delivered)}
        = {CallOf(Meant.calls, f.of) : f \in ToSet(Meant.calls)}

(* Once [DONE] is dispatched the round ends, whatever the peer still does   *)
(* or leaves undone with the rest of its framing.                           *)
TailEnds == h.answer.saw_done ~> h.done

(* And it ends well: the answer is there, so no fault of the framing behind *)
(* it fails the round (the comment on tail_step, openai_client.c:936-940).  *)
FaultBehindDoneIsHarmless ==
    h.done /\ (\E i \in Heard : reply.events[i] = Done)
        => h.result \in {"ok", "ended"}
=============================================================================
