------------------------------ MODULE HttpBody ------------------------------
(***************************************************************************)
(* How src/src/transport_socket.c takes a response off a connection:       *)
(* nm_socket_read_body with its head parser and its dechunking machine.    *)
(*                                                                         *)
(* A connection is a record and an operation maps it to the next one, so   *)
(* that a client (ChatStream) can hold it in its own state.  The wire is a *)
(* sequence of tokens: a head line is one token and so is the blank line   *)
(* that ends the head; behind it a token is one byte.  A chunk size is     *)
(* kept in an int of 2 * Half values, as in the code it is of 2^32.        *)
(***************************************************************************)
EXTENDS Loops

CONSTANTS
    ScratchMax,  \* sizeof conn->scratch, in tokens
    HeadersMax,  \* NM_RESPONSE_HEADERS_MAX
    Half,        \* 2^31
    SizeMax,     \* the 512 MB a chunk may announce
    Digit,       \* the hex digits: token -> value
    HeadLine     \* head tokens: token -> [is, number, text]

ASSUME SizesAssumption ==
    /\ ScratchMax \in Nat \ {0} /\ Half \in Nat /\ ScratchMax < Half
    /\ \A d \in DOMAIN Digit : Digit[d] \in Nat

EndOfHead == "END"

(* A connection whose request is on the wire.  net: what the socket holds   *)
(* and nobody has read; scratch: head bytes, later the pending ones; resp:  *)
(* what the head said; body: the dechunking machine and the headers kept.   *)
Fresh == [net |-> <<>>, closed |-> FALSE, scratch |-> <<>>,
          body_started |-> FALSE,
          resp |-> [status |-> 0, chunked |-> FALSE, content_len |-> -1,
                    content_type |-> "none", headers |-> <<>>],
          body_read |-> 0,
          body |-> [chunk_state |-> "size", chunk_remaining |-> 0,
                    trailer_line |-> <<>>, headers |-> <<>>, err |-> "none"],
          err |-> "none"]

Least(a, b) == IF a < b THEN a ELSE b
Taken(s, n) == SubSeq(s, 1, Least(n, Len(s)))
Left(s, n)  == SubSeq(s, Least(n, Len(s)) + 1, Len(s))

(* nm_conn_read: what is there, up to n tokens, appended to the scratch.    *)
Recv(c, n) == [c EXCEPT !.scratch = @ \o Taken(c.net, n),
                        !.net = Left(@, n)]

-----------------------------------------------------------------------------
(* resp_hdr_store: the first HeadersMax lines with a name are kept.         *)
Stored(x, line) ==
    IF Len(x.headers) >= HeadersMax \/ HeadLine[line].is = "noise"
    THEN x ELSE [x EXCEPT !.headers = Append(@, line)]

(* One line of the head behind the status line.                             *)
HeadLineRead(resp, line) ==
    LET d == Stored(resp, line)
    IN CASE HeadLine[line].is = "chunked" -> [d EXCEPT !.chunked = TRUE]
         [] HeadLine[line].is = "length" ->
              [d EXCEPT !.content_len = HeadLine[line].number]
         [] HeadLine[line].is = "type" ->
              [d EXCEPT !.content_type = HeadLine[line].text]
         [] OTHER -> d

HeadEnd(s) == Where(LAMBDA t : t = EndOfHead, s)

(* parse_head: "incomplete", "malformed", or the head read, its leftover    *)
(* bytes pending.                                                           *)
HeadVerdict(c) ==
    IF HeadEnd(c.scratch) = 0
    THEN IF Len(c.scratch) >= ScratchMax THEN "malformed" ELSE "incomplete"
    ELSE IF /\ HeadLine[c.scratch[1]].is = "status"
            /\ HeadLine[c.scratch[1]].number \in 100 .. 599
         THEN "whole" ELSE "malformed"

(* What a head says, its lines before the blank one.                        *)
HeadSays(head) ==
    Over(HeadLineRead,
         [Fresh.resp EXCEPT !.status = HeadLine[head[1]].number], Tail(head))

HeadRead(c) ==
    LET e == HeadEnd(c.scratch)
        d == HeadSays(SubSeq(c.scratch, 1, e - 1))
    IN [c EXCEPT !.body_started = TRUE, !.resp = d,
                 !.body.headers = d.headers, !.scratch = Left(@, e)]

-----------------------------------------------------------------------------
(* What a call of nm_read_body hands back: bytes ("data"), would-block, the *)
(* framing's end, an error.                                                 *)
Gives(c, ret, out) == [c |-> c, ret |-> ret, out |-> out]
Fails(c, why)      == Gives([c EXCEPT !.err = why], "error", <<>>)
EndOrData(c, out)  == Gives(c, IF out = <<>> THEN "end" ELSE "data", out)

(* One turn of the loop that reads a head.                                  *)
HeadTurn(r) ==
    LET c == r.c
        v == HeadVerdict(c)
        n == ScratchMax - Len(c.scratch)
    IN CASE v = "whole" -> [r EXCEPT !.c = HeadRead(c)]
         [] v = "malformed" -> Fails(c, "protocol")
         [] v = "incomplete" /\ c.net # <<>> -> [r EXCEPT !.c = Recv(c, n)]
         [] v = "incomplete" /\ c.net = <<>> ->
              IF c.closed THEN Fails(c, "closed") ELSE Gives(c, "block", <<>>)

(* A body that is not chunked: whole by its length, or by the peer's close. *)
Complete(c) == c.resp.content_len >= 0 /\ c.body_read >= c.resp.content_len

PlainRead(c, cap) ==
    LET d == IF c.scratch = <<>> THEN Recv(c, cap) ELSE c
        n == Len(Taken(d.scratch, cap))
    IN IF Complete(c) THEN Gives(c, "end", <<>>)
       ELSE IF n > 0
       THEN Gives([d EXCEPT !.scratch = Left(@, cap), !.body_read = @ + n],
                  "data", Taken(d.scratch, cap))
       ELSE IF ~c.closed THEN Gives(c, "block", <<>>)
       ELSE IF c.resp.content_len < 0 THEN Gives(c, "end", <<>>)
                                      ELSE Fails(c, "closed")

-----------------------------------------------------------------------------
(* An int, as the build wraps it.                                           *)
Int32(n) == ((n + Half) % (2 * Half)) - Half

(* f is the machine, b the byte it reads.                                   *)
Bad(f) == [f EXCEPT !.err = "protocol"]

SizeEnd(f) == [f EXCEPT !.chunk_state =
                  IF f.chunk_remaining = 0 THEN "trailer" ELSE "data",
               !.trailer_line = <<>>]

(* A byte of the size line; the rest of the line behind ';' is skipped.     *)
SizeByte(f, b) ==
    LET n == Int32(f.chunk_remaining * 16 + Digit[b])
    IN CASE b \in DOMAIN Digit ->
              IF n > SizeMax THEN Bad(f) ELSE [f EXCEPT !.chunk_remaining = n]
         [] b = ";" -> [f EXCEPT !.chunk_state = "ext"]
         [] b = "LF" -> SizeEnd(f)
         [] b = "CR" -> f
         [] OTHER -> Bad(f)

DataEndByte(f, b) ==
    CASE b = "CR" -> f
      [] b = "LF" -> [f EXCEPT !.chunk_state = "size", !.chunk_remaining = 0]
      [] OTHER -> Bad(f)

TrailerByte(f, b) ==
    CASE b = "CR" -> f
      [] b = "LF" /\ f.trailer_line = <<>> -> [f EXCEPT !.chunk_state = "done"]
      [] b = "LF" /\ f.trailer_line # <<>> ->
           [Stored(f, f.trailer_line[1]) EXCEPT !.trailer_line = <<>>]
      [] OTHER -> [f EXCEPT !.trailer_line = Append(@, b)]

(* The switch on chunk_state, for a byte of the framing.                    *)
FramingByte(f, b) ==
    CASE f.chunk_state = "size"     -> SizeByte(f, b)
      [] f.chunk_state = "ext"      -> IF b = "LF" THEN SizeEnd(f) ELSE f
      [] f.chunk_state = "data_end" -> DataEndByte(f, b)
      [] f.chunk_state = "trailer"  -> TrailerByte(f, b)

(* n bytes of a chunk's data are handed over.                               *)
DataTaken(f, n) ==
    [f EXCEPT !.chunk_remaining = Int32(@ - n),
              !.chunk_state = IF f.chunk_remaining = n THEN "data_end" ELSE @]

(* Data bytes: as many as the chunk, the caller's room and the scratch      *)
(* allow.  The sizes are compared unsigned: a negative one is a huge one.   *)
DataRead(r, cap) ==
    LET left == r.c.body.chunk_remaining
        room == cap - Len(r.out)
        want == IF left < 0 THEN room ELSE Least(left, room)
        n    == Least(want, Len(r.c.scratch))
        out  == r.out \o Taken(r.c.scratch, n)
    IN Gives([r.c EXCEPT !.scratch = Left(@, n), !.body = DataTaken(@, n)],
             IF Len(out) = cap THEN "data" ELSE "go", out)

(* The framing reads one byte, the data as many as there are; decoded bytes *)
(* are handed over before the socket is asked again.                        *)
ChunkRecv(r) ==
    LET c == r.c
        n == IF c.body.chunk_state = "data" THEN ScratchMax ELSE 1
    IN CASE r.out # <<>> -> Gives(c, "data", r.out)
         [] r.out = <<>> /\ c.net # <<>> -> [r EXCEPT !.c = Recv(c, n)]
         [] r.out = <<>> /\ c.net = <<>> ->
              IF c.closed THEN Fails(c, "closed") ELSE Gives(c, "block", <<>>)

(* A byte of the framing; an error returns at once, and with it go the      *)
(* bytes this call has already decoded.                                     *)
FramingTurn(r) ==
    LET f == FramingByte(r.c.body, Head(r.c.scratch))
        d == [r.c EXCEPT !.scratch = Tail(@), !.body = f]
    IN CASE f.err # "none" -> Fails(d, f.err)
         [] f.err = "none" /\ f.chunk_state = "done" -> EndOrData(d, r.out)
         [] OTHER -> [r EXCEPT !.c = d]

ChunkTurn(r, cap) ==
    LET state == r.c.body.chunk_state
    IN CASE state = "done" -> EndOrData(r.c, r.out)
         [] state # "done" /\ r.c.scratch = <<>> -> ChunkRecv(r)
         [] state = "data" /\ r.c.scratch # <<>> -> DataRead(r, cap)
         [] OTHER -> FramingTurn(r)

-----------------------------------------------------------------------------
BodyTurn(r, cap) ==
    IF r.ret # "go" THEN r ELSE
    CASE ~r.c.body_started -> HeadTurn(r)
      [] r.c.body_started /\ r.c.resp.chunked -> ChunkTurn(r, cap)
      [] r.c.body_started /\ ~r.c.resp.chunked -> PlainRead(r.c, cap)

(* nm_socket_read_body into a buffer of cap bytes.  Every turn but the last *)
(* reads a byte, takes one off the socket or ends the head.                 *)
ReadBody(c, cap) ==
    Turns(Eights(2 * Len(c.net) + Len(c.scratch) + 2), LAMBDA r : BodyTurn(r, cap),
          LAMBDA r : r.ret # "go", Gives(c, "go", <<>>))
=============================================================================
