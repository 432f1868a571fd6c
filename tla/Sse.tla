-------------------------------- MODULE Sse ---------------------------------
(***************************************************************************)
(* The incremental parser of server-sent events, src/src/sse.c.  A parser  *)
(* is a record; nm_sse_feed maps it, with the bytes that arrived, to the   *)
(* next one and to at most one event: what lies behind an event waits in   *)
(* `hold` for the next call.                                               *)
(*                                                                         *)
(* Tokens: a field name and a value are tokens of their own, the rest of   *)
(* the line (":", " ", "CR", "LF") is as on the wire.                      *)
(***************************************************************************)
EXTENDS Loops

(* nm_sse_new, and what nm_sse_reset rewinds to.                            *)
NewParser == [state |-> "name", name |-> <<>>, val |-> <<>>, data |-> <<>>,
              event |-> "", id |-> "", pending_cr |-> FALSE, hold |-> <<>>]

(* The line is over: the next one starts at its name.                       *)
NextLine(p) == [p EXCEPT !.state = "name", !.name = <<>>, !.val = <<>>]

TextOf(v) == IF v = <<>> THEN "empty" ELSE v[1]

(* A line with a field: data lines are joined, event and id replaced, a     *)
(* comment or an unknown name is dropped.                                   *)
FieldLine(p) ==
    CASE p.name = <<"data">> ->
           [p EXCEPT !.data = (IF @ = <<>> THEN @ ELSE Append(@, "NL")) \o p.val]
      [] p.name = <<"event">> -> [p EXCEPT !.event = TextOf(p.val)]
      [] p.name = <<"id">> -> [p EXCEPT !.id = TextOf(p.val)]
      [] OTHER -> p

HasEvent(p) == p.data # <<>> \/ p.event # "" \/ p.id # ""

(* What a byte makes of the parser, and the text of the event it completes. *)
Silent(p)      == [p |-> p, emitted |-> FALSE, data |-> <<>>]
Emits(p, data) == [p |-> p, emitted |-> TRUE, data |-> data]

(* process_line_end: a blank line emits what has gathered.                  *)
LineEnd(p) ==
    LET blank == p.state = "name" /\ p.name = <<>>
    IN CASE blank /\ HasEvent(p) ->
              Emits([NextLine(p) EXCEPT !.data = <<>>, !.event = "", !.id = ""],
                    p.data)
         [] blank /\ ~HasEvent(p) -> Silent(NextLine(p))
         [] OTHER -> Silent(NextLine(FieldLine(p)))

(* A byte that ends no line.                                                *)
FieldByte(p, b) ==
    CASE p.state = "name" /\ b = ":" -> [p EXCEPT !.state = "colon"]
      [] p.state = "name" /\ b # ":" -> [p EXCEPT !.name = Append(@, b)]
      [] p.state = "colon" /\ b = " " -> [p EXCEPT !.state = "val"]
      [] OTHER -> [p EXCEPT !.state = "val", !.val = Append(@, b)]

(* One byte: CR ends a line at once, and an LF behind it belongs to it,     *)
(* also when it comes with the next call.                                   *)
SseByte(p, b) ==
    CASE b = "CR" -> LineEnd([p EXCEPT !.pending_cr = TRUE])
      [] b = "LF" /\ p.pending_cr -> Silent([p EXCEPT !.pending_cr = FALSE])
      [] b = "LF" /\ ~p.pending_cr -> LineEnd(p)
      [] OTHER -> Silent(FieldByte([p EXCEPT !.pending_cr = FALSE], b))

(* The bytes are all read, or an event is complete.                         *)
SseStops(r, all) == r.emitted \/ r.at > Len(all)

(* The byte at r.at; behind an event the rest is kept for the next call.    *)
SseTurn(r, all) ==
    LET x == SseByte(r.p, all[r.at])
    IN IF SseStops(r, all) THEN r ELSE
       [p |-> IF x.emitted
              THEN [x.p EXCEPT !.hold = SubSeq(all, r.at + 1, Len(all))]
              ELSE x.p,
        at |-> r.at + 1, emitted |-> x.emitted, data |-> x.data]

(* nm_sse_feed: the parser, and the event's text when one is complete.      *)
SseFeed(p, bytes) ==
    LET all == p.hold \o bytes
    IN Turns(Eights(Len(all)), LAMBDA r : SseTurn(r, all),
             LAMBDA r : SseStops(r, all),
             [p |-> [p EXCEPT !.hold = <<>>], at |-> 1, emitted |-> FALSE,
              data |-> <<>>])
=============================================================================
