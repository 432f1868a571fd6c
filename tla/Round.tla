------------------------------- MODULE Round --------------------------------
(***************************************************************************)
(* What a round leaves behind (agent.c): the text, the reasoning and the   *)
(* images it streamed, and what its usage reports add to the session's     *)
(* accounting and to the context gauge, as /context shows them             *)
(* (chat_app.c).  A counter the provider left out is Unknown.  And what    *)
(* the client exchanges for it with the endpoint (openai_client.c): the    *)
(* host, port and path of its URL, the body of the request with one wire   *)
(* message for every message, and the usage report that comes back.  What  *)
(* may be absent there is a sequence of at most one value.                 *)
(***************************************************************************)
EXTENDS Loops

CONSTANT HostMax

Unknown == -1
Report(in, out, read, write) == [in |-> in, out |-> out, read |-> read, write |-> write]
NoReport == Report(Unknown, Unknown, Unknown, Unknown)

---------------------------------------------------------------------------
(* The stream's deltas: [channel, text].  An image is "data" when its bytes *)
(* come with it, "broken" when they do not decode, else a remote address.   *)

RoundReset == [text |-> <<>>, reasoning |-> <<>>, details |-> <<>>, images |-> <<>>,
               calls |-> 0, shown |-> <<>>, notices |-> 0, usage |-> NoReport, seen |-> FALSE]

(* round_on_delta: an image joins the store or is told of; the carrier of   *)
(* the reasoning is kept, last one wins, and never shown; the rest is both  *)
(* kept and shown.                                                          *)
OnDelta(r, d) ==
    LET shown == [r EXCEPT !.shown = Append(@, d)]
    IN CASE d.text = <<>> -> r
         [] d.channel = "image" /\ d.text # <<"data">> -> [r EXCEPT !.notices = @ + 1]
         [] d.channel = "image" -> [shown EXCEPT !.images = Append(@, Len(@) + 1)]
         [] d.channel = "calls" -> [r EXCEPT !.calls = Len(d.text)]
         [] d.channel = "details" -> [r EXCEPT !.details = d.text]
         [] d.channel = "reasoning" -> [shown EXCEPT !.reasoning = @ \o d.text]
         [] d.channel = "content" -> [shown EXCEPT !.text = @ \o d.text]

(* round_on_usage: the last report is the round's.                          *)
OnUsage(r, u) == [r EXCEPT !.usage = u, !.seen = TRUE]

(* round_is_void: reasoning alone is nothing the model said.                *)
Void(r) == r.calls = 0 /\ r.images = <<>> /\ r.text = <<>>

---------------------------------------------------------------------------
(* The session's accounting: sums, and whether anything was added to each.  *)

NewAgent == [last |-> NoReport, has |-> FALSE, rounds |-> 0, cuts |-> 0,
             in |-> 0, out |-> 0, read |-> 0, write |-> 0, base |-> 0,
             some |-> {}, served |-> ""]

Known(u) == {k \in {"in", "out", "read", "write"} : u[k] # Unknown}

(* Mutant: what was not reported once counts as nothing from then on.       *)
AccountZero(a, u) ==
    LET add(k) == IF k \in Known(u) THEN a[k] + u[k] ELSE a[k]
    IN [a EXCEPT !.in = add("in"), !.out = add("out"), !.read = add("read"),
                 !.write = add("write"), !.some = {"in", "out", "read", "write"},
                 !.base = IF {"read", "in"} \subseteq Known(u) THEN @ + u.in ELSE @,
                 !.rounds = @ + 1]

(* session_account_round: the base of the cache rate counts only the        *)
(* prompts of rounds that reported what was read from the cache.            *)
Account(a, u) ==
    LET add(k) == IF k \in Known(u) THEN a[k] + u[k] ELSE a[k]
    IN [a EXCEPT !.in = add("in"), !.out = add("out"), !.read = add("read"),
                 !.write = add("write"), !.some = @ \cup Known(u),
                 !.base = IF {"read", "in"} \subseteq Known(u) THEN @ + u.in ELSE @,
                 !.rounds = @ + 1]

(* What finish_round does with these: a failed round nothing; a void one    *)
(* only names who served it; the others publish what they reported.         *)
FinishRound(a, r, end) ==
    LET met == [a EXCEPT !.served = IF end.served = "" THEN @ ELSE end.served]
        cut == [met EXCEPT !.cuts = IF end.reason = "length" THEN @ + 1 ELSE @]
        told == [cut EXCEPT !.last = r.usage, !.has = @ \/ r.usage.in # Unknown]
    IN CASE end.status # "ok" -> a
         [] end.status = "ok" /\ Void(r) -> met
         [] ~Void(r) /\ ~r.seen -> cut
         [] OTHER -> Account(told, r.usage)

(* The served provider is told when it is another than before, and a tier   *)
(* when it is not the default one.                                          *)
ServedSignal(a, end) ==
    /\ end.tier # "" \/ end.served # ""
    /\ end.tier \notin {"", "default"} \/ end.served # a.served

---------------------------------------------------------------------------
(* What is asked of it. *)

SessionTokens(a, k) == IF k \in a.some THEN a[k] ELSE Unknown
CacheBase(a) == IF "read" \in a.some THEN a.base ELSE Unknown
LastUsage(a) == IF a.has THEN a.last ELSE NoReport

(* nm_agent_context_tier, the window being known when it is above zero.     *)
ContextTier(used, limit) ==
    IF used = Unknown \/ limit <= 0 THEN 0
    ELSE IF used * 100 >= 95 * limit THEN 2
    ELSE IF used * 100 >= 85 * limit THEN 1 ELSE 0

(* print_context: which of its lines are shown.                             *)
ContextLines(a) ==
    IF ~a.has \/ a.last.in = Unknown THEN {"none"}
    ELSE {"used"} \cup (IF a.last.read # Unknown THEN {"cached"} ELSE {})
         \cup (IF a.rounds = 0 THEN {"no round"}
               ELSE {"session"}
                    \cup (IF "read" \in a.some /\ a.base > 0 THEN {"rate"} ELSE {"no cache"})
                    \cup (IF "write" \in a.some THEN {"write"} ELSE {}))

(* format_tokens: tenths of a thousand or of a million, cut.                *)
FormatTokens(n) ==
    LET unit == IF n < 1000 THEN 1 ELSE IF n < 1000000 THEN 1000 ELSE 1000000
        tenths == n \div (unit \div 10)
    IN IF unit = 1 THEN [whole |-> n, frac |-> 0, unit |-> 1]
       ELSE [whole |-> tenths \div 10, frac |-> tenths % 10, unit |-> unit]

(* format_tokens_exact: its digits in threes.                               *)
FormatExact(digits) ==
    Joined([i \in DOMAIN digits |->
              IF i > 1 /\ (Len(digits) - i + 1) % 3 = 0 THEN <<",", digits[i]>>
              ELSE <<digits[i]>>])

---------------------------------------------------------------------------
(* nm_openai_split_base_url.  The scheme is one character of the model.    *)
Schemes == {"http://", "https://"}
DigitValue == [d \in {"0", "1", "8"} |-> CASE d = "0" -> 0 [] d = "1" -> 1 [] d = "8" -> 8]
NoUrl == [ok |-> FALSE, host |-> <<>>, port |-> 0]

(* atoi: the digits in front.                                              *)
Atoi(s) ==
    LET other == Where(LAMBDA c : c \notin DOMAIN DigitValue, s)
        digits == IF other = 0 THEN s ELSE SubSeq(s, 1, other - 1)
    IN Over(LAMBDA v, d : v * 10 + DigitValue[d], 0, digits)

SplitBaseUrl(url) ==
    LET rest == Tail(url)
        slash == Where(LAMBDA c : c = "/", rest)
        authority == IF slash = 0 THEN rest ELSE SubSeq(rest, 1, slash - 1)
        after(n) == SubSeq(authority, n + 1, Len(authority))
        default == IF url[1] = "https://" THEN 443 ELSE 80
        close == Where(LAMBDA c : c = "]", authority)
        colon == Where(LAMBDA c : c = ":", authority)
        to(host, port) == IF Len(host) \in 1 .. HostMax - 1
                          THEN [ok |-> TRUE, host |-> host, port |-> port] ELSE NoUrl
    IN IF url = <<>> \/ url[1] \notin Schemes THEN NoUrl
       ELSE IF authority # <<>> /\ authority[1] = "["
       THEN IF close = 0 \/ (after(close) # <<>> /\ after(close)[1] # ":") THEN NoUrl
            ELSE to(SubSeq(authority, 2, close - 1),
                    IF after(close) = <<>> THEN default ELSE Atoi(Tail(after(close))))
       ELSE IF colon = 0 THEN to(authority, default)
       ELSE to(SubSeq(authority, 1, colon - 1), Atoi(after(colon)))

(* url_path_prefix                                                         *)
UrlPathPrefix(url) ==
    LET slash == Where(LAMBDA c : c = "/", Tail(url))
    IN IF url = <<>> \/ url[1] \notin Schemes \/ slash = 0 THEN <<>>
       ELSE SubSeq(Tail(url), slash, Len(url) - 1)

---------------------------------------------------------------------------
(* compose_body.  A wire object is a set of <<member, value>>.             *)
Member(name, option) == IF option = <<>> THEN {} ELSE {<<name, option>>}

(* An answer's pictures lie beside its text, anyone else's in its parts.   *)
Content(m) ==
    LET text == IF m.content = <<>> THEN <<"">> ELSE m.content
    IN IF m.images = <<>> THEN {<<"content", text>>}
       ELSE IF m.role = "assistant" THEN {<<"content", text>>, <<"images", m.images>>}
       ELSE {<<"parts", text \o m.images>>}

(* Mutant: only a message without pictures carries what it reasoned.       *)
WireMessageShort(m) ==
    {<<"role", <<m.role>>>>} \cup Content(m)
      \cup Member("tool_calls", m.calls) \cup Member("tool_call_id", m.answers)
      \cup Member("reasoning_content", IF m.images = <<>> THEN m.reasoning ELSE <<>>)
      \cup Member("reasoning_details", m.details)

WireMessage(m) ==
    {<<"role", <<m.role>>>>} \cup Content(m)
      \cup Member("tool_calls", m.calls) \cup Member("tool_call_id", m.answers)
      \cup Member("reasoning_content", m.reasoning) \cup Member("reasoning_details", m.details)

ComposeMessages(req) ==
    (IF req.system = <<>> THEN <<>>
     ELSE <<{<<"role", <<"system">>>>, <<"content", req.system>>}>>)
      \o [i \in DOMAIN req.messages |-> WireMessage(req.messages[i])]

(* The members beside the messages; `ep` is the endpoint's own.            *)
ComposeParameters(ep, req) ==
    Member("session_id", ep.session) \cup Member("include_usage", ep.usage)
      \cup Member("cache_control",
                  CASE ep.cache = 1 -> <<"ephemeral">> [] ep.cache = 2 -> <<"1h">> [] OTHER -> <<>>)
      \cup Member("temperature", req.temperature) \cup Member("max_tokens", req.limit)
      \cup (CASE ep.effort = "top" -> Member("reasoning_effort", req.effort)
              [] ep.effort = "object" -> Member("reasoning.effort", req.effort)
              [] OTHER -> {})
      \cup (IF req.tools = <<>> THEN {} ELSE {<<"tools", req.tools>>, <<"tool_choice", <<"auto">>>>})

(* append_extra_headers: in their order, without the empty ones.           *)
AppendExtraHeaders(headers, extra, most) ==
    headers \o SelectSeq(SubSeq(extra, 1, IF Len(extra) < most THEN Len(extra) ELSE most),
                         LAMBDA h : h.name # <<>> /\ h.value # <<>>)

---------------------------------------------------------------------------
(* parse_usage                                                             *)
Told(option) == IF option = <<>> THEN Unknown ELSE option[1]
ParseUsage(u) ==
    LET prompt == Told(u.prompt)
        completion == Told(u.completion)
        total == Told(u.total)
    IN [prompt |-> prompt, completion |-> completion,
        total |-> IF total < 0 /\ prompt >= 0 /\ completion >= 0 THEN prompt + completion ELSE total,
        cached |-> Told(u.cached), cost |-> IF u.cost = <<>> THEN Unknown ELSE Told(u.cost[1].usd)]
=============================================================================
