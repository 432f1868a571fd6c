------------------------------ MODULE Brackets ------------------------------
(***************************************************************************)
(* What is left to spend (credit.c): the brackets each provider keeps, how *)
(* a balance answer and a refusal change them, which of them the status    *)
(* row shows, in which order and rank, and the figures as they are told.   *)
(* Money is counted in hundredths; what an answer may leave out is a       *)
(* sequence of at most one value.                                          *)
(***************************************************************************)
EXTENDS Loops

Unset == -1
Given(option, default) == IF option = <<>> THEN default ELSE option[1]

Bracket(unit, window, kind, limit) ==
    [unit |-> unit, window |-> window, kind |-> kind, state |-> "unknown",
     value |-> 0, limit |-> limit, resets |-> 0, origin |-> "none"]

(* The init_brackets of the providers; ollama's third is used by the plan   *)
(* that counts in windows.                                                  *)
InitBrackets(provider) ==
    LET purse == Bracket("usd", "purse", "left", Unset)
        spent(window) == Bracket("usd", window, "spent", Unset)
        percent(window) == Bracket("percent", window, "left", 100)
    IN CASE provider = "ollama" -> [n |-> 2, all |-> <<purse, purse, Bracket("usd", "purse", "left", 0)>>]
         [] provider = "openrouter" ->
              [n |-> 6, all |-> <<purse, purse, Bracket("requests", "day", "left", Unset),
                                  spent("day"), spent("week"), spent("period")>>]
         [] provider = "go" -> [n |-> 3, all |-> <<percent("5h"), percent("week"), percent("period")>>]
         [] provider = "zen" -> [n |-> 1, all |-> <<Bracket("zen", "purse", "left", Unset)>>]

(* nm_credit_fold_round, nm_credit_fold_refusal: only a refusal to pay says *)
(* anything, and only of the first bracket.                                 *)
FoldRound(s, status) ==
    IF status = 402
    THEN [s EXCEPT !.all[1] = [@ EXCEPT !.state = "exhausted", !.origin = "refusal"]]
    ELSE s

---------------------------------------------------------------------------
(* The answers.  A bracket read from an answer. *)

Told(b, value, limit) ==
    [b EXCEPT !.state = "known", !.value = value, !.limit = limit, !.origin = "endpoint"]
Untold(b) ==
    [b EXCEPT !.state = "unknown", !.value = Unset, !.limit = Unset, !.origin = "endpoint"]

(* ollama_map_endpoint: an allowance in dollars, or in a plan's two windows *)
(* (then the purse is the third bracket).                                   *)
OllamaAnswer(s, doc) ==
    LET inc == doc.included
        dollars == inc # <<>> /\ inc[1].balance # <<>>
        windows == inc # <<>> /\ ~dollars /\ inc[1].session # <<>> /\ inc[1].weekly # <<>>
        shaped(b, unit, window) == [b EXCEPT !.unit = unit, !.window = window, !.kind = "left"]
        window(b, span, w) ==
            [Told(shaped(b, "percent", span), Given(w.left, Unset), 100)
               EXCEPT !.resets = Given(w.resets, 0)]
        read == IF dollars
                THEN [s.all EXCEPT ![1] =
                        [Told(shaped(@, "usd", "purse"), inc[1].balance[1], Given(inc[1].allowance, Unset))
                           EXCEPT !.resets = IF inc[1].period = <<>> THEN @
                                             ELSE Given(inc[1].period[1], 0)]]
                ELSE IF windows
                THEN [s.all EXCEPT ![1] = window(@, "hour", inc[1].session[1]),
                                   ![2] = window(@, "week", inc[1].weekly[1])]
                ELSE s.all
        n == IF windows THEN 3 ELSE 2
        left == Given(doc.purchased[1], Unset)
        purse(b) == [Told(shaped(b, "usd", "purse"), left, Unset)
                       EXCEPT !.state = IF left > 0 THEN "known" ELSE "unknown"]
    IN [n |-> n, all |-> IF doc.purchased = <<>> THEN read ELSE [read EXCEPT ![n] = purse(@)]]

(* openrouter_map_endpoint: the account, then the key.                      *)
OpenrouterAnswer(s, step, doc) ==
    LET account == [s.all EXCEPT ![1] = IF doc.credits = <<>> \/ doc.used = <<>> THEN @
                                        ELSE Told(@, doc.credits[1] - doc.used[1], Unset)]
        spent(b, figure) == IF figure = <<>> THEN Untold(b) ELSE Told(b, figure[1], Unset)
        free == doc.free[1]
        key == [s.all EXCEPT
                  ![2] = IF doc.remaining = <<>> THEN Untold(@)
                         ELSE Told(@, doc.remaining[1], Given(doc.limit, Unset)),
                  ![3] = IF doc.free = <<>> THEN Untold(@)
                         ELSE Told(@, Given(free.remaining, Unset), Given(free.limit, Unset)),
                  ![4] = spent(@, doc.daily), ![5] = spent(@, doc.weekly), ![6] = spent(@, doc.monthly)]
    IN [s EXCEPT !.all = IF step = 0 THEN account ELSE key]

(* opencode_map_endpoint: what the wire counts as used is told as left; a   *)
(* window it does not name stands.                                          *)
GoAnswer(s, doc) ==
    LET read(b, w) == IF w = <<>> THEN b
                      ELSE [Told(b, 100 - Given(w[1].used, 0), 100)
                              EXCEPT !.resets = Given(w[1].resets, 0),
                                     !.state = IF w[1].limited THEN "exhausted" ELSE "known"]
    IN [s EXCEPT !.all = [k \in DOMAIN @ |-> read(@[k], doc[k])]]

---------------------------------------------------------------------------
(* The status row. *)

(* window_span_rank                                                         *)
SpanRank == [w \in {"purse", "period", "week", "day", "hour", "5h"} |->
               CASE w = "purse" -> 4 [] w = "period" -> 3 [] w = "week" -> 2
                 [] w = "day" -> 1   [] OTHER -> 0]

(* credit_pressure, as a fraction: how close a bracket is to a refusal.     *)
Pressure(b) ==
    LET used == b.limit - b.value
    IN CASE b.state = "exhausted" -> <<2, 1>>
         [] b.state = "unknown" \/ (b.state = "known" /\ b.kind = "spent") -> <<-1, 1>>
         [] OTHER -> IF b.limit <= 0 THEN <<0, 1>>
                     ELSE <<IF used < 0 THEN 0 ELSE IF used > b.limit THEN b.limit ELSE used, b.limit>>
Above(p, q) == p[1] * q[2] > q[1] * p[2]

(* pick_gate: the most pressing of the rest, the first of equals; 0 for     *)
(* none.                                                                    *)
PickGate(s, skip) ==
    Over(LAMBDA best, k :
           IF /\ k \notin skip
              /\ Above(Pressure(s.all[k]), IF best = 0 THEN <<-1, 1>> ELSE Pressure(s.all[best]))
           THEN k ELSE best,
         0, [k \in 1 .. s.n |-> k])

(* Mutant: what was spent is what is left.                                  *)
PickLongestAny(s, skip, kind) ==
    Over(LAMBDA best, k :
           IF /\ k \notin skip /\ s.all[k].state # "unknown"
              /\ best # 0 => SpanRank[s.all[k].window] >= SpanRank[s.all[best].window]
           THEN k ELSE best,
         0, [k \in 1 .. s.n |-> k])

(* pick_longest: the longest window of the rest, the last of equals.        *)
PickLongest(s, skip, kind) ==
    Over(LAMBDA best, k :
           IF /\ k \notin skip /\ s.all[k].state # "unknown" /\ s.all[k].kind = kind
              /\ best # 0 => SpanRank[s.all[k].window] >= SpanRank[s.all[best].window]
           THEN k ELSE best,
         0, [k \in 1 .. s.n |-> k])

(* nm_credit_format_cell: a bracket as it is told; what is not known is     *)
(* nothing in the row and a dash in the breakdown.                          *)
FormatCell(b, compress) ==
    LET tag == IF b.window # "purse" THEN b.window ELSE ""
        capped == b.limit > 0 /\ b.unit # "percent" /\ ~(compress /\ b.value = b.limit)
    IN CASE b.state = "unknown" -> <<>>
         [] b.state = "exhausted" ->
              <<[exhausted |-> TRUE, of |-> IF tag # "" THEN tag ELSE b.unit,
                 spent |-> FALSE, value |-> Unset, limit |-> Unset]>>
         [] b.state = "known" ->
              <<[exhausted |-> FALSE, of |-> tag, spent |-> b.kind = "spent", value |-> b.value,
                 limit |-> IF capped THEN b.limit ELSE Unset]>>

(* credit_cell_color                                                        *)
CellColor(b) ==
    IF b.state = "exhausted" \/ (b.limit > 0 /\ b.value * 20 < b.limit) THEN "hot"
    ELSE IF b.limit > 0 /\ b.value * 100 < 15 * b.limit THEN "warn"
    ELSE IF b.kind = "spent" THEN "gauge" ELSE "credit"

(* nm_credit_status_cells: the budget, the gate and one more, in the order  *)
(* of the provider's ladder.                                                *)
StatusCells(s) ==
    LET left == PickLongest(s, {}, "left")
        budget == IF left # 0 THEN left ELSE PickLongest(s, {}, "spent")
        gate == PickGate(s, {budget})
        more == PickGate(s, {budget, gate})
        middle == IF more # 0 THEN more ELSE PickLongest(s, {budget, gate}, "left")
        rank(k) == CASE k = budget -> 1 [] k = gate -> 2 [] k = middle -> 3
        cell(k) == LET text == FormatCell(s.all[k], TRUE)
                   IN IF k \notin {budget, gate, middle} \/ text = <<>> THEN <<>>
                      ELSE <<[at |-> k, rank |-> rank(k), text |-> text[1],
                              color |-> CellColor(s.all[k])]>>
    IN Joined([k \in 1 .. s.n |-> cell(k)])

---------------------------------------------------------------------------
(* Figures and times. *)

(* format_compact_count: tenths of a thousand or a million, cut.            *)
FormatCount(n) ==
    IF n < 0 THEN [unit |-> 0, tenths |-> 0]
    ELSE IF n < 1000 THEN [unit |-> 1, tenths |-> n * 10]
    ELSE LET tenth == IF n < 1000000 THEN 100 ELSE 100000
         IN [unit |-> tenth * 10, tenths |-> n \div tenth]

(* format_money_value, format_credits_value: the digits behind the point.   *)
FormatMoney(cents) ==
    <<cents \div 100>> \o (IF cents % 100 = 0 THEN <<>> ELSE <<(cents \div 10) % 10, cents % 10>>)
FormatCredits(cents) ==
    LET money == FormatMoney(cents)
    IN IF Len(money) = 3 /\ money[3] = 0 THEN SubSeq(money, 1, 2) ELSE money

(* nm_credit_format_until: the two largest units of the time to a reset.    *)
FormatUntil(now, at) ==
    LET secs == at - now
    IN CASE at <= 0 -> [told |-> "nothing", big |-> 0, small |-> 0]
         [] at > 0 /\ secs <= 0 -> [told |-> "now", big |-> 0, small |-> 0]
         [] at > 0 /\ secs >= 86400 ->
              [told |-> "days", big |-> secs \div 86400, small |-> (secs % 86400) \div 3600]
         [] at > 0 /\ secs \in 3600 .. 86399 ->
              [told |-> "hours", big |-> secs \div 3600, small |-> (secs % 3600) \div 60]
         [] at > 0 /\ secs \in 60 .. 3599 -> [told |-> "minutes", big |-> secs \div 60, small |-> 0]
         [] at > 0 /\ secs \in 1 .. 59 -> [told |-> "seconds", big |-> secs, small |-> 0]

(* nm_credit_format_age                                                     *)
FormatAge(now, observed) ==
    LET age == IF now < observed THEN 0 ELSE now - observed
    IN IF observed <= 0 THEN [told |-> "unknown", big |-> 0]
       ELSE IF age < 60 THEN [told |-> "seconds", big |-> age]
       ELSE IF age < 3600 THEN [told |-> "minutes", big |-> age \div 60]
       ELSE [told |-> "hours", big |-> age \div 3600]

(* nm_credit_parse_iso8601: the days before a date, or -1 when it is none.  *)
IsLeapYear(y) == y % 4 = 0 /\ (y % 100 # 0 \/ y % 400 = 0)
BeforeMonth == <<0, 31, 59, 90, 120, 151, 181, 212, 243, 273, 304, 334>>
DaysOf(y, m, d) ==
    LET leaps(x) == x \div 4 - x \div 100 + x \div 400
    IN IF y < 1970 \/ m \notin 1 .. 12 \/ d \notin 1 .. 31 THEN -1
       ELSE (y - 1970) * 365 + leaps(y - 1) - leaps(1969) + BeforeMonth[m]
              + (IF IsLeapYear(y) /\ m > 2 THEN 1 ELSE 0) + d - 1
=============================================================================
