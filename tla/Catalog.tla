------------------------------ MODULE Catalog ------------------------------
(* The fetches that run beside the turns, as operators on records: the one   *)
(* shot JSON fetch, the catalog machines of the providers, the list source   *)
(* that owns one of them (CatalogSource), and the balance of each provider.  *)
(* App holds the state and calls these.  An operator that can end in several *)
(* ways is the set of its ends, each a pair <<record, status>>.              *)
EXTENDS Integers

CONSTANTS
    Providers,   \* the providers a user switches between
    Budget,      \* ticks of silence a fetch forgives (idle and connect alike)
    BodyMax,     \* reads of a body before it is over its cap
    Rows,        \* the most rows a list names (one show request each)
    TTL,         \* credits_ttl
    Throttle,    \* the wait a 429 asks for
    Floor,       \* per provider: its minimum between two refreshes
    Steps        \* per provider: the requests one refresh takes

ASSUME BoundsAssumption ==
    /\ Budget \in Nat \ {0}
    /\ BodyMax \in Nat \ {0}
    /\ Rows \in Nat \ {0}

ASSUME CreditAssumption ==
    /\ TTL \in Nat \ {0} /\ Throttle \in Nat \ {0}
    /\ Floor \in [Providers -> Nat] /\ Steps \in [Providers -> 1..2]

NoFetch == [phase |-> "none", left |-> 0, got |-> 0]
Asked   == [phase |-> "connect", left |-> Budget, got |-> 0]
Live(f) == f.phase # "none"

(* Mutant: no deadline.                                                     *)
FetchEndless(f) ==
    IF f.left = 0 THEN {<<f, "pending">>}
    ELSE {<<f, s>> : s \in {"pending", "ok", "throttled", "failed"}}

(* One step of a fetch.  The connection has its own budget, silence after    *)
(* it has the idle budget, which every read renews; a body over its cap, a   *)
(* status outside 2xx and a body that is not JSON fail it.  "throttled" is   *)
(* the failure whose status is 429.                                          *)
FetchStep(f) ==
    IF f.left = 0 THEN {<<f, "failed">>}
    ELSE IF f.phase = "connect"
    THEN {<<f, "pending">>, <<f, "failed">>,
          <<[f EXCEPT !.phase = "answer", !.left = Budget], "pending">>}
    ELSE {<<f, s>> : s \in {"pending", "ok", "throttled", "failed"}}
         \cup {<<[f EXCEPT !.left = Budget, !.got = @ + 1],
                 IF f.got + 1 >= BodyMax THEN "failed" ELSE "pending">>}

(* The milliseconds a fetch asks the loop to wait: none when there is none.  *)
Due(f) == Live(f) /\ f.left = 0

---------------------------------------------------------------------------
(* The machines.  c.mach[p] is a provider's scratch, c.cache[p] what its     *)
(* readers see ("cold" is the built-in table), c.document the capability     *)
(* document two tiers share, c.src the app's list source.                    *)
Still == [stage |-> "idle", fetch |-> NoFetch, rows |-> 0, at |-> 0,
          failed |-> FALSE]
First == [single |-> "list", document |-> "list", verbose |-> "verbose"]

Running(c, p) == c.mach[p].stage # "idle"

(* Ending a machine drops its fetch and its scratch rows.                    *)
Cleared(c, p) ==
    [c EXCEPT !.mach[p].stage = "idle", !.mach[p].fetch = NoFetch,
              !.mach[p].rows = 0, !.mach[p].at = 0]
Spoilt(c, p)    == [c EXCEPT !.mach[p].failed = TRUE]
Committed(c, p) == [Cleared(c, p) EXCEPT !.cache[p] = "live"]

(* A machine starts only on a cold cache, never over itself, and not         *)
(* unbidden where the knob forbids it.  The first request may be refused;    *)
(* the verbose machine then tries the tags at once.                          *)
Begins(c, p, kind, allowed) ==
    IF c.cache[p] # "cold" \/ Running(c, p) \/ ~allowed
    THEN {<<c, FALSE>>}
    ELSE {<<[c EXCEPT !.mach[p] = [Still EXCEPT !.stage = s, !.fetch = Asked]], TRUE>> :
            s \in {First[kind]} \cup (IF kind = "verbose" THEN {"tags"} ELSE {})}
         \cup {
          <<[c EXCEPT !.mach[p] =
                [Still EXCEPT !.failed = kind # "single"]], FALSE>>}

(* The next request of the same machine: under way, or refused.              *)
Then(c, p, stage, refused) ==
    {<<[c EXCEPT !.mach[p].stage = stage, !.mach[p].fetch = Asked], "pending">>,
     refused}

Failure(c, p) == <<Spoilt(Cleared(c, p), p), "failed">>
Success(c, p) == <<Committed(c, p), "ok">>
Verdict(c, p) == IF c.mach[p].failed THEN "failed" ELSE "ok"

(* The rows are built from the list and, where the table does not cover it,  *)
(* from the document: with no row at all the catalog failed.                 *)
Built(c, p) == {Failure(c, p), <<Committed(c, p), Verdict(c, p)>>}

(* What an answered request leads to, by the kind of machine and its stage.  *)
(* One list, and nothing after it.                                           *)
SingleAnswered(c, p, ok) ==
    {Failure(c, p)} \cup (IF ok THEN {Success(c, p)} ELSE {})

(* The list, then the document unless the table covers every row, another    *)
(* tier has stored it, or the knob forbids it.                               *)
ListAnswered(c, p, ok) ==
    {Failure(c, p)} \cup
    (IF ~ok THEN {} ELSE Built(c, p) \cup
       (IF c.document THEN {}
        ELSE Then(c, p, "document", <<Spoilt(Committed(c, p), p), "failed">>)))
DocumentAnswered(c, p, ok) ==
    Built(IF ok THEN [c EXCEPT !.document = TRUE] ELSE Spoilt(c, p), p)

(* One answer that says everything; where it is not served (or says nothing) *)
(* the tags, and then one request per row, whose failures are ignored.       *)
VerboseAnswered(c, p, ok) ==
    Then(c, p, "tags", Failure(c, p)) \cup (IF ok THEN {Success(c, p)} ELSE {})
TagsAnswered(c, p, ok) ==
    {Failure(c, p)} \cup
    (IF ~ok THEN {} ELSE UNION {
       Then([c EXCEPT !.mach[p].rows = n], p, "show", Success(c, p))
       : n \in 1..Rows})
ShowAnswered(c, p) ==
    IF c.mach[p].at + 1 >= c.mach[p].rows THEN {Success(c, p)}
    ELSE Then([c EXCEPT !.mach[p].at = @ + 1], p, "show", Success(c, p))

Answered(c, p, kind, ok) ==
    LET stage == c.mach[p].stage
        done  == [c EXCEPT !.mach[p].fetch = NoFetch]
    IN CASE stage = "list" /\ kind = "single" -> SingleAnswered(done, p, ok)
         [] stage = "list"                    -> ListAnswered(done, p, ok)
         [] stage = "document"                -> DocumentAnswered(done, p, ok)
         [] stage = "verbose"                 -> VerboseAnswered(done, p, ok)
         [] stage = "tags"                    -> TagsAnswered(done, p, ok)
         [] stage = "show"                    -> ShowAnswered(done, p)

(* models_step of a provider.  A request answered and the next one begun is  *)
(* one call of the code; here the next one's own step is the next call,      *)
(* which finds it as the code's second turn of the loop would.               *)
MachineStep(c, p, kind) ==
    UNION { IF r[2] = "pending"
            THEN {<<[c EXCEPT !.mach[p].fetch = r[1]], "pending">>}
            ELSE Answered(c, p, kind, r[2] = "ok")
            : r \in FetchStep(c.mach[p].fetch) }

---------------------------------------------------------------------------
(* The app's one list source: the provider it reads, while its machine runs. *)
NoSource == "none"
ASSUME SourceAssumption == NoSource \notin Providers

(* A terminal step ends the machine, then reads the cache.                   *)
SourceStep(c, kind) ==
    { IF r[2] = "pending" THEN r ELSE <<Cleared(r[1], c.src), r[2]>>
      : r \in MachineStep(c, c.src, kind) }

(* Mutants: the machine is left running; nothing is cancelled.               *)
SourceLeft(c) == [c EXCEPT !.src = NoSource, !.owed = FALSE]
SourceKept(c) == c

(* Freeing a source cancels what it started.                                 *)
SourceFreed(c) ==
    IF c.src = NoSource THEN c
    ELSE [Cleared(c, c.src) EXCEPT !.src = NoSource, !.owed = FALSE]

(* Creating one: its begin, and the first step of what began.  With nothing  *)
(* begun the source is ready at once with what is cached.                    *)
Opened(c, p, kind, allowed) ==
    UNION { IF ~b[2] THEN {<<b[1], "ready">>}
            ELSE { <<[r[1] EXCEPT !.src = p], "fetching">> :
                     r \in {s \in SourceStep([b[1] EXCEPT !.src = p], kind) :
                              s[2] = "pending"} }
                 \cup
                 { <<[r[1] EXCEPT !.src = c.src], "ready">> :
                     r \in {s \in SourceStep([b[1] EXCEPT !.src = p], kind) :
                              s[2] # "pending"} }
            : b \in Begins(c, p, kind, allowed) }

---------------------------------------------------------------------------
(* The balance of each provider: the fetch that refreshes it and the three   *)
(* gates of the next attempt, on one record per provider.  Clocks are        *)
(* relative: `allowed` is the time the store's rate latch still has to run,  *)
(* `fresh` how long the last answer still counts (Never when there was       *)
(* none).  The brackets a mapper fills are data no gate reads.               *)
Never == -1
Unread == [fetch |-> NoFetch, step |-> 0, allowed |-> 0, fresh |-> Never]

InFlight(k) == Live(k.fetch)
Stale(k)    == k.fresh <= 0

(* nm_credits_fetch_begin: not over a running fetch, not before the latch,   *)
(* not without an endpoint; the request itself may be refused.               *)
CreditBegins(k, endpoint) ==
    IF InFlight(k) \/ k.allowed > 0 \/ ~endpoint THEN {k}
    ELSE {k, [k EXCEPT !.fetch = Asked, !.step = 0]}

(* The last answer of a refresh: read now, and the provider's floor armed.   *)
Landed(k, p) ==
    [k EXCEPT !.fetch = NoFetch, !.fresh = TTL,
              !.allowed = IF Floor[p] > 0 THEN Floor[p] ELSE @]

(* A failure arms the latch: the peer's own wait on a 429, else the floor.   *)
(* What was read before stays as old as it was.                              *)
Refused(k, p, s) ==
    [k EXCEPT !.fetch = NoFetch,
              !.allowed = IF s = "throttled" THEN Throttle
                          ELSE IF Floor[p] > 0 THEN Floor[p] ELSE @]

CreditStep(k, p) ==
    UNION { CASE r[2] = "pending" -> {[k EXCEPT !.fetch = r[1]]}
              [] r[2] = "ok" ->
                   {Landed(k, p)} \cup
                   (IF k.step + 1 < Steps[p]
                    THEN {[k EXCEPT !.fetch = Asked, !.step = 1]} ELSE {})
              [] OTHER -> {Refused(k, p, r[2])}
            : r \in FetchStep(k.fetch) }

(* When the idle refresh may try next: the latest of its own backoff, the    *)
(* store's latch and the end of the answer's freshness.                      *)
DueIn(k, retry) ==
    LET Later(a, b) == IF a < b THEN b ELSE a
    IN Later(Later(retry, k.allowed), IF k.fresh = Never THEN 0 ELSE k.fresh)

(* Time passes for every clock of a record.                                  *)
Less(n)  == IF n > 0 THEN n - 1 ELSE n
Aged(f)  == [f EXCEPT !.left = Less(@)]
Older(k) == [k EXCEPT !.fetch = Aged(@), !.allowed = Less(@), !.fresh = Less(@)]
=============================================================================
