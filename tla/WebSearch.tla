----------------------------- MODULE WebSearch ------------------------------
(***************************************************************************)
(* web_search (tools_websearch.c) over the configuration store: one search *)
(* of instance Me at a time, against the endpoint the store names.  An     *)
(* endpoint that did not answer is latched in the store's runtime layer,   *)
(* so that later searches do not dial it again.                            *)
(***************************************************************************)
EXTENDS Settings

CONSTANTS
    Me,             \* the instance that searches
    EndpointKey,    \* searxng
    EnabledKey,     \* searxng_enabled
    DefaultEndpoint,
    Malformed,      \* endpoints that are no URL
    SearchMs,       \* searxng_timeout, in ticks
    MaxSearches     \* bound: searches

ASSUME WebSearchAssumption ==
    /\ Me \in Insts /\ {EndpointKey, EnabledKey} \subseteq PlainKeys
    /\ SearchMs \in Nat /\ MaxSearches \in Nat

VARIABLES
    search,     \* the NmToolExec under way, or how the last one ended
    probed,     \* g_probed_url: the endpoint tried last
    searches,   \* searches so far
    silent      \* the endpoints that did not answer when last dialled
web == <<search, probed, searches, silent>>

NoSearch == [at |-> "none"]
Searching == search.at = "running"

(* nm_tool_web_search_base_url and _enabled: read from the store at use.    *)
Endpoint ==
    LET v == Resolve(conf[Me], EndpointKey)
    IN IF v = None THEN DefaultEndpoint ELSE v
Enabled == Resolve(conf[Me], EnabledKey) \in {None, "on"}

WebInit ==
    search = NoSearch /\ probed = None /\ searches = 0 /\ silent = {}

(* ws_fail: the search is over, with an error.                              *)
Ended(how) == search' = [at |-> "ended", how |-> how]

(* ws_mark_unreachable.                                                     *)
MarkUnreachable(c) == [c EXCEPT !.runtime[EnabledKey] = "off"]

(* Mutant: a failed search latches, whatever the endpoint said.             *)
EndedLatching(c, how) ==
    /\ Ended(how)
    /\ conf' = [conf EXCEPT ![Me] =
                   IF how = "status" THEN MarkUnreachable(c) ELSE c]
    /\ silent' = silent \ {probed'}

(* An answer, which says that the endpoint is there.                        *)
Answered(c, how) ==
    /\ Ended(how) /\ conf' = [conf EXCEPT ![Me] = c]
    /\ silent' = silent \ {probed'}

(* A search whose endpoint did not answer as one.                           *)
Unreachable(c) ==
    /\ Ended("unreachable")
    /\ conf' = [conf EXCEPT ![Me] = MarkUnreachable(c)]
    /\ silent' = silent \cup {probed'}

(* An end that says nothing about the endpoint.                             *)
GivenUp(c, how) ==
    Ended(how) /\ conf' = [conf EXCEPT ![Me] = c] /\ UNCHANGED silent

(* ws_note_endpoint: another endpoint than the last drops the latch.        *)
NoteEndpoint(c) ==
    IF Endpoint = probed THEN c ELSE [c EXCEPT !.runtime[EnabledKey] = None]

(* ws_begin, once the latch is passed: the arguments, the URL, the walk.    *)
SearchOpens(c) ==
    \/ GivenUp(c, "arguments")
    \/ Endpoint \in Malformed /\ GivenUp(c, "url")
    \/ /\ Endpoint \notin Malformed
       /\ \/ Unreachable(c)                     \* no name, or no socket
          \/ GivenUp(c, "queue")
          \/ /\ search' = [at |-> "running", left |-> SearchMs]
             /\ conf' = [conf EXCEPT ![Me] = c]
             /\ UNCHANGED silent

SearchBegin ==
    /\ Up(Me) /\ ~Searching /\ save[Me].at = "idle" /\ searches < MaxSearches
    /\ searches' = searches + 1
    /\ IF Enabled
       THEN probed' = Endpoint /\ SearchOpens(NoteEndpoint(conf[Me]))
       ELSE Ended("refused") /\ UNCHANGED <<conf, probed, silent>>

(* ws_step: the deadline first; then the connection, or what has come on it *)
(* (an answer over the size cap, empty, or no JSON, counts as none).        *)
SearchStep ==
    /\ Searching
    /\ UNCHANGED <<probed, searches>>
    /\ IF search.left = 0 THEN Unreachable(conf[Me])
       ELSE \/ Unreachable(conf[Me])
            \/ GivenUp(conf[Me], "memory")
            \/ \E how \in {"status", "results"} : Answered(conf[Me], how)

(* ws_end in the middle: the turn was cancelled.                            *)
SearchCancel ==
    /\ Searching /\ search' = NoSearch
    /\ UNCHANGED <<conf, probed, searches, silent>>

(* The loop steps the search when its deadline is over, whatever the socket *)
(* does: ws_deadline_ms.                                                    *)
SearchTick ==
    /\ Searching /\ search.left > 0
    /\ search' = [search EXCEPT !.left = @ - 1]
    /\ UNCHANGED <<conf, probed, searches, silent>>

(* The process ends: the latch and the memory of the probe go with it.      *)
SearchLost == search' = NoSearch /\ probed' = None

-----------------------------------------------------------------------------
(* Instances on one store, one of which also searches; its commands reach   *)
(* the store only while no search of its own runs.                          *)
StoreNext(alive, keys, models, presets) ==
    \/ \E p \in alive :
         /\ \/ Start(p) \/ Saving(p)
            \/ (p = Me => ~Searching) /\ Commands(p, keys, models, presets)
         /\ UNCHANGED web
    \/ \E p \in alive :
         /\ Stop(p) /\ UNCHANGED <<searches, silent>>
         /\ IF p = Me THEN SearchLost ELSE UNCHANGED <<search, probed>>

SearchNext ==
    /\ SearchBegin \/ SearchStep \/ SearchCancel \/ SearchTick
    /\ UNCHANGED <<save, disk, node, told, writes, history>>

SearchSpec ==
    /\ SettingsInit /\ WebInit
    /\ [][StoreNext(Insts, Keys, ValuesOf[PinKey], Presets) \/ SearchNext]_<<settings, web>>

-----------------------------------------------------------------------------
(* Property *)

(* The latch that keeps web_search from dialling was earned by the endpoint *)
(* probed last, which did not answer; a refusal by HTTP status, a bad       *)
(* argument or a cancelled search never sets it (tools_websearch.c).        *)
LatchIsEarned ==
    conf[Me].runtime[EnabledKey] = "off" => probed \in silent

(* What makes it inductive: a search that runs found no latch.              *)
SearchInv ==
    /\ LatchIsEarned
    /\ Searching => conf[Me].runtime[EnabledKey] # "off"
=============================================================================
