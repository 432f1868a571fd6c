------------------------------- MODULE Request -------------------------------
(***************************************************************************)
(* What one request of a chat carries (src/src/agent.c, begin_round, with  *)
(* the image store of src/src/session.c): the vision clause of the system  *)
(* prompt, the reasoning traces and the signed details that ride back with *)
(* earlier replies, and which images still ride as images.                 *)
(*                                                                         *)
(* The provider caches the prefix of the last request, so what an earlier  *)
(* request already carried should not change in a later one.  Prose, tool  *)
(* results and reminders are append-only and left out, like everything a   *)
(* turn does between two requests (module Agent).                          *)
(***************************************************************************)
EXTENDS Integers, Sequences

CONSTANTS
    Models,         \* model ids of the provider
    VisionModels,   \* those whose catalog row says vision = 1
    Replies,        \* assistant messages: [calls, trace, details]
    LiveKeys,       \* values of the `image_live` key (0: off)
    Modes,          \* values of the two echo keys
    MaxReplies, MaxImages, MaxRequests      \* bounds

ASSUME ConstantsAssumption ==
    /\ Models # {} /\ VisionModels \subseteq Models
    /\ Replies \subseteq [calls : BOOLEAN, trace : BOOLEAN, details : BOOLEAN]
    /\ LiveKeys # {} /\ LiveKeys \subseteq Nat
    /\ Modes # {} /\ Modes \subseteq {"off", "tools", "all"}
    /\ MaxReplies \in Nat /\ MaxImages \in Nat /\ MaxRequests \in Nat

VARIABLES
    phase,      \* "rest", "waiting" (for the git stage), "open" or "tools"
    model,      \* the active model
    known,      \* the models with a row: the static list, then the fetched
    warm,       \* the catalog has been fetched
    pending,    \* clause_pending
    clause,     \* the prompt tells the model that it sees images
    replies,    \* the assistant messages of the session
    images,     \* images in the session's store, numbered from 1
    first,      \* first_seq of each image, 0: never sent
    seq,        \* request_seq
    live, echo, sig,        \* the keys in the store
    echoFrozen, sigFrozen,  \* the latched modes, "no" before the latch
    \* what the provider got, for the properties
    last,       \* the last request it accepted
    age, rides, \* requests composed since an image came; those it rode
    lastTo,     \* the clause of the last accepted request to each model
    switched,   \* the model changed since the last accepted request
    moved       \* `image_live` changed in this chat

keys    == <<live, echo, sig>>
prompt  == <<model, pending, clause>>
latches == <<echoFrozen, sigFrozen>>
history == <<last, age, rides, lastTo>>
catalog == <<known, warm>>
vars    == <<phase, prompt, catalog, replies, images, first, seq, keys, latches,
             history, switched, moved>>

NoRequest == [fields |-> <<>>, parts |-> <<>>, live |-> 0]
Ids       == 1 .. MaxImages

-----------------------------------------------------------------------------
(* The clause *)

(* model_vision and nm_context_set_vision: only a positive claim counts.    *)
Claim(m) == m \in known /\ m \in VisionModels

(* Mutant: the clause follows the catalog at every turn.                    *)
ClauseAtStartAlways == Claim(model)

(* apply_vision_clause at the start of a turn.                              *)
ClauseAtStart == IF pending THEN Claim(model) ELSE clause

-----------------------------------------------------------------------------
(* The echoes *)

EchoMode == IF echoFrozen = "no" THEN echo ELSE echoFrozen

SigMode  == IF sigFrozen = "no" THEN sig ELSE sigFrozen

(* Every tool-call message needs the field, with a trace or empty.          *)
Trace(r, mode) ==
    IF r.calls /\ mode \in {"tools", "all"}
    THEN IF r.trace THEN "trace" ELSE "empty"
    ELSE IF r.trace /\ mode = "all" THEN "trace" ELSE "none"

(* Only what the reply delivered rides back.                                *)
Details(r, mode) ==
    IF r.details /\ ((r.calls /\ mode # "off") \/ mode = "all")
    THEN "details" ELSE "none"

Fields == [i \in 1 .. Len(replies) |->
             [trace   |-> Trace(replies[i], EchoMode),
              details |-> Details(replies[i], SigMode)]]

Echoed(fields)  == \E i \in DOMAIN fields : fields[i].trace # "none"
Signed(fields)  == \E i \in DOMAIN fields : fields[i].details # "none"

(* Mutant: one latch trigger for both modes.                                *)
FreezeTogether(fields) ==
    /\ echoFrozen' = IF Echoed(fields) THEN EchoMode ELSE echoFrozen
    /\ sigFrozen'  = IF Echoed(fields) THEN SigMode ELSE sigFrozen

Freeze(fields) ==
    /\ echoFrozen' = IF Echoed(fields) THEN EchoMode ELSE echoFrozen
    /\ sigFrozen'  = IF Signed(fields) THEN SigMode ELSE sigFrozen

-----------------------------------------------------------------------------
(* The images, in the request numbered q *)

(* nm_session_image_live                                                    *)
Live(k, q) == live = 0 \/ first[k] = 0 \/ q - first[k] < live

Parts(n, q) == [k \in 1 .. n |-> IF Live(k, q) THEN "image" ELSE "marker"]

(* Mutant: every ride is stamped.                                           *)
StampEvery(n, q) ==
    first' = [k \in Ids |-> IF k \in 1 .. n /\ Live(k, q) THEN q ELSE first[k]]

(* Mutant: a marker is stamped, and not the image.                          *)
StampMarker(n, q) ==
    first' = [k \in Ids |-> IF k \in 1 .. n /\ (first[k] = 0 \/ ~Live(k, q))
                            THEN q ELSE first[k]]

(* Mutant: the stamp is the next request's number.                          *)
StampNext(n, q) ==
    first' = [k \in Ids |-> IF k \in 1 .. n /\ first[k] = 0 THEN q + 1
                            ELSE first[k]]

(* nm_session_image_part: the first ride is stamped.                        *)
Stamp(n, q) ==
    first' = [k \in Ids |-> IF k \in 1 .. n /\ first[k] = 0 THEN q ELSE first[k]]

-----------------------------------------------------------------------------
Init ==
    /\ phase = "rest" /\ model \in Models /\ known \in SUBSET Models
    /\ warm = FALSE /\ pending = TRUE /\ clause = Claim(model)
    /\ replies = <<>> /\ images = 0 /\ first = [k \in Ids |-> 0] /\ seq = 0
    /\ live \in LiveKeys /\ echo \in Modes /\ sig \in Modes
    /\ echoFrozen = "no" /\ sigFrozen = "no"
    /\ last = NoRequest
    /\ age = [k \in Ids |-> 0] /\ rides = [k \in Ids |-> 0]
    /\ lastTo = [m \in Models |-> "none"]
    /\ switched = FALSE /\ moved = FALSE

(* begin_round, below the cap: with the clause c and n images in the store. *)
(* The number and the stamps are spent before chat_begin has its say; the   *)
(* latches follow an accepted request only.                                 *)
Compose(c, n) ==
    LET parts == Parts(n, seq + 1)
        rode  == {k \in 1 .. n : parts[k] = "image"}
    IN /\ seq < MaxRequests
       /\ seq' = seq + 1
       /\ pending' = FALSE
       /\ Stamp(n, seq + 1)
       /\ age'   = [k \in Ids |-> IF k <= n THEN age[k] + 1 ELSE 0]
       /\ rides' = [k \in Ids |-> IF k \in rode THEN rides[k] + 1 ELSE rides[k]]
       /\ \/ /\ phase' = "open"
             /\ Freeze(Fields)
             /\ last' = [fields |-> Fields, parts |-> parts, live |-> live]
             /\ lastTo' = [lastTo EXCEPT ![model] = IF c THEN "clause" ELSE "bare"]
             /\ switched' = FALSE
          \/ /\ phase' = "rest"
             /\ UNCHANGED <<latches, last, lastTo, switched>>

(* nm_agent_start: the user's message, perhaps with an image; the first     *)
(* turn may have to wait for the git stage.                                 *)
StartTurn ==
    /\ phase = "rest"
    /\ clause' = ClauseAtStart
    /\ images' \in {images, images + 1} /\ images' <= MaxImages
    /\ \/ Compose(clause', images')
       \/ /\ seq = 0 /\ phase' = "waiting"
          /\ UNCHANGED <<pending, first, seq, latches, history, switched>>
    /\ UNCHANGED <<model, catalog, replies, keys, moved>>

(* The git stage is there, or it is not worth waiting for any longer.       *)
EnvFinish ==
    /\ phase = "waiting"
    /\ Compose(clause, images)
    /\ UNCHANGED <<model, clause, catalog, replies, images, keys, moved>>

(* finish_round: a reply is recorded, with the images the model made.       *)
Reply ==
    /\ phase = "open" /\ Len(replies) < MaxReplies
    /\ \E r \in Replies :
         /\ replies' = Append(replies, r)
         /\ phase' = IF r.calls THEN "tools" ELSE "rest"
    /\ images' \in {images, images + 1} /\ images' <= MaxImages
    /\ UNCHANGED <<prompt, catalog, first, seq, keys, latches, history, switched,
                   moved>>

(* The tools have run; what they showed rides a message behind the results. *)
NextRound ==
    /\ phase = "tools"
    /\ images' \in {images, images + 1} /\ images' <= MaxImages
    /\ Compose(clause, images')
    /\ UNCHANGED <<model, clause, catalog, replies, keys, moved>>

(* A failed, void or cancelled round, the round cap, or a cancelled wait.   *)
EndTurn ==
    /\ phase # "rest" /\ phase' = "rest"
    /\ UNCHANGED <<prompt, catalog, replies, images, first, seq, keys, latches,
                   history, switched, moved>>

(* Mutant: a change of the model does not re-open the clause.               *)
SetModelQuietly(m) ==
    /\ phase = "rest" /\ m # model
    /\ model' = m /\ switched' = TRUE
    /\ UNCHANGED <<phase, pending, clause, catalog, replies, images, first, seq,
                   keys, latches, history, moved>>

(* nm_agent_set_model, from a command.                                      *)
SetModel(m) ==
    /\ phase = "rest" /\ m # model
    /\ model' = m /\ switched' = TRUE
    /\ pending' = TRUE /\ clause' = Claim(m)
    /\ UNCHANGED <<phase, catalog, replies, images, first, seq, keys, latches,
                   history, moved>>

(* The user sets a key.                                                     *)
SetKeys ==
    /\ phase = "rest"
    /\ live' \in LiveKeys /\ echo' \in Modes /\ sig' \in Modes
    /\ moved' = (moved \/ live' # live)
    /\ UNCHANGED <<phase, prompt, catalog, replies, images, first, seq, latches,
                   history, switched>>

(* The catalog fetch, which runs beside the turns, replaces the static rows *)
(* once; what it caches stays for the process.                              *)
Warm ==
    /\ ~warm /\ warm' = TRUE /\ known' \in SUBSET Models
    /\ UNCHANGED <<phase, prompt, replies, images, first, seq, keys, latches,
                   history, switched, moved>>

Next == \/ StartTurn \/ EnvFinish \/ Reply \/ NextRound \/ EndTurn
        \/ \E m \in Models : SetModel(m)
        \/ SetKeys \/ Warm

Spec == Init /\ [][Next]_vars

-----------------------------------------------------------------------------
(* Properties *)

(* Every variable has its type; no stamp lies ahead of the counter.         *)
TypeOK ==
    /\ phase \in {"rest", "waiting", "open", "tools"}
    /\ model \in Models /\ known \subseteq Models /\ warm \in BOOLEAN
    /\ pending \in BOOLEAN /\ clause \in BOOLEAN
    /\ replies \in Seq(Replies) /\ images \in 0 .. MaxImages
    /\ seq \in Nat /\ first \in [Ids -> 0 .. seq]
    /\ live \in LiveKeys /\ echo \in Modes /\ sig \in Modes
    /\ echoFrozen \in Modes \cup {"no"} /\ sigFrozen \in Modes \cup {"no"}
    /\ age \in [Ids -> Nat] /\ rides \in [Ids -> Nat]
    /\ lastTo \in [Models -> {"none", "clause", "bare"}]
    /\ switched \in BOOLEAN /\ moved \in BOOLEAN

Accepts == seq' # seq /\ phase' = "open"

(* Once a request has carried a reasoning field, no later request adds,     *)
(* drops or alters one in the part it has in common with it, and the same   *)
(* of the signed details: whatever the user does to the keys, and neither   *)
(* key reshapes what the other one sends.                                   *)
EchoKept ==
    [][Accepts =>
         /\ Echoed(last.fields) => \A i \in DOMAIN last.fields :
               last'.fields[i].trace = last.fields[i].trace
         /\ Signed(last.fields) => \A i \in DOMAIN last.fields :
               last'.fields[i].details = last.fields[i].details]_vars

(* While the key stays as it is, an image rides exactly as many of the      *)
(* requests composed since it came as the key says.                         *)
WindowExact ==
    ~moved => \A k \in Ids :
        rides[k] = IF live = 0 \/ age[k] < live THEN age[k] ELSE live

(* An aged image comes back only when the window was widened: the prefix    *)
(* is broken once per image and never again.                                *)
MarkersStay ==
    [][Accepts => \A k \in DOMAIN last.parts :
         last.parts[k] = "marker" /\ live # 0 /\ live <= last.live =>
            last'.parts[k] = "marker"]_vars

(* Between two requests to a model with no switch between them the clause   *)
(* neither enters nor leaves the prompt, however late the catalog warms.    *)
ClauseKept ==
    [][Accepts /\ ~switched /\ lastTo[model] # "none" =>
         lastTo'[model] = lastTo[model]]_vars

(* No model is told that it sees images unless its catalog row says so,     *)
(* whatever models the chat went through.                                   *)
ClauseHonest == \A m \in Models : lastTo[m] = "clause" => m \in VisionModels

(* What a request has carried stays as it was sent, echoed fields and aged  *)
(* images alike: the provider's prefix cache depends on both.               *)
SentStays == MarkersStay /\ EchoKept

(* The clause is true of the model it is sent to, and stays as it was sent. *)
ClauseSteady == []ClauseHonest /\ ClauseKept
=============================================================================
