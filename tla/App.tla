-------------------------------- MODULE App --------------------------------
(* The chat application between two waits of its loop (chat_app.c): the      *)
(* prompt line and the one popup that commands, models, providers and the    *)
(* mention picker share (mention_ui.c), the images waiting for the next      *)
(* message, the catalog fetch and the balance refresh that run beside the    *)
(* turn, and what a provider switch does to all of them.  The agent is its   *)
(* state as the app sees it: at work or at rest.                             *)
EXTENDS Catalog, Sequences, FiniteSets

CONSTANTS Scenes, MaxImages

VARIABLES
    scene,     \* this session: kinds of catalog, balance endpoints, knob, user
    prov,      \* app->provider
    hasModel,  \* app->model is set
    busy,      \* the agent streams or runs a tool
    images,    \* images in the agent's store
    pending,   \* app->pending_images: ids into that store
    ui,        \* prompt line, popup and mention picker
    c,         \* catalog machines, caches, the app's list source
    purse,     \* balance record per provider
    retry,     \* app->credits_retry_at, as time still to run
    tried      \* the refresh timer's window and its attempts in it

vars == <<scene, prov, hasModel, busy, images, pending, ui, c, purse, retry, tried>>

Min0(a, b) == IF a < b THEN a ELSE b
Kind(p)     == scene.kind[p]
Endpoint(p) == p \in scene.endpoints

---------------------------------------------------------------------------
(* The popup and the mention picker: operators on the record ui.             *)
Blank == [draft |-> "", visible |-> FALSE, kind |-> "none", rows |-> "none",
          of |-> "none", footer |-> FALSE, active |-> FALSE, quiet |-> FALSE]

(* "at": the cursor stands in a mention; "slash": the line is a command.     *)
Drafts == {"", "text", "at", "slash"}

ASSUME SceneAssumption ==
    /\ MaxImages \in Nat
    /\ \A s \in Scenes : /\ s.unbidden \in BOOLEAN /\ s.types \subseteq Drafts
                         /\ s.kind \in [Providers -> DOMAIN First]

Hidden(u) == [u EXCEPT !.visible = FALSE, !.kind = "none"]

(* The picker takes its rows, its footer and the popup-kind latch away, and  *)
(* does nothing when it was not open.                                        *)
MentionClosed(u) ==
    IF ~u.active THEN u
    ELSE [Hidden(u) EXCEPT !.active = FALSE, !.footer = FALSE]

(* Its rows go into the popup; the latch is told only when it opens.         *)
MentionShown(u) ==
    [u EXCEPT !.rows = "mention", !.of = "none", !.footer = TRUE,
              !.visible = TRUE, !.active = TRUE,
              !.kind = IF u.active THEN @ ELSE "mention"]

(* Everything about the picker is derived from the line, at every update.    *)
(* It may find that the token already names its one candidate.               *)
MentionSync(u, edited, reentry, mayOpen) ==
    LET heard == [u EXCEPT !.quiet = FALSE]
    IN IF u.draft # "at" THEN {[MentionClosed(u) EXCEPT !.quiet = FALSE]}
       ELSE IF u.quiet /\ ~edited THEN {u}
       ELSE IF ~mayOpen THEN {MentionClosed(heard)}
       ELSE IF ~edited /\ ~reentry THEN {heard}
       ELSE {MentionClosed(heard), MentionShown(heard)}

Typed(u) == {[u EXCEPT !.draft = d] : d \in scene.types}

(* Enter in the picker: a directory goes on browsing, a file ends the token. *)
MentionCommit(u) ==
    MentionSync(u, TRUE, FALSE, TRUE)
    \cup MentionSync([u EXCEPT !.draft = "text"], TRUE, FALSE, FALSE)

MentionKey(u, key) ==
    CASE ~u.active      -> {u}
      [] key = "down"   -> {u}
      [] key = "esc"    -> {MentionClosed([u EXCEPT !.quiet = TRUE])}
      [] key = "enter"  -> {MentionClosed(u)} \cup MentionCommit(u)
      [] key = "char"   -> UNION {MentionSync(v, TRUE, FALSE, TRUE) : v \in Typed(u)}
      [] OTHER          -> {u}

(* A popup row becomes the prompt: a whole command from the model and        *)
(* provider pickers, a completed word otherwise.                             *)
Picked(u) ==
    IF u.kind \in {"models", "providers"} THEN {[u EXCEPT !.draft = "slash"]}
    ELSE IF u.rows = "mention" THEN {[u EXCEPT !.draft = "text"], [u EXCEPT !.draft = "at"]}
    ELSE {[u EXCEPT !.draft = "slash"]}

(* A key while the popup shows, and the sync at the end of the update: text  *)
(* changed in here is news to it.                                            *)
PopupKey(u, key) ==
    IF u.kind = "mention"
    THEN UNION {MentionSync(v, FALSE, FALSE, TRUE) : v \in MentionKey(u, key)}
    ELSE CASE key = "esc"   -> MentionSync(Hidden(u), FALSE, FALSE, TRUE)
           [] key = "enter" -> UNION {MentionSync(Hidden(v), TRUE, FALSE, TRUE) : v \in Picked(u)}
           [] key = "char"  -> UNION {MentionSync(Hidden(v), TRUE, FALSE, TRUE) : v \in Typed(u)}
           [] OTHER         -> MentionSync(u, FALSE, FALSE, TRUE)

(* A list put into the popup: shown, or hidden when the filter leaves none.  *)
Offered(u, what, p) ==
    LET filled == [u EXCEPT !.rows = what, !.of = p]
    IN {[filled EXCEPT !.visible = TRUE, !.kind = what],
        [filled EXCEPT !.visible = FALSE]}

(* show_models_popup: no row passes the query, or the list is offered.       *)
ModelsShown(u, p) == {u} \cup Offered(u, "models", p)

(* Tab on a command prefix: none, one inserted, or a list.                   *)
Completed(u) ==
    {u, [u EXCEPT !.visible = TRUE, !.kind = "commands", !.rows = "commands",
                  !.of = "none"]}

---------------------------------------------------------------------------
(* The catalog in the app: pairs <<c, ui>>.                                  *)
CatalogStep ==
    UNION { IF r[2] = "pending" THEN {<<r[1], ui>>}
            ELSE {<<[r[1] EXCEPT !.src = NoSource, !.owed = FALSE], v>> :
                    v \in IF c.owed THEN ModelsShown(ui, c.src) ELSE {ui}}
            : r \in SourceStep(c, Kind(c.src)) }

(* /model without an exact id: the fetch under way is upgraded in place, or  *)
(* one is begun, or the cached list is ready now.                            *)
ModelsAsked(u) ==
    IF c.src # NoSource THEN {<<[c EXCEPT !.owed = TRUE], u>>}
    ELSE UNION { IF r[2] = "fetching" THEN {<<[r[1] EXCEPT !.owed = TRUE], u>>}
                 ELSE {<<r[1], v>> : v \in ModelsShown(u, prov)}
                 : r \in Opened(c, prov, Kind(prov), scene.unbidden) }

(* The background warm: silent, and only where unbidden traffic is allowed.  *)
Warmed(k, p) ==
    IF k.src # NoSource \/ ~scene.unbidden THEN {k}
    ELSE {r[1] : r \in Opened(k, p, Kind(p), TRUE)}

CreditsWarmed(w, p) ==
    IF ~scene.unbidden THEN {w}
    ELSE {[w EXCEPT ![p] = k] : k \in CreditBegins(w[p], Endpoint(p))}

---------------------------------------------------------------------------
(* Start-up: the agent is built over the provider, both warms are begun.     *)
NoTry == [left |-> 0, n |-> 0]
Cold(s) == [mach |-> [p \in Providers |-> Still],
            cache |-> [p \in Providers |-> IF s.does = "picker" THEN "cold" ELSE "live"],
            document |-> FALSE, src |-> NoSource, owed |-> FALSE]

Init ==
    /\ scene \in Scenes
    /\ prov \in Providers
    /\ hasModel \in BOOLEAN
    /\ busy = FALSE /\ images = 0 /\ pending = <<>>
    /\ ui = Blank
    /\ c \in Warmed(Cold(scene), prov)
    /\ purse \in CreditsWarmed([p \in Providers |-> Unread], prov)
    /\ retry = 0 /\ tried = NoTry

Updated(us) == ui' \in us

(* A key while the popup is on the screen.                                   *)
PopupKeyPressed ==
    /\ ui.visible
    /\ \E key \in {"esc", "enter", "char", "down"} : Updated(PopupKey(ui, key))
    /\ UNCHANGED <<scene, prov, hasModel, busy, images, pending, c, purse, retry, tried>>

(* An edit, a paste or a completion request without a popup.                 *)
LineKey ==
    /\ ~ui.visible
    /\ \/ Updated(UNION {MentionSync(v, TRUE, FALSE, TRUE) : v \in Typed(ui)})
       \/ ui.draft = "at" /\ scene.does = "picker"
          /\ Updated(UNION {MentionSync(v, FALSE, FALSE, TRUE) :
                            v \in MentionSync([ui EXCEPT !.quiet = FALSE], FALSE, TRUE, TRUE)})
       \/ ui.draft = "slash" /\ scene.does = "picker" /\ Updated(Completed(ui))
    /\ UNCHANGED <<scene, prov, hasModel, busy, images, pending, c, purse, retry, tried>>

(* Ctrl-C: the turn first, then the popup, then the line (then the program). *)
TurnCancelled ==
    /\ busy' = FALSE
    /\ UNCHANGED <<scene, prov, hasModel, images, pending, ui, c, purse, retry, tried>>

Interrupt ==
    \/ busy /\ TurnCancelled
    \/ /\ ~busy /\ (ui.visible \/ ui.draft # "")
       /\ IF ui.visible
          THEN Updated(MentionSync(Hidden(MentionClosed(ui)), FALSE, FALSE, TRUE))
          ELSE Updated(MentionSync([ui EXCEPT !.draft = ""], TRUE, FALSE, TRUE))
       /\ UNCHANGED <<scene, prov, hasModel, busy, images, pending, c, purse, retry, tried>>

(* Escape with no popup cancels the turn and nothing else.                   *)
EscapeTurn == ~ui.visible /\ busy /\ TurnCancelled

(* End of input closes the popup; on a line at rest it only deletes.         *)
EndOfInput ==
    /\ ui.visible
    /\ Updated(MentionSync(Hidden(MentionClosed(ui)), FALSE, FALSE, TRUE))
    /\ UNCHANGED <<scene, prov, hasModel, busy, images, pending, c, purse, retry, tried>>

---------------------------------------------------------------------------
(* Enter on the line, at rest.  The picker is retired first; the line is     *)
(* cleared before the command or the turn runs.                              *)
Sent == [MentionClosed(ui) EXCEPT !.draft = "", !.quiet = FALSE]
CanSubmit(d) == ~ui.visible /\ ~busy /\ ui.draft = d

(* A message: refused without a model, with the line left as it is; else the *)
(* pending images go with it.                                                *)
SubmitText ==
    /\ ~ui.visible /\ ~busy /\ ui.draft # "slash"
    /\ ui.draft # "" \/ pending # <<>>
    /\ IF hasModel
       THEN ui' = Sent /\ busy' = TRUE /\ pending' = <<>>
       ELSE Updated(MentionSync(MentionClosed(ui), FALSE, FALSE, TRUE)) /\ UNCHANGED <<busy, pending>>
    /\ UNCHANGED <<scene, prov, hasModel, images, c, purse, retry, tried>>

(* /model: a picker, or the id itself taken at once.                         *)
ModelCommand ==
    /\ CanSubmit("slash") /\ scene.does = "picker"
    /\ \/ \E r \in ModelsAsked(Sent) : c' = r[1] /\ ui' = r[2] /\ UNCHANGED hasModel
       \/ hasModel' = TRUE /\ ui' = Sent /\ UNCHANGED c
    /\ UNCHANGED <<scene, prov, busy, images, pending, purse, retry, tried>>

ProvidersCommand ==
    /\ CanSubmit("slash") /\ scene.does = "picker"
    /\ Updated({Sent} \cup Offered(Sent, "providers", "none"))
    /\ UNCHANGED <<scene, prov, hasModel, busy, images, pending, c, purse, retry, tried>>

(* Mutant: the ids outlive the store.                                        *)
PendingKept    == pending

(* /provider: a fresh session.  Pending images go with the old store, the    *)
(* old provider's catalog fetch with the old provider, the refresh backoff   *)
(* with it; then both warms are begun for the new one.                       *)
PendingDropped == <<>>
SwitchProvider(p) ==
    /\ CanSubmit("slash")
    /\ ui' = Sent /\ prov' = p /\ hasModel' \in BOOLEAN
    /\ pending' = PendingDropped /\ images' = 0
    /\ c' \in Warmed(SourceFreed(c), p)
    /\ purse' \in CreditsWarmed(purse, p)
    /\ retry' = 0 /\ tried' = NoTry
    /\ UNCHANGED <<scene, busy>>

(* /image: attached to the agent's store and to the next message, dropped    *)
(* from the message (never from the store).                                  *)
ImageCommand ==
    /\ CanSubmit("slash") /\ scene.does = "images"
    /\ ui' = Sent
    /\ \/ /\ images < MaxImages
          /\ images' = images + 1 /\ pending' = Append(pending, images)
       \/ \E i \in 1..Len(pending) :
            /\ pending' = SubSeq(pending, 1, i - 1) \o SubSeq(pending, i + 1, Len(pending))
            /\ UNCHANGED images
    /\ UNCHANGED <<scene, prov, hasModel, busy, c, purse, retry, tried>>

(* The active provider's record after a begin.                               *)
CreditAsked ==
    purse' \in {[purse EXCEPT ![prov] = k] : k \in CreditBegins(purse[prov], Endpoint(prov))}

(* /credits prints what is known and asks again when that is stale.          *)
CreditsCommand ==
    /\ CanSubmit("slash") /\ scene.does = "purse"
    /\ ui' = Sent
    /\ IF Stale(purse[prov]) THEN CreditAsked ELSE UNCHANGED purse
    /\ UNCHANGED <<scene, prov, hasModel, busy, images, pending, c, retry, tried>>

---------------------------------------------------------------------------
(* What the agent reports during and after a turn.                           *)
ImageArrives ==
    /\ busy /\ scene.does = "images" /\ images < MaxImages
    /\ images' = images + 1
    /\ UNCHANGED <<scene, prov, hasModel, busy, pending, ui, c, purse, retry, tried>>

(* A turn that is done refreshes a stale balance; a failed one does not.     *)
TurnEnds(done) ==
    /\ busy /\ busy' = FALSE
    /\ IF done /\ Stale(purse[prov]) THEN CreditAsked ELSE UNCHANGED purse
    /\ UNCHANGED <<scene, prov, hasModel, images, pending, ui, c, retry, tried>>

(* A round refused for want of credit asks for the balance out of band.      *)
PaymentRequired ==
    /\ busy /\ CreditAsked
    /\ UNCHANGED <<scene, prov, hasModel, busy, images, pending, ui, c, retry, tried>>

---------------------------------------------------------------------------
(* A socket of the wait set is ready: the catalog's, or the balance's of the *)
(* active provider.                                                          *)
CatalogReady ==
    /\ c.src # NoSource
    /\ \E r \in CatalogStep : c' = r[1] /\ ui' = r[2]
    /\ UNCHANGED <<scene, prov, hasModel, busy, images, pending, purse, retry, tried>>

CreditReady ==
    /\ InFlight(purse[prov])
    /\ \E k \in CreditStep(purse[prov], prov) : purse' = [purse EXCEPT ![prov] = k]
    /\ UNCHANGED <<scene, prov, hasModel, busy, images, pending, ui, c, retry, tried>>

(* Mutant: the timer is not armed before the attempt.                       *)
FiresUnarmed(k) ==
    /\ retry' = retry
    /\ tried' = [left |-> TTL,
                 n |-> IF tried.left = 0 THEN 1 ELSE Min0(2, tried.n + 1)]
    /\ purse' \in {[purse EXCEPT ![prov] = r] : r \in CreditBegins(k, TRUE)}

(* The refresh timer: armed for the next window first, then the attempt.     *)
RefreshDue(k) ==
    /\ scene.unbidden /\ Endpoint(prov)
    /\ ~InFlight(k) /\ DueIn(k, retry) = 0
Fires(k) ==
    /\ retry' = TTL
    /\ tried' = [left |-> TTL,
                 n |-> IF tried.left = 0 THEN 1 ELSE Min0(2, tried.n + 1)]
    /\ purse' \in {[purse EXCEPT ![prov] = r] : r \in CreditBegins(k, TRUE)}

(* nm_chat_app_tick: the table in order, each entry whose time is up.        *)
SomethingDue ==
    \/ c.src # NoSource /\ Due(c.mach[c.src].fetch)
    \/ Due(purse[prov].fetch)
    \/ RefreshDue(purse[prov])
Tick ==
    /\ SomethingDue
    /\ IF c.src # NoSource /\ Due(c.mach[c.src].fetch)
       THEN \E r \in CatalogStep : c' = r[1] /\ ui' = r[2]
       ELSE UNCHANGED <<c, ui>>
    /\ \E k \in IF Due(purse[prov].fetch) THEN CreditStep(purse[prov], prov)
                                          ELSE {purse[prov]} :
          IF RefreshDue(k) THEN Fires(k)
          ELSE /\ purse' = [purse EXCEPT ![prov] = k]
               /\ UNCHANGED <<retry, tried>>
    /\ UNCHANGED <<scene, prov, hasModel, busy, images, pending>>

(* Time passes for every fetch, asked after or not, and for every gate.      *)
TimePasses ==
    /\ c' = [c EXCEPT !.mach = [p \in Providers |->
                [c.mach[p] EXCEPT !.fetch = Aged(@)]]]
    /\ purse' = [p \in Providers |-> Older(purse[p])]
    /\ retry' = Less(retry)
    /\ tried' = IF tried.left <= 1 THEN NoTry ELSE [tried EXCEPT !.left = @ - 1]
    /\ UNCHANGED <<scene, prov, hasModel, busy, images, pending, ui>>

Next ==
    \/ PopupKeyPressed \/ LineKey \/ Interrupt \/ EscapeTurn \/ EndOfInput
    \/ SubmitText \/ ModelCommand \/ ProvidersCommand \/ ImageCommand
    \/ CreditsCommand
    \/ \E p \in Providers : SwitchProvider(p)
    \/ ImageArrives \/ PaymentRequired \/ \E done \in BOOLEAN : TurnEnds(done)
    \/ CatalogReady \/ CreditReady \/ Tick \/ TimePasses

Spec == Init /\ [][Next]_vars
(* The clock goes on, and the loop runs its timers when their time is up.    *)
FairSpec == Spec /\ WF_vars(TimePasses) /\ WF_vars(Tick)

---------------------------------------------------------------------------
(* What the state is made of.                                                *)
Stages   == {"idle", "list", "document", "verbose", "tags", "show"}
Fetches  == [phase : {"none", "connect", "answer"}, left : Nat, got : Nat]
Machines == [stage : Stages, fetch : Fetches, rows : Nat, at : Nat, failed : BOOLEAN]
Catalogs == [mach : [Providers -> Machines], cache : [Providers -> {"cold", "live"}],
             document : BOOLEAN, src : Providers \cup {NoSource}, owed : BOOLEAN]
Balances == [fetch : Fetches, step : Nat, allowed : Nat, fresh : Nat \cup {Never}]
Popups   == {"none", "commands", "models", "providers", "mention"}
Screens  == [draft : Drafts, visible : BOOLEAN, kind : Popups, rows : Popups,
             of : Providers \cup {"none"}, footer : BOOLEAN, active : BOOLEAN,
             quiet : BOOLEAN]

AppTypeOK ==
    /\ scene \in Scenes /\ prov \in Providers
    /\ hasModel \in BOOLEAN /\ busy \in BOOLEAN
    /\ images \in Nat /\ pending \in Seq(Nat)
    /\ ui \in Screens /\ c \in Catalogs /\ purse \in [Providers -> Balances]
    /\ retry \in Nat /\ tried \in [left : Nat, n : Nat]

---------------------------------------------------------------------------
(* A machine runs exactly while the app's source owns it, and it is the      *)
(* active provider's: one left behind by a switch would refuse every later   *)
(* begin, and two could both fetch the document they share.                  *)
MachineHasItsSource ==
    \A p \in Providers :
        Running(c, p) <=> c.src = p /\ p = prov /\ Live(c.mach[p].fetch)

(* Model rows on the screen are the active provider's, however late they     *)
(* came and whatever was switched meanwhile; a popup is owed only while a    *)
(* fetch that can open it is under way.                                      *)
RowsAreTheProviders ==
    /\ ui.visible /\ ui.rows = "models" => ui.of = prov
    /\ c.owed => c.src = prov

(* Every image waiting for the next message is in the agent's own store,     *)
(* once: a fresh session has neither.                                        *)
PendingIsAlive ==
    /\ \A i \in 1..Len(pending) : pending[i] < images
    /\ \A i, j \in 1..Len(pending) : pending[i] = pending[j] => i = j

(* The idle refresh makes one attempt per window, however it ends.           *)
OneAttemptPerWindow == tried.n <= 1

(* A list that was asked for is shown or given up, and a balance request of  *)
(* the active provider ends, whatever the peers do: at rest, or (its wait    *)
(* having outlived the window) in the same pass as the next attempt.         *)
FetchesEnd ==
    /\ c.owed ~> ~c.owed
    /\ \A p \in Providers :
        InFlight(purse[p]) ~> (~InFlight(purse[p]) \/ prov # p \/ retry = TTL)

(* Stated where the mention picker closes: its footer is never left for      *)
(* another picker's user to read.                                            *)
FooterIsTheMentions == ui.visible /\ ui.footer => ui.rows = "mention"

---------------------------------------------------------------------------
(* The inductive invariant: the source owns the one machine that runs, its   *)
(* fetch is alive, and it reads the active provider's; the rows on screen    *)
(* are that provider's; and the timer is armed for as long as its window.    *)
SourceOwns(k) ==
    /\ \A p \in Providers : Running(k, p) <=> k.src = p
    /\ k.src # NoSource => Live(k.mach[k.src].fetch)
    /\ k.owed => k.src # NoSource

RowsOf(u, p) == u.visible /\ u.rows = "models" => u.of = p

AppInv ==
    /\ AppTypeOK
    /\ SourceOwns(c) /\ c.src \in {NoSource, prov}
    /\ RowsOf(ui, prov)
    /\ PendingIsAlive
    /\ tried.left <= retry /\ tried.n <= 1
=============================================================================
