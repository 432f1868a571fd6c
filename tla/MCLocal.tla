------------------------------ MODULE MCLocal -------------------------------
(* What the program keeps and runs on its own machine, checked side by      *)
(* side: in each behaviour one part moves (`turn`) and the others stand     *)
(* still in an initial state.  The configuration store and web_search are   *)
(* one part, since the search reads the store and latches into it.          *)
EXTENDS WebSearch, WinCommand, MCForms

---------------------------------------------------------------------------
(* The store: two instances, a key with a gate on an output cap and one     *)
(* that a preset sets with it, the model, which a run may pin, and the two  *)
(* keys of web_search.                                                      *)
MCPlain  == <<"max_tokens", "searxng", "searxng_enabled">>
MCScoped == <<"model", "routing", "tier">>
MCValues == [k \in {"max_tokens", "searxng", "searxng_enabled", "model", "routing",
                  "tier"} |->
    CASE k = "max_tokens" -> {"9"}     [] k = "searxng" -> {"near", "bad"}
      [] k = "searxng_enabled" -> {"on"} [] k = "routing" -> {"floor"}
      [] k = "model" -> {"m"}           [] k = "tier" -> {"ultrafast"}]
MCPresets   == {"routing" :> "floor" @@ "tier" :> "ultrafast",
                "routing" :> None @@ "tier" :> None}
MCGated     == {<<"tier", "ultrafast">>}
MCUserFiles == {<<>>}
MCEnvs      == {<<>>, "max_tokens" :> "9" @@ "model" :> "m2"}

---------------------------------------------------------------------------
(* The files: one of each kind, and a second name that may lead to it.      *)
MCTexts == {<<>>, <<"x", "?">>}
MCEdits == {[old |-> <<"x">>, new |-> <<"y", "x">>, all |-> a] : a \in BOOLEAN}
MCDirs ==
    {[f |-> one, l |-> other] :
        one \in {Absent, Entry("dir", <<>>, "rw", ""), Entry("file", <<"x", "x">>, "rwx", ""),
                 Entry("file", <<"x">>, "ro", ""), Entry("link", <<>>, "rw", "f")},
        other \in {Absent, Entry("link", <<>>, "rw", "f")}}

---------------------------------------------------------------------------
(* The prompt: git told everything, nothing changed, or ran out of time.    *)
MCOutputs == {<<"B", "m", "S", "C", "m", "">>, <<"B", "", "S", "m", "m", "m", "C">>, <<>>}

---------------------------------------------------------------------------
local == <<forms, settings, web, oneshot, windows, files, prompts>>

LocalInit ==
    /\ turn \in {"store", "search", "command", "windows", "files", "prompt"} \cup DOMAIN Forms
    /\ SettingsInit /\ WebInit /\ CommandInit /\ WinInit
    /\ FilesIdle /\ (dir \in IF turn = "files" THEN Dirs ELSE {[n \in FileNames |-> Absent]})
    /\ IF turn = "prompt" THEN PromptInit
       ELSE /\ prompt = NewPrompt(FALSE, FALSE, <<>>, <<>>) /\ system = <<>> /\ gits = <<>>
            /\ made = [calls |-> 0, env |-> FALSE, rest |-> <<>>]
    /\ FormsInit

(* Two instances and their commands on the store; or one instance that also *)
(* searches, with the commands on the keys the search reads, which reach    *)
(* the store only while no search runs.                                     *)
Alive   == IF turn = "store" THEN Insts ELSE {Me}
Touched == IF turn = "store" THEN {"max_tokens", "tier"}
                             ELSE {EndpointKey, EnabledKey}

Models  == IF turn = "store" THEN ValuesOf[PinKey] ELSE {}
Bundles == IF turn = "store" THEN Presets ELSE {}

Others(t) ==
    /\ t \notin {"store", "search"} => UNCHANGED <<settings, web>>
    /\ t # "command" => UNCHANGED oneshot
    /\ t # "windows" => UNCHANGED windows
    /\ t # "files" => UNCHANGED files
    /\ t # "prompt" => UNCHANGED prompts

KeptNext ==
    \/ turn \in {"store", "search"} /\ StoreNext(Alive, Touched, Models, Bundles)
    \/ turn = "search" /\ SearchNext
    \/ turn = "command" /\ CommandNext
    \/ turn = "windows" /\ WinNext
    \/ turn = "files" /\ FilesNext
    \/ turn = "prompt" /\ PromptNext

LocalNext ==
    /\ Others(turn)
    /\ \/ FormsNext
       \/ UNCHANGED forms /\ KeptNext

(* The loop steps what is due, and time passes.                             *)
LocalSpec ==
    /\ LocalInit /\ [][LocalNext]_local
    /\ WF_local(turn = "command" /\ CommandDue /\ CommandStep /\ LocalNext)
    /\ WF_local(turn = "command" /\ CommandTick /\ LocalNext)
    /\ WF_local(turn = "windows" /\ WinStep /\ LocalNext)
    /\ WF_local(turn = "windows" /\ WinTick /\ LocalNext)
    /\ \A c \in Runs : WF_local(turn = "windows" /\ Reader(c) /\ LocalNext)
    /\ WF_local(turn = "search" /\ search.at = "running" /\ search.left = 0
                  /\ SearchStep /\ LocalNext)
    /\ WF_local(turn = "search" /\ SearchTick /\ LocalNext)

-----------------------------------------------------------------------------
(* Properties *)

(* A command on either platform and a search come to an end, whatever the   *)
(* child, its descendants or the peer do, while silence is bounded.         *)
OneShotsEnd ==
    /\ Running ~> ~Running
    /\ Searching ~> ~Searching
    /\ drive.at \notin {"idle", "quit"} ~> drive.at \in {"idle", "quit"}

(* A newly pointed endpoint re-enables the probe (tools_websearch.c:703):   *)
(* no search is refused as unreachable on account of another endpoint than  *)
(* the one configured, unless the user turned searching off.                *)
RefusedForThisEndpoint ==
    [][search' # search /\ search' = [at |-> "ended", how |-> "refused"] =>
         Source(conf[Me], EnabledKey) # "runtime" \/ Endpoint = probed]_local
=============================================================================
