------------------------------ MODULE Settings ------------------------------
(***************************************************************************)
(* The configuration store (conf.c) and the commands that write it         *)
(* (chat_app.c), for every instance of the program on one home directory.  *)
(*                                                                         *)
(* A key is resolved through layers: what the machinery learned in this    *)
(* run, the command line, the environment, the shadow file (what the user  *)
(* changed at the prompt), the user's own file, the built-in default.  The *)
(* shadow file is replaced as a whole: written under another name, then    *)
(* renamed.  A file's content is a sequence of lines <<key, value>>; a     *)
(* value is one its key accepts, in its canonical spelling (Spellings).    *)
(***************************************************************************)
EXTENDS Integers, Sequences, FiniteSets

CONSTANTS
    Insts,      \* instances of the program
    Plain,      \* keys with all layers, as a sequence: the order of KEYS
    Scoped,     \* keys of one provider, <base>.<provider>, as a sequence
    ValuesOf,   \* key -> the values the user may give it
    Gated,      \* <<key, value>> pairs that need an output cap to be set
    CapKey,     \* the key of that cap: max_tokens
    PinKey,     \* the scoped key the run's model overrides are bound to
    Presets,    \* what a preset gives: functions from some keys to values
    UserFiles,  \* possible contents of the user's file
    Envs,       \* possible environments: functions from some keys to values
    MaxWrites   \* bound: commands that change the store

None == "unset"

Elems(s) == {s[i] : i \in DOMAIN s}
PlainKeys == Elems(Plain)
ScopedKeys == Elems(Scoped)
Keys == PlainKeys \cup ScopedKeys
KeySeq == Plain \o Scoped

ASSUME SettingsAssumption ==
    /\ Plain \in Seq(PlainKeys) /\ Scoped \in Seq(ScopedKeys)
    /\ PlainKeys \cap ScopedKeys = {}
    /\ CapKey \in PlainKeys /\ PinKey \in ScopedKeys
    /\ \A g \in Gated : g[1] \in ScopedKeys
    /\ None \notin UNION {ValuesOf[k] : k \in Keys}
    /\ \A gives \in Presets : /\ DOMAIN gives \subseteq Keys \ {PinKey}
                              /\ gives = [k \in DOMAIN gives |-> gives[k]]
    /\ \A file \in UserFiles : file \in Seq({file[i] : i \in DOMAIN file})
    /\ IsFiniteSet(Insts) /\ None \notin Insts
    /\ MaxWrites \in Nat

Empty == [k \in Keys |-> None]

VARIABLES
    conf,   \* NmConfig of each instance
    save,   \* shadow_flush of each instance: where it is, what it writes
    disk,   \* the inodes behind the shadow's name and its .tmp (0: none)
    node,   \* inode -> its lines
    told,   \* what the last command of each instance was told
    writes, \* commands so far
    drafts, \* every text a save meant to write
    mirror, \* the instance whose layer the file repeats, None when unknown
    raced   \* two saves were under way at once
settings == <<conf, save, disk, node, told, writes, drafts, mirror, raced>>
history == <<drafts, mirror, raced>>

Nodes == 1 .. Cardinality(Insts) + 2
Idle == [at |-> "idle"]
Untold == [said |-> "nothing", gives |-> <<>>]
Up(p) == conf[p].up

-----------------------------------------------------------------------------
(* Resolution.                                                              *)

Layers == <<"runtime", "cli", "env", "shadow", "user">>

(* The layer that answers for k: a scoped key has only the two files.       *)
Source(c, k) ==
    LET of == IF k \in PlainKeys THEN 1 .. 5 ELSE 4 .. 5
        set == {i \in of : c[Layers[i]][k] # None}
    IN IF set = {} THEN "default"
       ELSE Layers[CHOOSE i \in set : \A j \in set : i <= j]

Resolve(c, k) == IF Source(c, k) = "default" THEN None ELSE c[Source(c, k)][k]

(* nm_config_scoped_for: the model of the provider the run started with is  *)
(* pinned by -m and $NEVERMORE_MODEL, the store's own entries come below.   *)
ScopedFor(c, k) ==
    IF k = PinKey /\ c.pin # None THEN c.pin ELSE Resolve(c, k)

(* The one rule across keys: a value that needs an output cap is refused    *)
(* while none is set.                                                       *)
Accepts(c, k, v) == <<k, v>> \in Gated => Resolve(c, CapKey) # None

-----------------------------------------------------------------------------
(* Loading and rendering.                                                   *)

(* scan_file: line by line into one layer; each line is checked against the *)
(* store as it is by then.                                                  *)
ScanLine(c, line, layer) ==
    IF line[1] \in Keys /\ Accepts(c, line[1], line[2])
    THEN [c EXCEPT ![layer][line[1]] = line[2]] ELSE c

Scanned(c0, lines, layer) ==
    LET after[n \in 0 .. Len(lines)] ==
          IF n = 0 THEN c0 ELSE ScanLine(after[n - 1], lines[n], layer)
    IN after[Len(lines)]

Blank == [runtime |-> Empty, cli |-> Empty, env |-> Empty, shadow |-> Empty,
          user |-> Empty, pin |-> None, up |-> FALSE]

Loaded(userLines, shadowLines) ==
    Scanned(Scanned(Blank, userLines, "user"), shadowLines, "shadow")

(* Mutant: the scoped keys come first, before the cap they may need.        *)
RenderScopedFirst(layer) ==
    SelectSeq([i \in 1 .. Len(KeySeq) |->
                 LET k == (Scoped \o Plain)[i] IN <<k, layer[k]>>],
              LAMBDA line : line[2] # None)

(* shadow_render: the keys that are set, the plain ones first.              *)
Render(layer) ==
    SelectSeq([i \in 1 .. Len(KeySeq) |-> <<KeySeq[i], layer[KeySeq[i]]>>],
              LAMBDA line : line[2] # None)

ShadowLines == IF disk.shadow = 0 THEN <<>> ELSE node[disk.shadow]

-----------------------------------------------------------------------------
(* Instances come and go.  main.c loads the files, then lays the            *)
(* environment and the command line over them, then binds the model.        *)

SettingsInit ==
    /\ conf = [p \in Insts |-> Blank] /\ save = [p \in Insts |-> Idle]
    /\ disk = [shadow |-> 0, tmp |-> 0] /\ node = [n \in Nodes |-> <<>>]
    /\ told = [p \in Insts |-> Untold]
    /\ writes = 0
    /\ drafts = {} /\ mirror = None /\ raced = FALSE

(* nm_config_set_env, nm_config_set_cli: a layer of its own for each.       *)
Given(values) ==
    [k \in Keys |-> IF k \in DOMAIN values /\ k # PinKey THEN values[k]
                                                          ELSE None]

(* nm_config_bind_model: the override is the first provider's.              *)
Pin(env, cli) ==
    IF PinKey \in DOMAIN cli THEN cli[PinKey]
    ELSE IF PinKey \in DOMAIN env THEN env[PinKey] ELSE None

Start(p) ==
    /\ ~Up(p)
    /\ \E file \in UserFiles, env \in Envs, cli \in Envs :
         conf' = [conf EXCEPT ![p] =
            [Loaded(file, ShadowLines) EXCEPT
                !.env = Given(env), !.cli = Given(cli),
                !.pin = Pin(env, cli), !.up = TRUE]]
    /\ told' = [told EXCEPT ![p] = Untold]
    /\ UNCHANGED <<save, disk, node, writes, history>>

(* Killed or quit, perhaps in the middle of a save.                         *)
Stop(p) ==
    /\ Up(p)
    /\ conf' = [conf EXCEPT ![p] = Blank]
    /\ save' = [save EXCEPT ![p] = Idle]
    /\ told' = [told EXCEPT ![p] = Untold]
    /\ mirror' = IF mirror = p THEN None ELSE mirror
    /\ UNCHANGED <<disk, node, writes, drafts, raced>>

-----------------------------------------------------------------------------
(* Commands.  Each changes the layer in memory and starts a save.           *)

(* told with what the command is about.                                     *)
Tell(p, said, gives) ==
    told' = [told EXCEPT ![p] = [said |-> said, gives |-> gives]]

Refuse(p, gives) ==
    /\ Tell(p, "invalid", gives)
    /\ UNCHANGED <<conf, save, disk, node, writes, history>>

(* nm_config_runtime_clear.                                                 *)
Cleared(c, ks) ==
    [c EXCEPT !.runtime = [k \in Keys |-> IF k \in ks THEN None ELSE @[k]]]

(* shadow_store and shadow_remove_one for every key given, then the flush.  *)
Change(p, c, gives, by) ==
    LET layer == [k \in Keys |-> IF k \in DOMAIN gives THEN gives[k]
                                                       ELSE c.shadow[k]]
        text  == Render(layer)
    IN /\ conf' = [conf EXCEPT ![p] = [c EXCEPT !.shadow = layer]]
       /\ save' = [save EXCEPT ![p] =
             [at |-> IF text = <<>> THEN "remove" ELSE "open",
              text |-> text, gives |-> gives, by |-> by, fd |-> 0]]
       /\ writes' = writes + 1
       /\ drafts' = drafts \cup {text}
       /\ mirror' = None
       /\ raced' = (raced \/ \E q \in Insts \ {p} : save[q].at # "idle")
       /\ UNCHANGED <<disk, node, told>>

Ready(p) == Up(p) /\ save[p].at = "idle" /\ writes < MaxWrites

(* A command about one key.                                                 *)
Only(k, v) == [x \in {k} |-> v]

(* config_set, and persist_and_report behind /provider.                     *)
Set(p, k, v) ==
    /\ Ready(p) /\ k \in PlainKeys
    /\ Change(p, conf[p], Only(k, v), "config")

(* knob_command, for a key of the active provider.                          *)
Knob(p, k, v) ==
    /\ Ready(p) /\ k \in ScopedKeys \ {PinKey}
    /\ IF Accepts(conf[p], k, v) THEN Change(p, conf[p], Only(k, v), "config")
                                 ELSE Refuse(p, Only(k, v))

(* persist_and_report behind /model: the key is the active provider's.      *)
SetModel(p, v) ==
    /\ Ready(p)
    /\ Change(p, conf[p], Only(PinKey, v), "model")

(* preset_command: several keys as one write, every value checked first.    *)
AllAccepted(c, gives) ==
    \A k \in DOMAIN gives : gives[k] = None \/ Accepts(c, k, gives[k])
Preset(p, gives) ==
    /\ Ready(p)
    /\ IF AllAccepted(conf[p], gives) THEN Change(p, conf[p], gives, "config")
                                      ELSE Refuse(p, gives)

(* config_reset, for one key or for all: the runtime layer goes first.      *)
Reset(p, ks) ==
    /\ Ready(p)
    /\ Change(p, Cleared(conf[p], ks), [k \in ks |-> None], "config")

-----------------------------------------------------------------------------
(* The save, one call on the file system at a time: other instances run in  *)
(* between.                                                                 *)

(* report_write: whether a layer above the shadow pins the key.             *)
Pinned(c, by, gives) ==
    IF by = "model" THEN c.pin # None
    ELSE \E k \in DOMAIN gives :
            gives[k] # None /\ Source(c, k) \in {"env", "cli"}

(* Mutant: what the machinery learned stays on top.                         *)
FinishBelow(p) ==
    /\ save' = [save EXCEPT ![p] = Idle]
    /\ Tell(p, IF Pinned(conf[p], save[p].by, save[p].gives)
               THEN "pinned" ELSE "saved", save[p].gives)
    /\ mirror' = p
    /\ UNCHANGED <<conf, writes, drafts, raced>>

(* config_persist behind a save: what the machinery learned about the key   *)
(* no longer outranks it.                                                   *)
Finish(p) ==
    LET gives == save[p].gives
        c == Cleared(conf[p], DOMAIN gives)
    IN /\ conf' = [conf EXCEPT ![p] = c]
       /\ save' = [save EXCEPT ![p] = Idle]
       /\ Tell(p, IF Pinned(c, save[p].by, gives) THEN "pinned" ELSE "saved",
               gives)
       /\ mirror' = p
       /\ UNCHANGED <<writes, drafts, raced>>

(* The layer in memory stays changed; the command words it as an invalid    *)
(* value, or as a failure to save.                                          *)
Fail(p) ==
    /\ save' = [save EXCEPT ![p] = Idle]
    /\ Tell(p, "failed", save[p].gives)
    /\ UNCHANGED <<conf, writes, history>>

(* Nothing is left to keep: the file goes.                                  *)
SaveRemoves(p) ==
    /\ save[p].at = "remove"
    /\ disk' = [disk EXCEPT !.shadow = 0]
    /\ Finish(p)
    /\ UNCHANGED node

FreeNode ==
    LET used == {disk.shadow, disk.tmp} \cup
                {save[q].fd : q \in {q \in Insts : save[q].at # "idle"}}
    IN CHOOSE n \in Nodes \ used : \A m \in Nodes \ used : n <= m

(* Mutant: the file is written in place.                                    *)
SaveOpensInPlace(p) ==
    /\ save[p].at = "open"
    /\ LET n == IF disk.shadow # 0 THEN disk.shadow ELSE FreeNode
       IN /\ disk' = [disk EXCEPT !.shadow = n, !.tmp = n]
          /\ node' = [node EXCEPT ![n] = <<>>]
          /\ save' = [save EXCEPT ![p].at = "write", ![p].fd = n]
    /\ UNCHANGED <<conf, told, writes, history>>

(* fopen(tmp, "wb"): a new file, or the one that has the name, emptied.     *)
SaveOpens(p) ==
    /\ save[p].at = "open"
    /\ LET n == IF disk.tmp # 0 THEN disk.tmp ELSE FreeNode
       IN /\ disk' = [disk EXCEPT !.tmp = n]
          /\ node' = [node EXCEPT ![n] = <<>>]
          /\ save' = [save EXCEPT ![p].at = "write", ![p].fd = n]
    /\ UNCHANGED <<conf, told, writes, history>>

(* No directory, or no right to write there.                                *)
SaveCannotOpen(p) ==
    /\ save[p].at = "open" /\ Fail(p) /\ UNCHANGED <<disk, node>>

(* From the start of the file, over what may be there.                      *)
SaveWrites(p) ==
    /\ save[p].at = "write"
    /\ LET text == save[p].text
           old  == node[save[p].fd]
       IN node' = [node EXCEPT ![save[p].fd] =
                     text \o SubSeq(old, Len(text) + 1, Len(old))]
    /\ save' = [save EXCEPT ![p].at = "rename"]
    /\ UNCHANGED <<conf, disk, told, writes, history>>

(* The disk is full, with part of it written; the .tmp goes, whose ever.    *)
SaveCannotWrite(p) ==
    /\ save[p].at = "write"
    /\ \E n \in 0 .. Len(save[p].text) - 1 :
         LET old == node[save[p].fd]
         IN node' = [node EXCEPT ![save[p].fd] =
               SubSeq(save[p].text, 1, n) \o SubSeq(old, n + 1, Len(old))]
    /\ disk' = [disk EXCEPT !.tmp = 0]
    /\ Fail(p)

SaveRenames(p) ==
    /\ save[p].at = "rename"
    /\ IF disk.tmp # 0
       THEN /\ disk' = [shadow |-> disk.tmp, tmp |-> 0]
            /\ Finish(p)
       ELSE Fail(p) /\ UNCHANGED disk
    /\ UNCHANGED node

Saving(p) ==
    \/ SaveRemoves(p) \/ SaveOpens(p) \/ SaveCannotOpen(p)
    \/ SaveWrites(p) \/ SaveCannotWrite(p) \/ SaveRenames(p)

(* What a user types at p, about these keys, models and presets.            *)
Commands(p, keys, models, presets) ==
    \/ \E k \in keys : \E v \in ValuesOf[k] : Set(p, k, v) \/ Knob(p, k, v)
    \/ \E v \in models : SetModel(p, v)
    \/ \E gives \in presets : Preset(p, gives)
    \/ \E k \in keys : Reset(p, {k})
    \/ Reset(p, Keys)

-----------------------------------------------------------------------------
(* Properties *)

(* Whatever fails, and wherever an instance is killed, the shadow file is   *)
(* absent or one whole text some save meant to write, unless two instances  *)
(* saved at once (conf.c's replacement by rename).                          *)
ShadowWhole ==
    raced \/ disk.shadow = 0 \/ node[disk.shadow] \in drafts \ {<<>>}

(* What a successful save leaves on disk is what a restart reads back: the  *)
(* same keys with the same values, though each line is checked again        *)
(* against the lines above it (a value that needs the output cap stands     *)
(* below the cap), unless that cap is set elsewhere than in the files.      *)
RestartKeeps ==
    \A p \in Insts : mirror = p /\ ~raced =>
        LET c == Scanned([Blank EXCEPT !.user = conf[p].user], ShadowLines,
                         "shadow")
        IN \/ c.shadow = conf[p].shadow
           \/ \E g \in Gated : /\ conf[p].shadow[g[1]] = g[2]
                               /\ Resolve(c, CapKey) = None

(* The file of the store is whole and means what the store means.           *)
StoreKept == ShadowWhole /\ RestartKeeps

(* A command that reports its key as set, and names no layer that pins it,  *)
(* has set it: nothing the machinery learned in this run stays above it     *)
(* (report_write).                                                          *)
TellsTheTruth ==
    [][\A p \in Insts :
         told'[p] # told[p] /\ told'[p].said = "saved" =>
            \A k \in DOMAIN told'[p].gives :
                LET v == told'[p].gives[k]
                IN v # None => ScopedFor(conf'[p], k) = v]_settings

-----------------------------------------------------------------------------
(* The inductive invariant                                                  *)

(* Whatever a file, a command or the machinery may give a key.              *)
AllValues ==
    {None, "off"} \cup (UNION {ValuesOf[k] : k \in Keys})
    \cup (UNION {{gives[k] : k \in DOMAIN gives} : gives \in Presets \cup Envs})
    \cup (UNION {{file[i][2] : i \in DOMAIN file} : file \in UserFiles})

Assignments == Keys \X AllValues
Gives  == UNION {[ks -> AllValues] : ks \in SUBSET Keys}
Stores == [runtime : [Keys -> AllValues], cli : [Keys -> AllValues], env : [Keys -> AllValues],
           shadow : [Keys -> AllValues], user : [Keys -> AllValues], pin : AllValues, up : BOOLEAN]
Saves  == [at : {"remove", "open", "write", "rename"}, text : Seq(Assignments), gives : Gives,
           by : {"config", "model"}, fd : {0} \cup Nodes]

StoreTypeOK ==
    /\ conf \in [Insts -> Stores] /\ save \in [Insts -> {Idle} \cup Saves]
    /\ disk \in [shadow : {0} \cup Nodes, tmp : {0} \cup Nodes]
    /\ node \in [Nodes -> Seq(Assignments)] /\ DOMAIN told = Insts
    /\ drafts \subseteq Seq(Assignments) /\ mirror \in Insts \cup {None} /\ raced \in BOOLEAN

(* A save says what the layer in memory says, about the keys it was asked   *)
(* for as well; the model's key has a command of its own.                   *)
Faithful(s, c) ==
    /\ c.up /\ s.text = Render(c.shadow) /\ s.text \in drafts
    /\ s.text = <<>> <=> s.at = "remove"
    /\ \A k \in DOMAIN s.gives : c.shadow[k] = s.gives[k]
    /\ s.by = "model" => DOMAIN s.gives = {PinKey}
    /\ s.by = "config" => \A k \in DOMAIN s.gives : s.gives[k] # None => k # PinKey

(* A save that is alone works on the file that has the name .tmp.           *)
OnTmp(s) ==
    /\ s.at \in {"write", "rename"} => disk.tmp # 0 /\ s.fd = disk.tmp
    /\ s.at = "write" => node[s.fd] = <<>>
    /\ s.at = "rename" => node[s.fd] = s.text

UnderWay(p) == save[p].at # "idle"

(* Where no two saves were ever under way at once.                          *)
Undisturbed ==
    /\ \A p, q \in Insts : UnderWay(p) /\ UnderWay(q) => p = q
    /\ \A p \in Insts : UnderWay(p) => OnTmp(save[p]) /\ mirror = None
    /\ ShadowWhole
    /\ mirror # None => Up(mirror) /\ ShadowLines = Render(conf[mirror].shadow)

StoreInv ==
    /\ StoreTypeOK
    /\ \A p \in Insts : UnderWay(p) => Faithful(save[p], conf[p])
    /\ disk.tmp # 0 => disk.tmp # disk.shadow
    /\ raced \/ Undisturbed
=============================================================================
