------------------------------- MODULE Prompt -------------------------------
(***************************************************************************)
(* The system prompt (context.c) and the skills its menu lists (skills.c). *)
(* The prompt is one buffer in which two places are kept as offsets: where *)
(* the vision clause goes, and where the git status goes once its command  *)
(* has answered.  A text is a sequence of tokens, a file a sequence of     *)
(* lines, the last one without a newline.                                  *)
(***************************************************************************)
EXTENDS Loops, FiniteSetsExt

CONSTANTS
    Letters,                    \* of names, in the order of strcmp
    NameMax, DescMax,           \* NM_SKILL_NAME_MAX, NM_SKILL_DESC_MAX
    SkillsMax, RefusalsMax,     \* NM_SKILLS_MAX, NM_SKILLS_REFUSALS_MAX
    MenuMax, MenuReserve,       \* NM_SKILLS_MENU_MAX_BYTES, what a menu keeps of it
    ContextMax,                 \* NM_CONTEXT_MAX_BYTES
    DepthMax,                   \* NM_CONTEXT_MAX_DEPTH, NM_SKILL_MAX_DEPTH
    StatusLines, SectionMax,    \* NM_CONTEXT_GIT_STATUS_LINES, the line[] of a section
    Outputs,                    \* what the git command may print
    MaxUpdates                    \* bound on the calls made on one prompt

ASSUME LimitsAreNaturals ==
    {NameMax, DescMax, SkillsMax, RefusalsMax, MenuMax, MenuReserve, ContextMax,
     DepthMax, StatusLines, SectionMax, MaxUpdates} \subseteq Nat

ASSUME OutputsAreLines == Outputs \subseteq Seq(STRING)

First(s, n) == SubSeq(s, 1, IF n < Len(s) THEN n ELSE Len(s))
From(s, i) == SubSeq(s, i, Len(s))

---------------------------------------------------------------------------
(* The frontmatter of a SKILL.md.                                           *)

IsFence(line) == line # <<>> /\ line[1] = "---" /\ \A i \in 2 .. Len(line) : line[i] = " "

Trim(s) ==
    LET inner == {i \in DOMAIN s : s[i] \notin {" ", "NL"}}
    IN IF inner = {} THEN <<>> ELSE SubSeq(s, Min(inner), Max(inner))

Unquote(s) ==
    IF Len(s) >= 2 /\ s[1] = "\"" /\ s[Len(s)] = "\"" THEN SubSeq(s, 2, Len(s) - 1) ELSE s

(* A block scalar opens: ">" folds its lines, "|" keeps them.               *)
BlockMarker(v) ==
    v # <<>> /\ v[1] \in {">", "|"} /\ \A i \in 2 .. Len(v) : v[i] \in {"-", "+", " "}

(* The lines of the block that follows line i, without the indentation of   *)
(* the first of them, and joined.                                           *)
Block(ls, i, literal) ==
    LET in(j) == ls[j] # <<>> /\ ls[j][1] = " "
        stop == Min({j \in i + 1 .. Len(ls) + 1 : j > Len(ls) \/ ~in(j)})
        indent == Min({n \in DOMAIN ls[i + 1] : ls[i + 1][n] # " "} \cup {Len(ls[i + 1]) + 1}) - 1
        add(out, l) == out \o (IF out = <<>> THEN <<>> ELSE IF literal THEN <<"NL">> ELSE <<" ">>)
                           \o From(l, indent + 1)
    IN Trim(Over(add, <<>>, SubSeq(ls, i + 1, stop - 1)))

(* A line of one of the two keys read; an empty value sets nothing.         *)
Field(m, ls, i) ==
    LET key == ls[i][1]
        v == Trim(From(ls[i], 2))
        to == IF BlockMarker(v) THEN Block(ls, i, v[1] = "|") ELSE Unquote(v)
    IN IF v = <<>> THEN m
       ELSE IF key = "name:" THEN [m EXCEPT !.name = to] ELSE [m EXCEPT !.desc = to]

(* fm_scan: a fence on the first line, the keys, and a fence that closes.   *)
(* "refused" without both fences, "nodesc" without a description.           *)
FmScan(ls) ==
    LET fences == {i \in 2 .. Len(ls) : IsFence(ls[i])}
        close == Min(fences)
        step(m, i) == IF ls[i] # <<>> /\ ls[i][1] \in {"name:", "desc:"} THEN Field(m, ls, i) ELSE m
        m == Over(step, [name |-> <<>>, desc |-> <<>>], [i \in 1 .. close - 2 |-> i + 1])
    IN IF ~IsFence(ls[1]) \/ fences = {} THEN [how |-> "refused"]
       ELSE IF m.desc = <<>> THEN [how |-> "nodesc"]
       ELSE [how |-> "ok", name |-> m.name, desc |-> m.desc, close |-> close]

(* nm_skill_body: the lines below the frontmatter, or all of them.          *)
SkillBody(ls) ==
    LET close == {i \in 2 .. Len(ls) : IsFence(ls[i])}
        from == IF ~IsFence(ls[1]) \/ Len(ls) = 1 THEN 1
                ELSE IF close = {} THEN Len(ls) + 1 ELSE Min(close) + 1
        full == {i \in from .. Len(ls) : ls[i] # <<>>}
    IN IF full = {} THEN <<>> ELSE From(ls, Min(full))

---------------------------------------------------------------------------
(* The registry.                                                            *)

NoSkills == [items |-> <<>>, refused |-> 0, unlisted |-> 0, dropped |-> 0]

(* scan_skills_dir passes over hidden entries, node_modules, what is no     *)
(* directory and a directory without a SKILL.md.                            *)
Candidates(entries) ==
    Over(LAMBDA r, e : IF e.kind = "skill" THEN Append(r, e) ELSE r, <<>>, entries)

Refusal(s) ==
    IF s.refused < RefusalsMax THEN [s EXCEPT !.refused = @ + 1]
    ELSE [s EXCEPT !.unlisted = @ + 1]

(* Mutant: a later skill of the same name is added beside the earlier one.  *)
AddSkillTwice(s, e) ==
    LET m == FmScan(e.text)
    IN IF Len(s.items) >= SkillsMax THEN [s EXCEPT !.dropped = @ + 1]
       ELSE IF m.how # "ok" THEN Refusal(s)
       ELSE [s EXCEPT !.items = Append(@, [name |-> First(IF m.name # <<>> THEN m.name ELSE <<e.dir>>, NameMax),
                                          desc |-> First(m.desc, DescMax), dir |-> e.dir, at |-> e.at])]

(* add_skill: a full registry counts without looking, and a skill takes the *)
(* place of the earlier one of its name.                                    *)
AddSkill(s, e) ==
    LET m == FmScan(e.text)
        sk == [name |-> First(IF m.name # <<>> THEN m.name ELSE <<e.dir>>, NameMax),
               desc |-> First(m.desc, DescMax), dir |-> e.dir, at |-> e.at]
        same == Where(LAMBDA x : x.name = sk.name, s.items)
    IN IF Len(s.items) >= SkillsMax THEN [s EXCEPT !.dropped = @ + 1]
       ELSE IF m.how # "ok" THEN Refusal(s)
       ELSE IF same > 0 THEN [s EXCEPT !.items[same] = sk]
       ELSE [s EXCEPT !.items = Append(@, sk)]

Rank(c) == Where(LAMBDA x : x = c, Letters)
Before(a, b) ==
    LET n == IF Len(a) < Len(b) THEN Len(a) ELSE Len(b)
        d == {i \in 1 .. n : a[i] # b[i]}
    IN IF d = {} THEN Len(a) < Len(b) ELSE Rank(a[Min(d)]) < Rank(b[Min(d)])

(* sort_registry: insertion.                                                *)
Sorted(items) ==
    LET into(r, x) ==
          LET j == Max({0} \cup {k \in DOMAIN r : ~Before(x.name, r[k].name)})
          IN SubSeq(r, 1, j) \o <<x>> \o From(r, j + 1)
    IN Over(into, <<>>, items)

(* The directories from the nearest one with a .git down to the working     *)
(* directory, or that one alone; directory k is the k-th below the root.    *)
Chain(wd, marked) ==
    LET climbed == {k \in 0 .. wd : k > wd - DepthMax /\ (k > 0 \/ wd = 0)}
        top == IF climbed \cap marked = {} THEN wd ELSE Max(climbed \cap marked)
    IN [i \in 1 .. wd - top + 1 |-> top + i - 1]

(* nm_skills_new: the user's directory, then the chain from its top.        *)
Registry(user, of, chain) ==
    LET add(s, entries) == Over(AddSkill, s, Candidates(entries))
        s == Over(LAMBDA r, d : add(r, of[d]), add(NoSkills, user), chain)
    IN [s EXCEPT !.items = Sorted(@)]

(* nm_skills_menu: the lines that fit, and how many do not.                 *)
Menu(s) ==
    LET cost(sk) == Len(sk.name) + Len(sk.desc)
        used[n \in 0 .. Len(s.items)] == IF n = 0 THEN 1 ELSE used[n - 1] + cost(s.items[n]) + 5
        full == {n \in DOMAIN s.items : used[n] + 3 > MenuMax - MenuReserve}
        listed == IF full = {} THEN Len(s.items) ELSE Min(full) - 1
    IN [listed |-> First(s.items, listed), rest |-> Len(s.items) - listed + s.dropped,
        used |-> used[listed]]

---------------------------------------------------------------------------
(* The AGENTS.md files.                                                     *)

Scaffold == 4       \* ENTRY_SCAFFOLD, in tokens

(* nm_reminder_sanitize: a tag of a reminder loses its bracket.             *)
Sanitized(s) == Over(LAMBDA r, c : r \o (IF c = "<r" THEN <<"&", "r">> ELSE <<c>>), <<>>, s)

(* read_into_scratch: one byte more than the cap is all that is read.       *)
ReadIn(f) == First(f.text, ContextMax + 1)

(* append_entry: what is left of the cap, cut behind a line where there is  *)
(* one, a notice behind a cut text, and no file after it.                   *)
AppendEntry(r, f) ==
    LET body == Sanitized(ReadIn(f))
        join == IF r.out = <<>> THEN <<>> ELSE <<"NL">>
        used == Len(r.out) + Len(join) + Scaffold + 1
        avail == IF used < ContextMax THEN ContextMax - used ELSE 0
        short == Len(body) > avail
        lines == {i \in 1 .. avail : body[i] = "NL"}
        cut == IF ~short THEN Len(body) ELSE IF lines = {} THEN avail ELSE Max(lines)
        kept == First(body, cut)
        end == IF kept # <<>> /\ kept[cut] # "NL" THEN <<"NL">> ELSE <<>>
    IN IF r.stop \/ Trim(ReadIn(f)) = <<>> THEN r
       ELSE [out |-> r.out \o join \o <<"<file", f.label, ">">> \o kept \o end \o <<"</file>">>
                        \o (IF short THEN <<"[truncated]">> ELSE <<>>),
             stop |-> short]

ContextBlock(files) == Over(AppendEntry, [out |-> <<>>, stop |-> FALSE], files)

---------------------------------------------------------------------------
(* The git status.                                                          *)

(* marker_section: the lines between two markers, without the empty ones at *)
(* both ends; a marker on a last line without a newline opens nothing.      *)
MarkerSection(ls, start, end) ==
    LET i == Where(LAMBDA l : l = start, ls)
        ends == {j \in i + 1 .. Len(ls) : ls[j] = end}
        last == IF ends = {} THEN Len(ls) ELSE Min(ends) - 1
        full == {j \in i + 1 .. last : ls[j] # ""}
    IN IF i = 0 \/ i = Len(ls) THEN [there |-> FALSE, ls |-> <<>>]
       ELSE [there |-> TRUE, ls |-> IF full = {} THEN <<>> ELSE SubSeq(ls, Min(full), Max(full))]

(* nm_context_env_apply_git: the text of the three sections.                *)
GitSection(ls) ==
    LET part(head, body) == First(<<head>> \o body, SectionMax)
        branch == MarkerSection(ls, "B", "S")
        status == MarkerSection(ls, "S", "C")
        commits == MarkerSection(ls, "C", "none")
    IN (IF branch.ls = <<>> THEN <<>> ELSE part("branch", branch.ls))
       \o (IF status.ls # <<>> THEN part("status", First(status.ls, StatusLines))
           ELSE IF status.there THEN <<"clean">> ELSE <<>>)
       \o (IF commits.ls = <<>> THEN <<>> ELSE part("commits", commits.ls))

---------------------------------------------------------------------------
(* The prompt and its offsets, and the copy a session holds.                *)

VARIABLES
    prompt,     \* [text, visionPos, vision, gitPos]
    system,     \* the system text of the session; <<>> before there is one
    gits,       \* what git told so far, for the properties
    made        \* calls so far, and whether the prompt has an <env> and a block

prompts == <<prompt, system, gits, made>>

Clause == <<"vision", "clause">>

InsertAt(s, off, t) == SubSeq(s, 1, off) \o t \o From(s, off + 1)

(* nm_context_set_vision: whether the text changed is told by the text.     *)
WithVision(p, want) ==
    IF want = p.vision THEN p
    ELSE LET by == IF want THEN Len(Clause) ELSE - Len(Clause)
         IN [p EXCEPT !.vision = want,
                      !.text = IF want THEN InsertAt(@, p.visionPos, Clause)
                               ELSE SubSeq(@, 1, p.visionPos) \o From(@, p.visionPos + Len(Clause) + 1),
                      !.gitPos = IF @ > 0 THEN @ + by ELSE 0]

(* nm_context_new and nm_context_set_skills, in the order nm_agent_new      *)
(* calls them; the <env> is left out when there is no working directory.    *)
NewPrompt(vision, env, block, menu) ==
    LET head == WithVision([text |-> <<"base">>, visionPos |-> 1, vision |-> FALSE, gitPos |-> 0],
                           vision)
        tail == IF env THEN <<"env", "wd", "/env">> ELSE <<>>
    IN [head EXCEPT !.text = @ \o tail \o block \o menu,
                    !.gitPos = IF env THEN Len(head.text) + 2 ELSE 0]

PromptInit ==
    \E vision, env \in BOOLEAN : \E block \in {<<>>, <<"block">>} : \E menu \in {<<>>, <<"menu">>} :
        /\ prompt = NewPrompt(vision, env, block, menu)
        /\ made = [calls |-> 0, env |-> env, rest |-> block \o menu]
        /\ system = <<>> /\ gits = <<>>

Call ==
    /\ made.calls < MaxUpdates
    /\ made' = [made EXCEPT !.calls = @ + 1]

(* nm_session_new: the session takes the text as it stands.                 *)
SessionOpens ==
    /\ Call /\ system' = prompt.text
    /\ UNCHANGED <<prompt, gits>>

(* apply_vision_clause: a changed text goes to the session, if there is one. *)
AppliesVision(want) ==
    /\ Call
    /\ prompt' = WithVision(prompt, want)
    /\ system' = IF system # <<>> /\ want # prompt.vision THEN prompt'.text ELSE system
    /\ UNCHANGED gits

(* Mutant: the place of the git status stays where it was.                  *)
GitAppliedBehind(p, section) ==
    [p EXCEPT !.text = InsertAt(@, p.gitPos, section)]

(* A section goes in, and the place moves behind it.                        *)
GitApplied(p, section) ==
    [p EXCEPT !.text = InsertAt(@, p.gitPos, section), !.gitPos = @ + Len(section)]

(* The git command has answered, or run out of time (out = <<>>): its       *)
(* output goes in, and the session gets the text (env_finish).              *)
EnvFinishes(out) ==
    /\ Call
    /\ LET section == <<"git">> \o GitSection(out)
       IN IF prompt.gitPos = 0 \/ Len(section) = 1 THEN UNCHANGED <<prompt, gits>>
          ELSE prompt' = GitApplied(prompt, section) /\ gits' = gits \o section
    /\ system' = IF system # <<>> THEN prompt'.text ELSE system

PromptNext ==
    \/ SessionOpens
    \/ \E want \in BOOLEAN : AppliesVision(want)
    \/ \E out \in Outputs : EnvFinishes(out)

PromptSpec == PromptInit /\ [][PromptNext]_prompts

---------------------------------------------------------------------------
(* Properties *)

(* However the calls on a prompt follow each other, the vision clause and   *)
(* what git told stand in their places, once and whole, and the session     *)
(* holds the text as it is (context.c's offsets).                           *)
PromptInOrder ==
    LET env == IF made.env THEN <<"env", "wd">> \o gits \o <<"/env">> ELSE <<>>
    IN /\ prompt.text = <<"base">> \o (IF prompt.vision THEN Clause ELSE <<>>)
                           \o env \o made.rest
       /\ system \in {<<>>, prompt.text}
=============================================================================
