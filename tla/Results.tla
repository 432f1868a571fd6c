----------------------------- MODULE Results -------------------------------
(***************************************************************************)
(* What the tools give back.  The set of tools and the shape of a result   *)
(* (tools.c): it keeps within one budget, is cut between two characters,   *)
(* and says how much is missing.  The tools that read files                *)
(* (tools_file.c): the window of read_file and the offset it names to go   *)
(* on from, the listing of a directory, and the search of a tree; what is  *)
(* remembered of a read is in FileLedger.  A text is a sequence of bytes   *)
(* as in Json; the status line is left out, it stands before the output    *)
(* and is not cut.                                                         *)
(***************************************************************************)
EXTENDS Json

CONSTANTS
    OutputMax,      \* NM_TOOL_MAX_OUTPUT
    PlanMax,        \* NM_TOOL_PLAN_VALUE_MAX
    ReadReserve,    \* READ_MARKER_RESERVE
    LineClamp,      \* SEARCH_LINE_CLAMP
    Slack,          \* NM_TOOL_BODY_SLACK
    WalkDepth       \* the 8 of search_dir_walk

Lesser(a, b) == IF a < b THEN a ELSE b

(* A count as it is printed, below a hundred here.                          *)
Figure(n) == <<"0", "1", "2", "3", "4", "5", "6", "7", "8", "9">>[n + 1]
Figures(n) == (IF n > 9 THEN <<Figure(n \div 10)>> ELSE <<>>) \o <<Figure(n % 10)>>
OmittedNotice(n) == <<"NL", "...">> \o Figures(n) \o <<"NL">>

(* nm_utf8_clamp_len: a character that would be split is left out.          *)
ClampLen(s, max) ==
    IF Len(s) <= max THEN Len(s)
    ELSE Until(LAMBDA k : k - 1, LAMBDA k : k = 0 \/ s[k + 1] \notin Tails, max)

(* nm_truncate_tail                                                         *)
TruncateTail(body, max, notice) ==
    LET s == CString(body)
        keep == IF max > Len(notice) THEN max - Len(notice) ELSE 0
    IN SubSeq(s, 1, ClampLen(s, Lesser(keep, Len(s)))) \o notice

(* nm_clamp_output: the head.  The notice is sized with one count and       *)
(* written with another.                                                    *)
ClampOutput(text) ==
    LET s == CString(text)
        sized == Len(OmittedNotice(Len(s) - OutputMax))
        omitted == Len(s) - (OutputMax - (IF sized < OutputMax THEN sized ELSE 0))
    IN IF Len(s) <= OutputMax THEN [out |-> s, omitted |-> 0]
       ELSE [out |-> TruncateTail(s, OutputMax, OmittedNotice(omitted)), omitted |-> omitted]

(* Mutant: the tail starts at its byte, wherever that is in a character.    *)
TailStartRaw(s, from) == from

(* Where the tail starts: not within a character.                           *)
TailStart(s, from) ==
    Until(LAMBDA k : k + 1, LAMBDA k : k >= Len(s) \/ s[k + 1] \notin Tails, from)

(* nm_clamp_job_output: seven tenths of the head and the rest of the tail,  *)
(* without the blanks at the end; nothing at all is no output.              *)
ClampJob(text) ==
    LET c == CString(text)
        n == Until(LAMBDA k : k - 1,
                   LAMBDA k : k = 0 \/ c[k] \notin {" ", "TAB", "NL", "CR"}, Len(c))
        s == SubSeq(c, 1, n)
        head == (OutputMax * 7) \div 10
        from == TailStart(s, n - (OutputMax - head))
    IN IF n <= OutputMax THEN [out |-> s, omitted |-> 0]
       ELSE [out |-> SubSeq(s, 1, ClampLen(s, head)) \o OmittedNotice(n - OutputMax)
                        \o SubSeq(s, from + 1, n),
             omitted |-> n - OutputMax]

(* nm_tool_result_body, nm_tool_result_head and nm_tool_result_job: without *)
(* output the result says so.                                               *)
Shaped(ok, clamped, some) ==
    [ok |-> ok, out |-> IF some THEN clamped.out ELSE <<"(empty)">>,
     truncated |-> IF clamped.omitted > 0 THEN 1 ELSE 0]
HeadResult(ok, body) == Shaped(ok, ClampOutput(body), TRUE)
NoOutput(ok) == Shaped(ok, [out |-> <<>>, omitted |-> 0], FALSE)
JobResult(ok, body) == Shaped(ok, ClampJob(body), ClampJob(body).out # <<>>)

(* nm_tool_result_run, nm_tool_format_result                                *)
RunResult(code, note, body) ==
    LET ok == code = 0 /\ ~note
    IN IF CString(body) = <<>> THEN NoOutput(ok) ELSE HeadResult(ok, body)

---------------------------------------------------------------------------
(* The set of tools: their names, and the schema once it was made.          *)

NewTools == [tools |-> <<>>, made |-> FALSE, schema |-> <<>>]
AddTool(ts, name) ==
    [ts EXCEPT !.tools = Append(@, name), !.made = FALSE, !.schema = <<>>]
FindTool(ts, name) == Where(LAMBDA n : n = name, ts.tools)

(* nm_toolset_add_skills: the tool that loads a skill, once there is one.   *)
AddSkillsTool(ts, skills) ==
    IF skills = 0 \/ FindTool(ts, "load_skill") > 0 THEN ts ELSE AddTool(ts, "load_skill")

(* nm_toolset_to_json                                                       *)
ToolsJson(ts) == IF ts.made THEN ts ELSE [ts EXCEPT !.made = TRUE, !.schema = ts.tools]

(* nm_toolset_execute                                                       *)
ExecuteTool(ts, name) == IF FindTool(ts, name) = 0 THEN "unknown tool" ELSE name

---------------------------------------------------------------------------
(* plan_value: a string without its quotes, and no more than some of it.    *)
PlanValue(v) ==
    LET d == Dump(v)
        s == IF v.t = "str" /\ Len(d) >= 2 THEN SubSeq(d, 2, Len(d) - 1) ELSE d
        n == ClampLen(s, PlanMax)
    IN SubSeq(s, 1, n) \o (IF n < Len(s) THEN <<"E1", "80", "A0">> ELSE <<>>)

(* nm_tool_plan: what the user is asked about, one argument a line.  Of two *)
(* with one name both lines show the first.                                 *)
Plan(name, args) ==
    LET p == Parse(args)
        line(m) == <<"NL", " ", " ">> \o CString(m.k) \o <<":", " ">>
                      \o PlanValue(Member(p.p.val, CString(m.k))[1])
    IN <<name>> \o (IF p.ok /\ p.p.val.t = "obj"
                    THEN Joined([i \in DOMAIN p.p.val.v |-> line(p.p.val.v[i])]) ELSE <<>>)

---------------------------------------------------------------------------
(* Reading. *)

Char(c) == <<c>>

(* resolve_path, a path being a sequence of names with "" before a leading  *)
(* slash: absolute, under the home, or under the working directory the call *)
(* names, or the agent's, or the process's.                                 *)
ResolvePath(path, workdir, agentdir, home) ==
    LET base == IF workdir # <<>> THEN workdir
                ELSE IF agentdir # <<>> THEN agentdir ELSE Char(".")
    IN IF path[1] = "~" /\ home # <<>> THEN home \o Tail(path)
       ELSE IF path[1] = "" THEN path ELSE base \o path

(* parent_dir_of: the part before the last separator.                       *)
ParentDir(path) ==
    IF Len(path) = 1 THEN Char(".")
    ELSE IF Len(path) = 2 /\ path[1] = "" THEN <<"", "">>
    ELSE SubSeq(path, 1, Len(path) - 1)

(* The lines of a text, each with its line feed, the last perhaps without.  *)
LinesOf(text) ==
    LET add(ls, c) == IF ls # <<>> /\ ls[Len(ls)][Len(ls[Len(ls)])] # "NL"
                      THEN [ls EXCEPT ![Len(ls)] = Append(@, c)] ELSE Append(ls, Char(c))
    IN Over(add, <<>>, text)
After(ls, n) == SubSeq(ls, n + 1, Len(ls))

---------------------------------------------------------------------------
(* read_file's window *)

(* A line's number is printed in front of it and counted as NumberCost.     *)
NumberCost == 2
Numbered(line, n) ==
    Figures(n) \o Char("TAB") \o line \o (IF line[Len(line)] = "NL" THEN <<>> ELSE Char("NL"))

(* Mutant: a line is taken as soon as it starts within the budget.          *)
KeptOpen(lines, limit, numbered) ==
    LET cost(l) == Len(l) + (IF numbered THEN NumberCost ELSE 0)
        room(n) == Over(LAMBDA r, l : r + cost(l), 0, SubSeq(lines, 1, n - 1))
                     <= OutputMax - ReadReserve
        fits == {n \in 1 .. Len(lines) : room(n) /\ (limit = 0 \/ n <= limit)}
    IN IF fits = {} THEN 0 ELSE CHOOSE n \in fits : \A k \in fits : k <= n

(* How many lines are shown: whole ones, within the budget and the limit.   *)
Kept(lines, limit, numbered) ==
    LET cost(l) == Len(l) + (IF numbered THEN NumberCost ELSE 0)
        room(n) == Over(LAMBDA r, l : r + cost(l), 0, SubSeq(lines, 1, n))
                     <= OutputMax - ReadReserve
        fits == {n \in 1 .. Len(lines) : room(n) /\ (limit = 0 \/ n <= limit)}
    IN IF fits = {} THEN 0 ELSE CHOOSE n \in fits : \A k \in fits : k <= n

Refused(why) == [state |-> why]

(* The window from line `offset` on, with the notice that names the rest.   *)
Window(text, offset, limit, limited, numbered) ==
    LET all == LinesOf(text)
        lines == After(all, offset - 1)
        kept == Kept(lines, limit, numbered)
        shown(i) == IF numbered THEN Numbered(lines[i], offset + i - 1) ELSE lines[i]
        body == Joined([i \in 1 .. kept |-> shown(i)])
        rest == Len(all) - (offset + kept - 1)
        notice == <<"...", "offset", Figure(offset + kept), "NL">>
        full == IF rest > 0 THEN TruncateTail(body, OutputMax, notice) ELSE CString(body)
        result == IF full = <<>> THEN NoOutput(TRUE) ELSE HeadResult(TRUE, full)
    IN IF ~Utf8Valid(text) THEN Refused("not text")
       ELSE IF offset < 1 \/ (limited /\ limit < 1) THEN Refused("bad window")
       ELSE IF text # <<>> /\ offset > Len(all) THEN Refused("past the end")
       ELSE [state |-> IF text = <<>> THEN "empty" ELSE "read",
             out |-> result.out, kept |-> kept, rest |-> rest > 0,
             resume |-> offset + kept, truncated |-> IF rest > 0 THEN 2 ELSE result.truncated]

---------------------------------------------------------------------------
(* Directories: a sequence of [name, kind, text, of], of being a directory. *)

BudgetNotice == <<"NL", "budget", "NL">>
AtBudget(body, bo) ==
    IF bo >= OutputMax
    THEN [HeadResult(TRUE, TruncateTail(body, OutputMax, BudgetNotice)) EXCEPT !.truncated = 1]
    ELSE IF bo = 0 THEN NoOutput(TRUE) ELSE HeadResult(TRUE, body)

(* list_dir_exec: names, a directory's with a slash.                        *)
Listing(d) ==
    LET entry(e) == e.name \o (IF e.kind \in {"dir", "closed"} THEN Char("/") ELSE <<>>) \o Char("NL")
        body == Over(LAMBDA r, e : IF Len(r) >= OutputMax THEN r ELSE r \o entry(e), <<>>, d)
    IN AtBudget(body, Len(body))

(* A hit: where, and the line up to a clamp.                                *)
Hit(path, n, line) ==
    path \o <<":", Figure(n), ":">>
         \o CString(SubSeq(line, 1, ClampLen(line, LineClamp))) \o Char("NL")
Bare1(line) == IF line[Len(line)] = "NL" THEN SubSeq(line, 1, Len(line) - 1) ELSE line
Has(line, needle) == \E k \in 1 .. Len(line) : Starts(line, k, needle)

(* search_file: an entry that does not fit spends the budget.               *)
SearchFile(path, text, needle, found) ==
    LET lines == LinesOf(text)
        step(r) ==
          LET line == Bare1(lines[r.i])
              hit == Hit(path, r.i, line)
              room == OutputMax + Slack - 1 - r.bo
          IN IF ~Has(line, needle) THEN [r EXCEPT !.i = @ + 1]
             ELSE IF Len(hit) > room
             THEN [r EXCEPT !.i = Len(lines) + 1, !.body = @ \o SubSeq(hit, 1, room), !.bo = OutputMax]
             ELSE [i |-> IF r.bo + Len(hit) >= OutputMax THEN Len(lines) + 1 ELSE r.i + 1,
                   body |-> r.body \o hit, bo |-> r.bo + Len(hit)]
        end == Until(step, LAMBDA r : r.i > Len(lines), [i |-> 1, body |-> found.body, bo |-> found.bo])
    IN IF Utf8Valid(text) THEN [body |-> end.body, bo |-> end.bo] ELSE found

Noise == {<<".git">>, <<"node_modules">>, <<"build">>}

(* search_dir_walk: what cannot be opened is passed over.                   *)
RECURSIVE Walk(_, _, _, _, _)
Walk(path, d, needle, found, depth) ==
    LET visit(r, e) ==
          CASE r.bo >= OutputMax \/ e.kind = "gone" -> r
            [] e.kind = "file" -> SearchFile(path \o e.name, e.text, needle, r)
            [] e.kind = "dir" /\ e.name \notin Noise ->
                 Walk(path \o e.name, e.of, needle, r, depth + 1)
            [] OTHER -> r
    IN IF depth > WalkDepth \/ found.bo >= OutputMax THEN found ELSE Over(visit, found, d)

(* search_dir_exec: a root that is neither a file nor a directory fails.    *)
Search(root, needle) ==
    LET none == [body |-> <<>>, bo |-> 0]
        found == IF root.kind = "file" THEN SearchFile(root.name, root.text, needle, none)
                 ELSE Walk(root.name, root.of, needle, none, 0)
    IN IF needle = <<>> THEN Refused("no needle")
       ELSE IF root.kind \in {"gone", "closed"} \/ (root.kind = "file" /\ ~Utf8Valid(root.text))
       THEN Refused("cannot search")
       ELSE AtBudget(found.body, found.bo)
=============================================================================
