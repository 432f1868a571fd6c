------------------------------- MODULE Screen -------------------------------
(***************************************************************************)
(* What a job's output looks like on a line terminal (proc.c, render_line  *)
(* and its callers): control characters and escape sequences are obeyed    *)
(* within one line, and only what a person would see is given to the       *)
(* model.  A text is a sequence of characters; "ESC", "CR", "BS", "TAB",   *)
(* "BEL" and "NL" are the controls.                                        *)
(***************************************************************************)
EXTENDS Repeat

CONSTANTS
    ColMax,         \* RENDER_MAX_COL
    TabWidth        \* the 8 of a tab stop

At(s, i) == IF i \in DOMAIN s THEN s[i] ELSE "end"

DigitOf == [c \in {"0", "1", "2", "3"} |->
              CASE c = "0" -> 0 [] c = "1" -> 1 [] c = "2" -> 2 [] c = "3" -> 3]
Finals == {"K", "J", "C", "D", "G", "H", "f", "m", "a", "b", "[", "]", "\\"}

(* csi_parse: the parameters, those left out being 0, and the final.        *)
Csi(s, i) ==
    LET step(r) ==
          LET c == s[r.j]
              more == [r EXCEPT !.j = @ + 1, !.cur = 0, !.ps = Append(@, r.cur)]
          IN CASE c \in DOMAIN DigitOf -> [r EXCEPT !.j = @ + 1, !.cur = @ * 10 + DigitOf[c]]
               [] c \in {";", ":", "?"} -> more
               [] c \in Finals -> [more EXCEPT !.end = "final"]
               [] OTHER -> [r EXCEPT !.end = "malformed"]
    IN Until(step, LAMBDA r : r.end # "" \/ r.j > Len(s),
             [j |-> i, cur |-> 0, ps |-> <<>>, end |-> ""])

(* An operating system command ends at a bell or at ESC and a backslash.    *)
OscEnd(s, i) ==
    Until(LAMBDA j : j + 1,
          LAMBDA j : j > Len(s) \/ s[j] = "BEL" \/ (s[j] = "ESC" /\ At(s, j + 1) = "\\"),
          i)

Blanks(n) == [k \in 1 .. n |-> " "]

(* A character in the next column; a line too wide ends.                    *)
Put(r, c) ==
    IF r.col >= ColMax THEN [r EXCEPT !.stop = TRUE]
    ELSE LET cols == IF r.col < Len(r.cols) THEN r.cols
                     ELSE r.cols \o Blanks(r.col + 1 - Len(r.cols))
         IN [r EXCEPT !.cols = [cols EXCEPT ![r.col + 1] = c], !.col = @ + 1,
                      !.len = IF r.col + 1 > @ THEN r.col + 1 ELSE @]

TabStop(r) ==
    LET next == (r.col \div TabWidth + 1) * TabWidth
    IN Until(LAMBDA t : Put(t, " "), LAMBDA t : t.stop \/ t.col >= next, r)

(* Mutant: erasing to the start leaves what stands there.                   *)
ErasedLoose(r, mode) ==
    CASE mode = 0 -> [r EXCEPT !.len = IF @ > r.col THEN r.col ELSE @]
      [] mode = 1 -> r
      [] OTHER -> [r EXCEPT !.len = 0]

(* Erasing moves only the end of the line, or blanks its start.             *)
Erased(r, mode) ==
    CASE mode = 0 -> [r EXCEPT !.len = IF @ > r.col THEN r.col ELSE @]
      [] mode = 1 -> [r EXCEPT !.cols = [k \in DOMAIN @ |-> IF k <= r.col THEN " " ELSE @[k]]]
      [] OTHER -> [r EXCEPT !.len = 0]

(* What a sequence does; a cursor row below the first, and what is not      *)
(* known, does nothing.                                                     *)
Obeyed(r, final, ps) ==
    LET arg(k, default) == IF k \in DOMAIN ps THEN ps[k] ELSE default
        p == arg(1, 1)
        column(c) == [r EXCEPT !.col = c]
    IN CASE final \in {"K", "J"} -> Erased(r, arg(1, 0))
         [] final = "C" -> LET to == r.col + (IF p > 0 THEN p ELSE 1)
                           IN column(IF to > ColMax THEN ColMax ELSE to)
         [] final = "D" -> column(IF r.col > p THEN r.col - p ELSE 0)
         [] final = "G" -> column((IF p > 0 THEN p ELSE 1) - 1)
         [] final \in {"H", "f"} /\ p <= 1 ->
              column(IF arg(2, 1) > 0 THEN arg(2, 1) - 1 ELSE 0)
         [] OTHER -> r

(* One line.  A sequence that does not end takes the rest with it.          *)
RenderLine(s) ==
    LET on(r, n) == [r EXCEPT !.i = @ + n]
        step(r) ==
          LET c == s[r.i]
              csi == Csi(s, r.i + 2)
              osc == OscEnd(s, r.i + 2)
          IN CASE c = "CR" -> [on(r, 1) EXCEPT !.col = 0]
               [] c = "BS" -> [on(r, 1) EXCEPT !.col = IF @ > 0 THEN @ - 1 ELSE 0]
               [] c = "TAB" -> TabStop(on(r, 1))
               [] c = "ESC" /\ r.i = Len(s) -> on(r, 1)
               [] c = "ESC" /\ s[r.i + 1] = "[" ->
                    IF csi.end = "final"
                    THEN [Obeyed(r, s[csi.j - 1], csi.ps) EXCEPT !.i = csi.j]
                    ELSE [r EXCEPT !.stop = TRUE]
               [] c = "ESC" /\ s[r.i + 1] = "]" ->
                    [r EXCEPT !.i = osc + (IF At(s, osc) = "ESC" THEN 2 ELSE 1)]
               [] c = "ESC" -> on(r, 2)
               [] c \in {"BEL", "NUL"} -> on(r, 1)
               [] OTHER -> Put(on(r, 1), c)
        end == Until(step, LAMBDA r : r.stop \/ r.i > Len(s),
                     [i |-> 1, cols |-> <<>>, len |-> 0, col |-> 0, stop |-> FALSE])
    IN SubSeq(end.cols, 1, end.len)

(* line_needs_render                                                        *)
NeedsRender(s) == \E i \in DOMAIN s : s[i] \in {"CR", "BS", "TAB", "ESC"}

(* render_text, nm_proc_render: line by line, a plain one as it is.         *)
Render(text) ==
    LET ends == {i \in 1 .. Len(text) : text[i] = "NL"}
        from(e) == LET before == {i \in ends : i < e}
                   IN IF before = {} THEN 1
                      ELSE 1 + (CHOOSE i \in before : \A k \in before : k <= i)
        line(e) == LET s == SubSeq(text, from(e), e - 1)
                   IN IF NeedsRender(s) THEN RenderLine(s) ELSE s
    IN Joined([e \in 1 .. Len(text) + 1 |->
                 IF e > Len(text) THEN line(e)
                 ELSE IF text[e] = "NL" THEN Append(line(e), "NL") ELSE <<>>])
=============================================================================
