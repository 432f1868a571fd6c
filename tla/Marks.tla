------------------------------- MODULE Marks --------------------------------
(***************************************************************************)
(* The classifier of markdown lines (markdown.c): of every line of an      *)
(* answer, as it completes, whether it continues the block before it,      *)
(* starts one, opens or closes a fence, or makes the line before it a      *)
(* heading or the head of a table.  What the terminal library does with    *)
(* the verdicts is not modelled.  And the highlighter of fenced code       *)
(* (highlight.c): a line is cut into runs of one kind each, and all that   *)
(* outlives a line is whether a block comment stands open.  A line is a    *)
(* sequence of characters, a run the places [from, to) of it.              *)
(***************************************************************************)
EXTENDS Repeat, FiniteSets

CONSTANTS
    CellsMax,       \* MAX_CELLS
    Keywords,       \* language -> its keywords (kw_c, kw_sh, kw_json)
    Aliases         \* first word of a fence, folded -> language

At(s, i) == IF i \in DOMAIN s THEN s[i] ELSE "end"
From(s, i) == SubSeq(s, i, Len(s))

(* From i on, the first place where p does not hold.                        *)
Past(s, i, p(_)) == Until(LAMBDA j : j + 1, LAMBDA j : j > Len(s) \/ ~p(s[j]), i)
IsSpace(c) == c = " "
Blank(s) == \A i \in DOMAIN s : IsSpace(s[i])

(* block_indent: up to four columns; the place behind them.                 *)
Indent(s) == LET i == Past(s, 1, IsSpace) IN IF i > 5 THEN 5 ELSE i

Trimmed(s) ==
    LET a == Past(s, 1, IsSpace)
        b == Until(LAMBDA k : k - 1, LAMBDA k : k < a \/ ~IsSpace(s[k]), Len(s))
    IN SubSeq(s, a, b)

(* Mutant: an escaped bar parts two cells.                                  *)
SplitCellsRaw(s) ==
    LET i == Past(s, 1, IsSpace)
        pipe == At(s, i) = "|"
        first == IF pipe THEN i + 1 ELSE i
        bars == SelectSeq([k \in 1 .. Len(s) |-> k], LAMBDA k : k >= first /\ s[k] = "|")
        ends == Append(bars, Len(s) + 1)
        cell(k) == Trimmed(SubSeq(s, IF k = 1 THEN first ELSE ends[k - 1] + 1, ends[k] - 1))
        n == IF Len(ends) > 1 /\ cell(Len(ends)) = <<>> THEN Len(ends) - 1 ELSE Len(ends)
    IN [pipe |-> pipe, cells |-> [k \in 1 .. n |-> cell(k)]]

(* split_cells: a bar parts two cells unless it is escaped; nothing behind  *)
(* the last one is no cell.                                                 *)
SplitCells(s) ==
    LET i == Past(s, 1, IsSpace)
        pipe == At(s, i) = "|"
        first == IF pipe THEN i + 1 ELSE i
        step(r) == CASE s[r.at] = "\\" /\ r.at < Len(s) -> [r EXCEPT !.at = @ + 2]
                     [] s[r.at] = "|" -> [at |-> r.at + 1, bars |-> Append(r.bars, r.at)]
                     [] OTHER -> [r EXCEPT !.at = @ + 1]
        bars == Until(step, LAMBDA r : r.at > Len(s), [at |-> first, bars |-> <<>>]).bars
        ends == Append(bars, Len(s) + 1)
        cell(k) == Trimmed(SubSeq(s, IF k = 1 THEN first ELSE ends[k - 1] + 1, ends[k] - 1))
        n == IF Len(ends) > 1 /\ cell(Len(ends)) = <<>> THEN Len(ends) - 1 ELSE Len(ends)
    IN [pipe |-> pipe, cells |-> [k \in 1 .. n |-> cell(k)]]

(* is_delim_cell, is_delimiter_row: the cells past the last kept are taken  *)
(* for such.                                                                *)
IsDelimCell(c) ==
    LET a == IF At(c, 1) = ":" THEN 2 ELSE 1
        b == Past(c, a, LAMBDA d : d = "-")
    IN b > a /\ (IF At(c, b) = ":" THEN b + 1 ELSE b) = Len(c) + 1
IsDelimiterRow(cells) ==
    \A k \in 1 .. (IF Len(cells) < CellsMax THEN Len(cells) ELSE CellsMax) : IsDelimCell(cells[k])

(* fence_run, fence_rest_blank: three or more ticks, or tildes.             *)
FenceRun(s) ==
    LET i == Past(s, 1, IsSpace)
        j == Past(s, i, LAMBDA c : c = At(s, i))
    IN IF At(s, i) \in {"tick", "~"} /\ j - i >= 3
       THEN [char |-> s[i], run |-> j - i, bare |-> Blank(From(s, j))]
       ELSE [char |-> "", run |-> 0, bare |-> FALSE]

(* nm_markdown_image_ref: where the text of an image and its source stand.  *)
ImageRef(line) ==
    LET s == SubSeq(line, 1, Until(LAMBDA k : k - 1,
                                   LAMBDA k : k = 0 \/ ~(IsSpace(line[k]) \/ line[k] = "NL"), Len(line)))
        i == Indent(s)
        alt == Past(s, i + 2, LAMBDA c : c # "]")
        close == Until(LAMBDA k : k - 1, LAMBDA k : k < alt + 2 \/ s[k] = ")", Len(s))
    IN IF /\ At(s, i) = "!" /\ At(s, i + 1) = "[" /\ At(s, alt + 1) = "("
          /\ alt <= Len(s) /\ close = Len(s) /\ close > alt + 2
       THEN <<[alt |-> SubSeq(s, i + 2, alt - 1), src |-> SubSeq(s, alt + 2, close - 1)]>>
       ELSE <<>>

(* nm_markdown_trailing_blank: whether a text ends with a blank line.       *)
TrailingBlank(text) ==
    LET end == IF At(text, Len(text)) = "NL" THEN Len(text) - 1 ELSE Len(text)
        start == Until(LAMBDA k : k - 1, LAMBDA k : k = 0 \/ text[k] = "NL", end)
    IN text # <<>> /\ Blank(SubSeq(text, start + 1, end))

---------------------------------------------------------------------------
(* md_classify: the state, a line and the one before it. *)

(* md_reset                                                                 *)
Reset == [fence |-> "", ticks |-> 0, list |-> FALSE, quote |-> FALSE, oneline |-> FALSE,
          cells |-> 0, header |-> FALSE]

IsHeading(s) ==
    LET i == Indent(s)   h == Past(s, i, LAMBDA c : c = "#")
    IN h - i \in 1 .. 6 /\ (h > Len(s) \/ IsSpace(s[h]))
IsUnderline(s) ==
    LET i == Indent(s)   k == Past(s, i, LAMBDA c : c = At(s, i))
    IN At(s, i) \in {"=", "-"} /\ Blank(From(s, k))
IsItem(s) ==
    LET i == Indent(s)   d == Past(s, i, LAMBDA c : c = "1")
    IN \/ At(s, i) \in {"-", "*", "+"} /\ IsSpace(At(s, i + 1))
       \/ d > i /\ At(s, d) \in {".", ")"} /\ IsSpace(At(s, d + 1))

Verdict(m, class, kind) == [m |-> m, class |-> class, kind |-> kind]

Classify(was, line, prev) ==
    LET m == [was EXCEPT !.list = FALSE, !.quote = FALSE, !.oneline = FALSE]
        clear == [m EXCEPT !.header = FALSE]
        fence == FenceRun(line)
        row == SplitCells(line)
        head == SplitCells(prev)
        table == /\ was.header /\ ~Blank(prev) /\ Len(head.cells) = was.cells
                 /\ IsDelimiterRow(row.cells) /\ (row.pipe \/ head.pipe)
                 /\ Len(row.cells) = was.cells
        text == [clear EXCEPT !.cells = Len(row.cells), !.header = TRUE]
        boundary == Blank(prev) /\ ~was.list /\ ~was.quote
    IN CASE was.fence # "" ->
              IF fence.char = was.fence /\ fence.run >= was.ticks /\ fence.bare
              THEN Verdict([m EXCEPT !.fence = ""], "close", "")
              ELSE Verdict(m, "continues", "")
         [] was.fence = "" /\ Blank(line) ->
              IF Blank(prev) THEN Verdict(clear, "blank", "")
              ELSE Verdict([clear EXCEPT !.list = was.list, !.quote = was.quote], "continues", "")
         [] was.fence = "" /\ fence.run > 0 ->
              Verdict([clear EXCEPT !.fence = fence.char, !.ticks = fence.run], "open",
                      IF fence.bare THEN "plain fence" ELSE "fence")
         [] OTHER ->
              IF table THEN Verdict(clear, "retro", "table")
              ELSE IF IsHeading(line) THEN Verdict([clear EXCEPT !.oneline = TRUE], "start", "heading")
              ELSE IF ~Blank(prev) /\ IsUnderline(line) THEN Verdict(clear, "retro", "heading")
              ELSE IF IsItem(line) THEN Verdict([clear EXCEPT !.list = TRUE], "start", "list")
              ELSE IF At(line, Indent(line)) = ">"
              THEN Verdict([clear EXCEPT !.quote = TRUE], "start", "quote")
              ELSE IF boundary /\ ImageRef(line) # <<>>
              THEN Verdict([clear EXCEPT !.oneline = TRUE], "start", "image")
              ELSE IF ~Blank(prev) /\ ~was.list /\ ~was.quote /\ ~was.oneline
              THEN Verdict(text, "continues", "")
              ELSE Verdict(text, "start", "paragraph")

(* The verdicts on the lines of an answer.                                  *)
Classified(lines) ==
    LET next(r, line) ==
          LET v == Classify(r.m, line, r.prev)
          IN [m |-> v.m, prev |-> line, out |-> Append(r.out, [class |-> v.class, kind |-> v.kind])]
    IN Over(next, [m |-> Reset, prev |-> <<>>, out |-> <<>>], lines)

---------------------------------------------------------------------------
Digit  == {"0", "1"}
Letter == {"e", "f", "i", "_"}
Space  == {" ", "TAB"}


(* From i on, the first place out of the set, or behind the end.            *)
Over1(s, i, set) == Until(LAMBDA j : j + 1, LAMBDA j : At(s, j) \notin set, i)

(* ieq_lit folds the letters of a word.                                     *)
Lower(c) == CASE c = "F" -> "f" [] c = "E" -> "e" [] OTHER -> c

(* nm_highlight_lang: by the first word of the fence's label.               *)
Lang(info) ==
    LET a == Over1(info, 1, Space)
        b == Until(LAMBDA j : j + 1, LAMBDA j : At(info, j) \in Space \cup {"end"}, a)
        word == [k \in 1 .. b - a |-> Lower(info[a + k - 1])]
    IN IF word \in DOMAIN Aliases THEN Aliases[word] ELSE "none"

(* Behind the close of a block comment, or 0.                               *)
CommentEnd(s, from) ==
    LET closes == {k \in from .. Len(s) - 1 : s[k] = "*" /\ s[k + 1] = "/"}
    IN IF closes = {} THEN 0 ELSE 2 + (CHOOSE k \in closes : \A l \in closes : k <= l)

(* scan_quoted: behind the closing quote, or behind the line.               *)
QuotedEnd(s, i, escapes) ==
    LET step(r) == CASE escapes /\ s[r.k] = "\\" -> [r EXCEPT !.k = @ + 2]
                     [] s[r.k] = s[i] /\ ~(escapes /\ s[r.k] = "\\") -> [k |-> r.k + 1, done |-> TRUE]
                     [] OTHER -> [r EXCEPT !.k = @ + 1]
        end == Until(step, LAMBDA r : r.done \/ r.k > Len(s), [k |-> i + 1, done |-> FALSE])
    IN IF end.done THEN end.k ELSE Len(s) + 1

(* scan_number_c, scan_number_json                                          *)
NumberEnd(s, i) == Over1(s, i, Digit \cup Letter \cup {"."})
JsonNumberEnd(s, i) ==
    LET skip(j, set) == IF At(s, j) \in set THEN j + 1 ELSE j
        int == Over1(s, skip(i, {"-"}), Digit)
        frac == IF At(s, int) = "." THEN Over1(s, int + 1, Digit) ELSE int
    IN IF At(s, frac) = "e" THEN Over1(s, skip(frac + 1, {"+", "-"}), Digit) ELSE frac

---------------------------------------------------------------------------
(* The token at i: its kind, what follows it, and the comment left open. *)

Token(kind, end) == [kind |-> kind, end |-> end, open |-> FALSE]
Commented(s, end) ==
    IF end = 0 THEN [Token("comment", Len(s) + 1) EXCEPT !.open = TRUE]
               ELSE Token("comment", end)
Word(lang, s, i) ==
    LET end == Over1(s, i, Letter \cup Digit)
    IN Token(IF SubSeq(s, i, end - 1) \in Keywords[lang] THEN "keyword" ELSE "plain", end)

(* Mutant: the star that opens a comment may close it.                      *)
TokenCTight(s, i, open) ==
    CASE open -> Commented(s, CommentEnd(s, i))
      [] ~open /\ At(s, i) = "/" /\ At(s, i + 1) = "/" -> Token("comment", Len(s) + 1)
      [] ~open /\ At(s, i) = "/" /\ At(s, i + 1) = "*" -> Commented(s, CommentEnd(s, i + 1))
      [] ~open /\ s[i] \in {"\"", "'"} -> Token("string", QuotedEnd(s, i, TRUE))
      [] ~open /\ (s[i] \in Digit \/ (s[i] = "." /\ At(s, i + 1) \in Digit)) ->
           Token("number", NumberEnd(s, i))
      [] ~open /\ s[i] \in Letter -> Word("c", s, i)
      [] OTHER -> Token("plain", i + 1)

(* scan_c                                                                   *)
TokenC(s, i, open) ==
    CASE open -> Commented(s, CommentEnd(s, i))
      [] ~open /\ At(s, i) = "/" /\ At(s, i + 1) = "/" -> Token("comment", Len(s) + 1)
      [] ~open /\ At(s, i) = "/" /\ At(s, i + 1) = "*" -> Commented(s, CommentEnd(s, i + 2))
      [] ~open /\ s[i] \in {"\"", "'"} -> Token("string", QuotedEnd(s, i, TRUE))
      [] ~open /\ (s[i] \in Digit \/ (s[i] = "." /\ At(s, i + 1) \in Digit)) ->
           Token("number", NumberEnd(s, i))
      [] ~open /\ s[i] \in Letter -> Word("c", s, i)
      [] OTHER -> Token("plain", i + 1)

(* scan_sh                                                                  *)
TokenSh(s, i) ==
    CASE s[i] = "#" /\ (i = 1 \/ s[i - 1] \in Space) -> Token("comment", Len(s) + 1)
      [] s[i] \in {"\"", "'"} -> Token("string", QuotedEnd(s, i, s[i] = "\""))
      [] s[i] \in Digit -> Token("number", NumberEnd(s, i))
      [] s[i] \in Letter -> Word("sh", s, i)
      [] OTHER -> Token("plain", i + 1)

(* scan_json                                                                *)
TokenJson(s, i) ==
    CASE s[i] = "\"" -> Token("string", QuotedEnd(s, i, TRUE))
      [] s[i] \in Digit \/ (s[i] = "-" /\ At(s, i + 1) \in Digit) ->
           Token("number", JsonNumberEnd(s, i))
      [] s[i] \in Letter -> Word("json", s, i)
      [] OTHER -> Token("plain", i + 1)

TokenAt(lang, s, i, open) ==
    CASE lang = "c" -> TokenC(s, i, open)
      [] lang = "sh" -> TokenSh(s, i)
      [] lang = "json" -> TokenJson(s, i)
      [] lang = "none" -> Token("plain", Len(s) + 1)

(* nm_highlight_line: what is plain waits for the next run; no run is empty *)
Run(kind, from, to) == IF from < to THEN <<[kind |-> kind, from |-> from, to |-> to]>> ELSE <<>>
Line(lang, open, s) ==
    LET step(r) ==
          LET t == TokenAt(lang, s, r.at, r.open)
          IN IF t.kind = "plain" THEN [r EXCEPT !.at = t.end]
             ELSE [at |-> t.end, plain |-> t.end, open |-> t.open,
                   runs |-> r.runs \o Run("plain", r.plain, r.at) \o Run(t.kind, r.at, t.end)]
        end == Until(step, LAMBDA r : r.at > Len(s), [at |-> 1, plain |-> 1, open |-> open, runs |-> <<>>])
    IN [open |-> end.open, runs |-> end.runs \o Run("plain", end.plain, Len(s) + 1)]

(* The lines of a fence, from nm_highlight_begin on.                        *)
Highlighted(lang, lines) ==
    Over(LAMBDA r, s : LET l == Line(lang, r.open, s)
                       IN [open |-> l.open, out |-> Append(r.out, l.runs)],
         [open |-> FALSE, out |-> <<>>], lines)
=============================================================================
