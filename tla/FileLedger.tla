----------------------------- MODULE FileLedger -----------------------------
(***************************************************************************)
(* The session's file ledger, src/src/file_ledger.c, and the file tools    *)
(* that consult it, src/src/tools_file.c: which reads of a file this       *)
(* conversation holds, and whether the file is still what they showed.     *)
(*                                                                         *)
(* read_file stats the file first and reads its bytes afterwards, so       *)
(* another process may write between the two: a read is two steps.  The    *)
(* content hash stands for the content (no collisions).  A file is a       *)
(* sequence of lines; a line is a name with a length.                      *)
(***************************************************************************)
EXTENDS Integers, Sequences, SequencesExt

CONSTANTS
    Paths,      \* resolved paths the tools are called with
    Names,      \* the files behind them
    FileOf,     \* two spellings, or a link, may lead to one file
    LineSize,   \* the bytes of each line
    Contents,   \* what a file may hold: sequences of lines
    Windows,    \* legal windows: offset, limit (0 = to the end), numbered
    Budget,     \* bytes one result may show
    MaxEntries, \* NM_FILE_LEDGER_MAX_ENTRIES
    MaxStamp    \* bound: modification times

ASSUME ConstantsAssumption ==
    /\ FileOf \in [Paths -> Names]
    /\ \A c \in Contents : c \in Seq(DOMAIN LineSize)
    /\ \A l \in DOMAIN LineSize : LineSize[l] \in Nat \ {0}
    /\ Windows \subseteq [offset : Nat \ {0}, limit : Nat, numbered : BOOLEAN]
    /\ Budget \in Nat /\ MaxEntries \in Nat \ {0} /\ MaxStamp \in Nat \ {0}

VARIABLES
    disk,     \* each file's content and modification time
    ledger,   \* the records, oldest first: the order of seq
    reading,  \* the read_file between its stat and its bytes, or NoRead
    answer,   \* what that read answered, or NoAnswer
    \* for the properties
    now,      \* the newest modification time given so far
    honest,   \* every write so far gave its file a newer time than that
    above,    \* per path: the windows of text delivered to the conversation
              \* since the model last wrote the path
    seen,     \* per path: the content at the last read, or Unread
    foreign   \* per path: another process wrote the file since the last
              \* delivering read took its stat

histories == <<above, seen, foreign>>
vars == <<disk, now, honest, ledger, reading, answer, histories>>

NoRead   == [path |-> "none"]
NoAnswer == [verdict |-> "none"]
Unread   == <<"unread">>

-----------------------------------------------------------------------------
(* Files *)

Sum(c, lengths) == FoldLeft(LAMBDA n, l : n + lengths[l], 0, c)

Size(c) == Sum(c, LineSize)

Identity(f) == [size |-> Size(disk[f].content), mtime |-> disk[f].mtime]

Smaller(m, n) == IF m < n THEN m ELSE n

(* The last line of window w that the text c has.                           *)
LastLine(c, w) == IF w.limit = 0 THEN Len(c)
                  ELSE Smaller(Len(c), w.offset + w.limit - 1)

(* The lines a read shows: whole lines from the window's first, each with   *)
(* its cat -n prefix, until one does not fit the budget.                    *)
Cost(w) == [l \in DOMAIN LineSize |->
               LineSize[l] + IF w.numbered THEN 7 ELSE 0]

Fits(c, w, n) == Sum(SubSeq(c, w.offset, n), Cost(w)) <= Budget

Body(c, w) ==
    LET ends == {n \in w.offset - 1 .. LastLine(c, w) : Fits(c, w, n)}
    IN  SubSeq(c, w.offset, CHOOSE n \in ends : \A k \in ends : k <= n)

-----------------------------------------------------------------------------
(* The ledger *)

(* The records that still tell something about the file behind path p.      *)
Live(p) == {i \in DOMAIN ledger : ledger[i].path = p /\ ~ledger[i].ours}

(* Mutant: the model's own write is not looked at.                          *)
RepeatsOurs(r) ==
    \E i \in DOMAIN ledger : /\ ledger[i].path = r.path
                             /\ ledger[i].window = r.window
                             /\ ledger[i].content = r.content

Repeats(r) == \E i \in Live(r.path) : /\ ledger[i].window = r.window
                                      /\ ledger[i].content = r.content

(* Mutant: the size alone is the identity.                                  *)
SameSize(r) == \E i \in Live(r.path) : ledger[i].id.size = r.id.size

SameFile(r) == \E i \in Live(r.path) : ledger[i].id = r.id

Verdict(r) == IF Repeats(r) THEN "REPEAT"
              ELSE IF Live(r.path) # {} /\ ~SameFile(r) THEN "CHANGED"
              ELSE "NONE"

SameKey(r) == {i \in DOMAIN ledger : /\ ledger[i].path = r.path
                                     /\ ledger[i].window = r.window}

(* Mutant: nothing is ever evicted.                                         *)
RecordAlways(r) ==
    IF SameKey(r) # {}
      THEN Append(RemoveAt(ledger, CHOOSE i \in SameKey(r) : TRUE), r)
    ELSE Append(ledger, r)

(* Its record replaced, a free slot taken, or the oldest record evicted.    *)
Record(r) ==
    IF SameKey(r) # {}
      THEN Append(RemoveAt(ledger, CHOOSE i \in SameKey(r) : TRUE), r)
    ELSE IF Len(ledger) < MaxEntries THEN Append(ledger, r)
    ELSE Append(Tail(ledger), r)

(* Mutant: a write marks nothing.                                           *)
WrittenForgets(p) == ledger

Written(p) == [i \in DOMAIN ledger |->
                  [ledger[i] EXCEPT !.ours = @ \/ ledger[i].path = p]]

-----------------------------------------------------------------------------
(* Other processes *)

Stamps == 1 .. MaxStamp

Put(f, c, t) ==
    /\ disk' = [disk EXCEPT ![f] = [content |-> c, mtime |-> t]]
    /\ now' = IF t > now THEN t ELSE now
    /\ honest' = (honest /\ t > now)

(* Another process writes or touches a file, at any moment.                 *)
ForeignWrite(f) ==
    \E c \in Contents, t \in Stamps :
        /\ Put(f, c, t)
        /\ foreign' = [p \in Paths |-> foreign[p] \/ FileOf[p] = f]
        /\ reading' = IF reading # NoRead /\ FileOf[reading.path] = f
                        THEN [reading EXCEPT !.raced = TRUE] ELSE reading
        /\ answer' = NoAnswer
        /\ UNCHANGED <<ledger, above, seen>>

-----------------------------------------------------------------------------
(* The tools, one call at a time *)

(* read_file takes the identity the ledger will record ...                  *)
ReadStats(p, w) ==
    /\ reading = NoRead
    /\ reading' = [path |-> p, window |-> w, id |-> Identity(FileOf[p]),
                   raced |-> FALSE]
    /\ answer' = NoAnswer
    /\ UNCHANGED <<disk, now, honest, ledger, histories>>

(* ... and then the bytes.  It may fail: missing, not text, an image.       *)
ReadFails ==
    /\ reading # NoRead
    /\ reading' = NoRead /\ answer' = NoAnswer
    /\ UNCHANGED <<disk, now, honest, ledger, histories>>

Bytes == disk[FileOf[reading.path]].content

(* Neither empty nor shorter than the offset: only then is the ledger asked.*)
Noted == reading # NoRead /\ Bytes # <<>> /\ reading.window.offset <= Len(Bytes)

ReadShowsNothing ==
    /\ reading # NoRead /\ ~Noted
    /\ reading' = NoRead /\ answer' = NoAnswer
    /\ UNCHANGED <<disk, now, honest, ledger, histories>>

ReadingOf(c) == [path |-> reading.path, window |-> reading.window,
                 content |-> c, id |-> reading.id, ours |-> FALSE]

ReadIsNoted ==
    /\ Noted
    /\ LET r == ReadingOf(Bytes)
           p == r.path
           v == Verdict(r)
           text == Body(Bytes, r.window)
       IN  /\ ledger' = IF v = "REPEAT" THEN ledger ELSE Record(r)
           /\ answer' = [verdict |-> v, read |-> r, text |-> text,
                         known |-> Live(p) # {}, before |-> seen[p],
                         raced |-> reading.raced, foreign |-> foreign[p]]
           /\ above' = IF v = "REPEAT" THEN above
                       ELSE [above EXCEPT ![p] =
                                @ \cup {[window |-> r.window, text |-> text]}]
           /\ seen' = [seen EXCEPT ![p] = Bytes]
           /\ foreign' = IF v = "REPEAT" THEN foreign
                         ELSE [foreign EXCEPT ![p] = reading.raced]
    /\ reading' = NoRead
    /\ UNCHANGED <<disk, now, honest>>

(* write_file, or an edit_file that found its match, replaces the file; a   *)
(* refused write changes nothing.                                           *)
ToolWrites(p) ==
    /\ reading = NoRead
    /\ \E c \in Contents, t \in Stamps : Put(FileOf[p], c, t)
    /\ ledger' = Written(p)
    /\ above' = [above EXCEPT ![p] = {}] /\ seen' = [seen EXCEPT ![p] = Unread]
    /\ answer' = NoAnswer
    /\ UNCHANGED <<reading, foreign>>

-----------------------------------------------------------------------------
Init ==
    /\ disk \in [Names -> {[content |-> c, mtime |-> 1] : c \in Contents}]
    /\ now = 1 /\ honest = TRUE
    /\ ledger = <<>> /\ reading = NoRead /\ answer = NoAnswer
    /\ above = [p \in Paths |-> {}] /\ seen = [p \in Paths |-> Unread]
    /\ foreign = [p \in Paths |-> FALSE]

Next ==
    \/ \E f \in Names : ForeignWrite(f)
    \/ \E p \in Paths, w \in Windows : ReadStats(p, w)
    \/ ReadFails
    \/ ReadShowsNothing
    \/ ReadIsNoted
    \/ \E p \in Paths : ToolWrites(p)

Spec == Init /\ [][Next]_vars

-----------------------------------------------------------------------------
(* Properties *)

Ids     == [size : {Size(c) : c \in Contents}, mtime : Stamps]
Records == [path : Paths, window : Windows, content : Contents, id : Ids,
            ours : BOOLEAN]

(* The types; the table is bounded and has one record per path and window   *)
(* (entry_for).                                                             *)
TypeOK ==
    /\ disk \in [Names -> [content : Contents, mtime : Stamps]]
    /\ now \in Stamps /\ honest \in BOOLEAN
    /\ ledger \in Seq(Records) /\ Len(ledger) <= MaxEntries
    /\ \A i, j \in DOMAIN ledger :
          /\ ledger[i].path = ledger[j].path
          /\ ledger[i].window = ledger[j].window
          => i = j
    /\ \/ reading = NoRead
       \/ reading \in [path : Paths, window : Windows, id : Ids,
                       raced : BOOLEAN]
    /\ foreign \in [Paths -> BOOLEAN]

(* A repeat is answered only when the very lines this read would show were  *)
(* delivered for this path and window before, and the model has not written *)
(* the path since: whatever other processes did to the file and its times,  *)
(* and whatever the table forgot (nm_file_ledger_note_read's hash proof).   *)
RepeatIsAbove ==
    answer.verdict = "REPEAT" =>
        [window |-> answer.read.window, text |-> answer.text]
            \in above[answer.read.path]

(* A change is reported only when another process wrote the file since the  *)
(* conversation was last given text of it: never for the model's own write  *)
(* and never because records were evicted or replaced.                      *)
ChangedIsForeign == answer.verdict = "CHANGED" => answer.foreign

(* While modification times move on, a read that shows a content other than *)
(* the last one seen is reported as a change, unless the file was forgotten *)
(* or written during the very read.                                         *)
StaleViewTold ==
    /\ honest
    /\ answer.verdict = "NONE"
    /\ answer.known /\ ~answer.raced
    => answer.read.content = answer.before

(* What was just read is in the table, however full it was: asked again, it *)
(* is a repeat.                                                             *)
JustReadIsKept ==
    answer.verdict # "none" =>
        \E i \in Live(answer.read.path) :
            /\ ledger[i].window = answer.read.window
            /\ ledger[i].content = answer.read.content
=============================================================================
