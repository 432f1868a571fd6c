----------------------------- MODULE FileTools ------------------------------
(***************************************************************************)
(* write_file and edit_file (tools_file.c): a file of the user's is never  *)
(* written in place, a whole copy is prepared beside it and renamed over   *)
(* it.  Other programs work on the same files between any two system       *)
(* calls, every call may fail, and the program may be killed.  A text is a *)
(* sequence of letters, "?" standing for bytes that are not UTF-8.  What   *)
(* the ledger is told is modelled in FileLedger.                           *)
(***************************************************************************)
EXTENDS Integers, Sequences, FiniteSets

CONSTANTS
    FileNames,      \* the names the calls and the links spell
    Texts,          \* what other programs and write_file put into a file
    Edits,          \* records [old, new, all] edit_file is called with
    Dirs,           \* the directories there may be to begin with
    LinkMax,        \* NM_WRITE_LINK_MAX
    KernelLinks,    \* the links the kernel follows
    Pids,           \* process ids, used again after a restart
    MaxCalls, MaxForeign    \* bounds: calls, and steps of other programs

VARIABLES
    dir,        \* name -> entry of the user's directory
    temps,      \* the temporary copies that exist
    self,       \* the program: its pid and g_write_seq
    call,       \* the call that runs
    reply,      \* the answer of the last call that ended, for the properties
    used        \* calls, foreign steps and kills so far

files == <<dir, temps, self, call, reply, used>>

Entry(kind, text, perm, to) == [kind |-> kind, text |-> text, perm |-> perm, to |-> to]
Absent == Entry("absent", <<>>, "rw", "")
NoCall == [at |-> "idle"]
Perms == {"rw", "rwx", "ro"}

Links == {Entry("link", <<>>, "rw", m) : m \in FileNames}
DirEntries == [kind : {"absent", "dir", "file"}, text : Seq(STRING), perm : Perms, to : {""}]
               \cup Links

(* A text is a sequence of letters, and the kernel follows at least as many *)
(* links as the program does ("as the kernel", tools_file.c:355).           *)
ASSUME FilesAssumption ==
    /\ Texts \subseteq Seq(STRING) /\ MaxCalls \in Nat /\ Pids # {}
    /\ \A e \in Edits : e.old \in Seq(STRING) /\ e.new \in Seq(STRING)
    /\ Dirs \subseteq [FileNames -> DirEntries]
    /\ KernelLinks \in Nat /\ LinkMax \in 0 .. KernelLinks

(* The names n leads to, link by link.                                      *)
Way(d, n) ==
    LET way[k \in 0 .. KernelLinks] ==
          IF k = 0 THEN n
          ELSE LET m == way[k - 1] IN IF d[m].kind = "link" THEN d[m].to ELSE m
    IN way

(* What stat() sees: the end of the links, nothing on a loop.               *)
Follow(d, n) == Way(d, n)[KernelLinks]
Stat(n) == IF dir[Follow(dir, n)].kind = "link" THEN Absent ELSE dir[Follow(dir, n)]

---------------------------------------------------------------------------
(* The text of an edit.                                                     *)

(* find_literal: the first place at or after `from` (counted from 0) where  *)
(* the needle stands, -1 for none.                                          *)
FindLiteral(hay, needle, from) ==
    LET at == {i \in from .. Len(hay) - Len(needle) :
                  SubSeq(hay, i + 1, i + Len(needle)) = needle}
    IN IF needle = <<>> \/ from >= Len(hay) \/ at = {} THEN -1
       ELSE CHOOSE i \in at : \A j \in at : i <= j

(* Every occurrence, each sought behind the end of the one before.          *)
Hits(hay, needle) ==
    LET hits[k \in 0 .. Len(hay)] ==
          IF k = 0 THEN <<>>
          ELSE LET r == hits[k - 1]
                   behind == IF r = <<>> THEN 0 ELSE r[Len(r)] + Len(needle)
                   i == FindLiteral(hay, needle, behind)
               IN IF i < 0 THEN r ELSE Append(r, i)
    IN hits[Len(hay)]

(* The new text, the pieces between the hits copied in order.               *)
Edited(hay, e) ==
    LET hits == Hits(hay, e.old)
        prev(k) == IF k = 0 THEN 0 ELSE hits[k] + Len(e.old)
        out[k \in 0 .. Len(hits)] ==
          IF k = 0 THEN <<>>
          ELSE out[k - 1] \o SubSeq(hay, prev(k - 1) + 1, hits[k]) \o e.new
    IN out[Len(hits)] \o SubSeq(hay, prev(Len(hits)) + 1, Len(hay))

(* The room edit_file reserves for it.                                      *)
Room(hay, e) ==
    Len(hay) + Len(Hits(hay, e.old)) *
        (IF Len(e.new) > Len(e.old) THEN Len(e.new) - Len(e.old) ELSE 0)

---------------------------------------------------------------------------
Begin(path) ==
    /\ call = NoCall /\ used.calls < MaxCalls
    /\ used' = [used EXCEPT !.calls = @ + 1]

Writing(path, text) ==
    [at |-> "resolve", path |-> path, text |-> text, target |-> "", perm |-> "rw",
     done |-> 0, before |-> dir, calm |-> TRUE]

NoReply == [outcome |-> "none"]

Refused(path) ==
    [path |-> path, outcome |-> "refused", text |-> <<>>, perm |-> "rw",
     before |-> dir, calm |-> TRUE]

(* edit_file up to the write: the text is read, and refused when it is not  *)
(* there, not text, holds no match, or more than one and not all are meant. *)
EditBegin(path, e) ==
    /\ Begin(path)
    /\ LET hay == Stat(path).text
           hits == Hits(hay, e.old)
       IN IF \/ e.old = <<>> \/ e.old = e.new
             \/ Stat(path).kind # "file"
             \/ (\E i \in DOMAIN hay : hay[i] = "?")
             \/ hits = <<>>
             \/ (Len(hits) > 1 /\ ~e.all)
          THEN call' = NoCall /\ reply' = Refused(path)
          ELSE call' = Writing(path, Edited(hay, e)) /\ reply' = NoReply
    /\ UNCHANGED <<dir, temps, self>>

(* write_file, refused where the directory does not exist.                  *)
WriteBegin(path, text, homeless) ==
    /\ Begin(path)
    /\ IF homeless THEN call' = NoCall /\ reply' = Refused(path)
       ELSE call' = Writing(path, text) /\ reply' = NoReply
    /\ UNCHANGED <<dir, temps, self>>

Temp == [of |-> call.target, pid |-> self.pid, seq |-> self.seq]
Mine == {t \in temps : [of |-> t.of, pid |-> t.pid, seq |-> t.seq] = Temp}

End(outcome) ==
    /\ call' = NoCall
    /\ reply' = [path |-> call.path, outcome |-> outcome, text |-> call.text,
                 perm |-> call.perm, before |-> call.before, calm |-> call.calm]

(* Mutant: the copy replaces the name the call gave, not what it leads to.  *)
ResolveNot(n) == [name |-> n, ok |-> TRUE]

(* resolve_links: the name behind the links, at most LinkMax of them.       *)
ResolveLinks(n) ==
    LET end == Way(dir, n)[LinkMax] IN [name |-> end, ok |-> dir[end].kind # "link"]

Resolves ==
    /\ call.at = "resolve"
    /\ LET r == ResolveLinks(call.path)
       IN IF r.ok THEN /\ call' = [call EXCEPT !.at = "stat", !.target = r.name]
                       /\ UNCHANGED reply
          ELSE End("refused")
    /\ UNCHANGED <<dir, temps, self, used>>

(* The target is a plain file that may be written, or not there.            *)
Stats ==
    /\ call.at = "stat"
    /\ LET st == Stat(call.target)
       IN IF st.kind = "dir" \/ (st.kind = "file" /\ st.perm = "ro")
          THEN End("refused") /\ UNCHANGED self
          ELSE /\ call' = [call EXCEPT !.at = "open", !.perm = st.perm]
               /\ self' = [self EXCEPT !.seq = @ + 1]
               /\ UNCHANGED reply
    /\ UNCHANGED <<dir, temps, used>>

(* The copy is created anew, never over one that exists, and given the mode *)
(* of the file it is to replace.                                            *)
Opens ==
    /\ call.at = "open" /\ Mine = {}
    /\ temps' = temps \cup {[of |-> call.target, pid |-> self.pid, seq |-> self.seq,
                             text |-> <<>>, perm |-> call.perm]}
    /\ call' = [call EXCEPT !.at = "write"]
    /\ UNCHANGED <<dir, self, reply, used>>

OpenFails ==
    /\ call.at = "open" /\ End("refused")
    /\ UNCHANGED <<dir, temps, self, used>>

(* One write() takes any part of what is left.                              *)
Writes ==
    /\ call.at = "write" /\ call.done < Len(call.text)
    /\ \E n \in 1 .. Len(call.text) - call.done :
          /\ temps' = (temps \ Mine) \cup
                 {[t EXCEPT !.text = SubSeq(call.text, 1, call.done + n)] : t \in Mine}
          /\ call' = [call EXCEPT !.done = @ + n]
    /\ UNCHANGED <<dir, self, reply, used>>

(* Mutant: the name is given to the copy although its write failed.         *)
WriteFailsRenaming ==
    /\ call.at \in {"write", "rename"}
    /\ temps' = temps \ Mine
    /\ dir' = [dir EXCEPT ![call.target] =
                 Entry("file", SubSeq(call.text, 1, call.done), call.perm, "")]
    /\ End("refused")
    /\ UNCHANGED <<self, used>>

(* The mode, a write, the close or the rename fails: the copy is removed.   *)
WriteFails ==
    /\ call.at \in {"write", "rename"}
    /\ temps' = temps \ Mine /\ End("refused")
    /\ UNCHANGED <<dir, self, used>>

ClosesCopy ==
    /\ call.at = "write" /\ call.done = Len(call.text)
    /\ call' = [call EXCEPT !.at = "rename"]
    /\ UNCHANGED <<dir, temps, self, reply, used>>

(* rename() replaces what the target names now: another program may have    *)
(* put a link there, never a directory.                                     *)
Renames ==
    /\ call.at = "rename" /\ dir[call.target].kind # "dir"
    /\ \E t \in Mine : dir' = [dir EXCEPT ![call.target] =
                                   Entry("file", t.text, t.perm, "")]
    /\ temps' = temps \ Mine /\ End("ok")
    /\ UNCHANGED <<self, used>>

---------------------------------------------------------------------------
ForeignEntries == {Absent, Entry("dir", <<>>, "rw", "")} \cup Links
                  \cup [kind : {"file"}, text : Texts, perm : Perms, to : {""}]

(* Another program writes, removes, replaces or protects a file.            *)
Foreign(n) ==
    /\ used.foreign < MaxForeign
    /\ used' = [used EXCEPT !.foreign = @ + 1]
    /\ \E new \in ForeignEntries :
          /\ dir' = [dir EXCEPT ![n] = new]
          /\ call' = IF call = NoCall THEN call
                     ELSE [call EXCEPT !.calm = FALSE, !.before = dir']
    /\ reply' = NoReply
    /\ UNCHANGED <<temps, self>>

(* The program is killed and starts again, perhaps under the same pid.      *)
Killed ==
    /\ call # NoCall
    /\ \E p \in Pids : self' = [pid |-> p, seq |-> 0]
    /\ End("killed")
    /\ used' = [used EXCEPT !.kills = @ + 1]
    /\ UNCHANGED <<dir, temps>>

FilesIdle ==
    /\ temps = {} /\ call = NoCall /\ used = [calls |-> 0, foreign |-> 0, kills |-> 0]
    /\ self = [pid |-> CHOOSE p \in Pids : TRUE, seq |-> 0]
    /\ reply = NoReply

FilesInit == dir \in Dirs /\ FilesIdle

FilesNext ==
    \/ \E n \in FileNames : \E e \in Edits : EditBegin(n, e)
    \/ \E n \in FileNames, t \in Texts, h \in BOOLEAN : WriteBegin(n, t, h)
    \/ call # NoCall /\ (Resolves \/ Stats \/ Opens \/ OpenFails \/ Writes
                         \/ WriteFails \/ ClosesCopy \/ Renames)
    \/ Killed
    \/ \E n \in FileNames : Foreign(n)

FilesSpec == FilesInit /\ [][FilesNext]_files

-----------------------------------------------------------------------------
(* Properties *)

(* The texts somebody means a file to hold within k calls.                  *)
Meant[k \in 0 .. MaxCalls] ==
    IF k = 0 THEN Texts \cup {d[n].text : d \in Dirs, n \in FileNames}
    ELSE Meant[k - 1] \cup {Edited(t, e) : t \in Meant[k - 1], e \in Edits}

(* No name leads to half a text.                                            *)
TextsAreWhole ==
    \A n \in FileNames : dir[n].kind = "file" => dir[n].text \in Meant[used.calls]

(* An answered write has replaced what the path leads to and nothing else,  *)
(* and kept its mode; any other has changed nothing.                        *)
RepliesAreTrue ==
    /\ reply.outcome = "ok" /\ reply.calm =>
          LET end == Follow(reply.before, reply.path)
          IN /\ dir = [reply.before EXCEPT ![end] =
                         Entry("file", reply.text, reply.perm, "")]
             /\ reply.before[end].kind = "file" =>
                   reply.before[end].perm = reply.perm
    /\ reply.outcome \in {"refused", "killed"} /\ reply.calm => dir = reply.before

(* The write under way has at most one copy, and a kill leaves one.         *)
CopiesAreCounted ==
    Cardinality(temps) <= used.kills
                          + (IF call.at \in {"write", "rename"} THEN 1 ELSE 0)

(* A name of the user's never leads to half a text, wherever the program is *)
(* killed; an answered write has replaced the file the path leads to,       *)
(* leaving links, modes and other names as they were; a refused one changed *)
(* nothing, as long as no other program touches the directory during the    *)
(* call; and only a kill leaves a copy behind (write_atomic).               *)
EditsAreWhole == TextsAreWhole /\ RepliesAreTrue /\ CopiesAreCounted
=============================================================================
