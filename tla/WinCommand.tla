----------------------------- MODULE WinCommand -----------------------------
(***************************************************************************)
(* The one-shot command tool on Windows (tools_spawn_w32.c) over the       *)
(* process layer (proc.c, proc_w32.c).  A pipe there cannot be waited for: *)
(* a thread reads it into the job's buffer, and sets an event the loop     *)
(* waits on.  The thread, the child, what the child leaves running and the *)
(* loop act between any two steps; a close that finds the child still      *)
(* ending hands its state to the orphans and does not wait.  Bytes are     *)
(* counted, deadlines are what is left.                                    *)
(***************************************************************************)
EXTENDS RunCommand

CONSTANTS
    WinBudget,      \* the silence budget, 0 when off
    WinPrints,      \* bound: bytes a command prints
    WinCommands     \* bound: commands

ASSUME WinCommandAssumption ==
    WinBudget \in Nat /\ WinPrints \in Nat /\ WinCommands \in Nat

Runs == 1 .. WinCommands

VARIABLES
    os,     \* the NmProcOs of each command, and its child
    job,    \* the NmProc of each command
    drive,  \* the step of run_command: where it stands, and what it knows
    heard   \* what the model was told of the last command, and its child

windows == <<os, job, drive, heard>>

NoOs == [state |-> "none", owner |-> FALSE, thread |-> "none", got |-> 0,
         eof |-> FALSE, event |-> FALSE, exited |-> FALSE, pipe |-> 0, printed |-> 0,
         child |-> "none", code |-> "none", grand |-> FALSE, grouped |-> TRUE]
NoJob == [there |-> FALSE, reaped |-> FALSE, handle |-> FALSE, total |-> 0]
Undriven == [at |-> "idle", of |-> 0]

WinInit ==
    /\ os = [c \in Runs |-> NoOs] /\ job = [c \in Runs |-> NoJob]
    /\ drive = Undriven /\ heard = [note |-> "none"]

---------------------------------------------------------------------------
(* The processes.  A process that ends closes its handles first, and is     *)
(* seen to have ended afterwards.                                           *)

Held(o) == o.child = "runs" \/ o.grand

ChildPrints(c) ==
    /\ Held(os[c]) /\ os[c].printed < WinPrints
    /\ os' = [os EXCEPT ![c].pipe = @ + 1, ![c].printed = @ + 1]
    /\ UNCHANGED <<job, drive, heard>>

ChildForks(c) ==
    /\ os[c].child = "runs"
    /\ os' = [os EXCEPT ![c].grand = TRUE]
    /\ UNCHANGED <<job, drive, heard>>

GrandEnds(c) ==
    /\ os[c].grand
    /\ os' = [os EXCEPT ![c].grand = FALSE]
    /\ UNCHANGED <<job, drive, heard>>

(* An exit code may be the number that also means "still active".           *)
ChildEnds(c) ==
    /\ os[c].child = "runs"
    /\ \E code \in {"own", "259"} :
          os' = [os EXCEPT ![c].child = "ending", ![c].code = code]
    /\ UNCHANGED <<job, drive, heard>>

ChildGone(c) ==
    /\ os[c].child = "ending"
    /\ os' = [os EXCEPT ![c].child = "dead"]
    /\ UNCHANGED <<job, drive, heard>>

---------------------------------------------------------------------------
(* The reader thread: a read, then the job it may feed, then the buffer.    *)

ReadGets(c) ==
    /\ os[c].thread = "reading" /\ os[c].pipe > 0
    /\ os' = [os EXCEPT ![c].thread = "got", ![c].got = os[c].pipe, ![c].pipe = 0]
    /\ UNCHANGED <<job, drive, heard>>

ReadsOwner(c) ==
    /\ os[c].thread = "got"
    /\ os' = [os EXCEPT ![c].thread = IF os[c].owner THEN "feeding" ELSE "reading"]
    /\ UNCHANGED <<job, drive, heard>>

(* nm_proc_feed; into a freed job it writes nothing the program can rely on. *)
Feeds(c) ==
    /\ os[c].thread = "feeding"
    /\ job' = IF job[c].there THEN [job EXCEPT ![c].total = @ + os[c].got] ELSE job
    /\ os' = [os EXCEPT ![c].thread = "reading", ![c].got = 0]
    /\ UNCHANGED <<drive, heard>>

ReadEnds(c) ==
    /\ os[c].thread = "reading" /\ os[c].pipe = 0 /\ ~Held(os[c])
    /\ os' = [os EXCEPT ![c].thread = "ending"]
    /\ UNCHANGED <<job, drive, heard>>

MarksEof(c) ==
    /\ os[c].thread = "ending"
    /\ os' = [os EXCEPT ![c].thread = "signalling", ![c].eof = TRUE]
    /\ UNCHANGED <<job, drive, heard>>

Signals(c) ==
    /\ os[c].thread = "signalling"
    /\ os' = [os EXCEPT ![c].thread = "done", ![c].event = TRUE]
    /\ UNCHANGED <<job, drive, heard>>

Reader(c) ==
    ReadGets(c) \/ ReadsOwner(c) \/ Feeds(c) \/ ReadEnds(c) \/ MarksEof(c) \/ Signals(c)

---------------------------------------------------------------------------
(* The loop.                                                                *)

(* nm_proc_start and run_command_begin; the child may not get into the job  *)
(* object that would kill what it starts.                                   *)
WinBegin(c) ==
    /\ drive.at = "idle" /\ os[c].state = "none"
    /\ \A d \in Runs : d < c => os[d].state # "none"
    /\ \E grouped \in BOOLEAN :
          os' = [os EXCEPT ![c] = [NoOs EXCEPT !.state = "job", !.owner = TRUE,
                                     !.thread = "reading", !.child = "runs",
                                     !.grouped = grouped]]
    /\ job' = [job EXCEPT ![c].there = TRUE, ![c].handle = TRUE]
    /\ drive' = [at |-> "waits", of |-> c, left |-> WinBudget, last |-> 0, again |-> FALSE]
    /\ heard' = [note |-> "none"]

(* nm_proc_os_handle, nm_proc_os_reap.                                      *)
Handle(o) == ~(o.eof \/ o.exited)

Gone(o) == o.child = "dead" /\ o.code # "259"

(* What wakes the step: the event, which the wait takes back; the deadline; *)
(* or the loop that goes round again while the call has no handle.          *)
WinDue == drive.at = "waits" /\
    LET c == drive.of
    IN \/ os[c].event /\ job[c].handle
       \/ WinBudget > 0 /\ drive.left = 0
       \/ drive.again

(* nm_proc_drain: the handle is retired, the child reaped.                  *)
WinDrains ==
    /\ WinDue
    /\ LET c == drive.of   o == os[c]   gone == Gone(o)
       IN /\ job' = [job EXCEPT ![c].handle = @ /\ Handle(o) /\ ~gone, ![c].reaped = gone]
          /\ os' = [os EXCEPT ![c].event = FALSE, ![c].exited = gone]
          /\ drive' = [at |-> "drained", of |-> c, left |-> drive.left, last |-> drive.last,
                       eof |-> o.eof]
    /\ UNCHANGED heard

(* run_command_step goes on: it counts the bytes, asks again whether the    *)
(* child lives, and returns, or ends.                                       *)
WinJudges ==
    /\ drive.at = "drained"
    /\ LET c == drive.of
           live == ~job[c].reaped /\ ~Gone(os[c])
           more == job[c].total # drive.last
           rest(left) == [at |-> "waits", of |-> c, left |-> left, last |-> job[c].total,
                          again |-> ~job[c].handle]
       IN /\ job' = [job EXCEPT ![c].reaped = ~live, ![c].handle = @ /\ live]
          /\ os' = [os EXCEPT ![c].exited = ~live]
          /\ drive' = IF live /\ more THEN rest(WinBudget)
                      ELSE IF live /\ (WinBudget = 0 \/ drive.left > 0) THEN rest(drive.left)
                      ELSE [at |-> "ends", of |-> c, eof |-> drive.eof,
                            note |-> IF live THEN "silent" ELSE "exit"]
    /\ UNCHANGED heard

(* nm_proc_take_output, and the result.                                     *)
WinTakes ==
    /\ drive.at = "ends"
    /\ heard' = [note |-> drive.note, len |-> job[drive.of].total, whole |-> drive.eof,
                 code |-> os[drive.of].code, printed |-> os[drive.of].printed]
    /\ drive' = [at |-> "sweeps", of |-> drive.of]
    /\ UNCHANGED <<os, job>>

(* run_command_end: the turn was cancelled while the call waited.           *)
WinCancel ==
    /\ drive.at = "waits"
    /\ drive' = [at |-> "sweeps", of |-> drive.of]
    /\ UNCHANGED <<os, job, heard>>

---------------------------------------------------------------------------
(* nm_proc_close: first the orphans, then the job.                          *)

(* nm_proc_os_free stops the reader: a read that waits is aborted.          *)
Cancelled(o) == [o EXCEPT !.thread = IF @ = "reading" THEN "ending" ELSE @]

(* Mutant: the state is freed without waiting for its reader.               *)
JoinsAtOnce(o) == [NoOs EXCEPT !.state = "freed", !.thread = o.thread]

(* The reader is waited for, and what it holds is freed; a reader that got  *)
(* back into a read that does not end keeps the state, without its job.     *)
Joins(o) == IF o.thread = "done" THEN [NoOs EXCEPT !.state = "freed", !.thread = "done"]
            ELSE [o EXCEPT !.state = "leaked", !.owner = FALSE]
Stuck(o) == o.thread = "reading" /\ o.pipe = 0 /\ Held(o)

(* orphan_sweep: an orphan that has ended is freed.                         *)
WinSweeps ==
    /\ drive.at = "sweeps"
    /\ LET over == {c \in Runs : os[c].state = "orphan" /\ Gone(os[c])}
       IN IF over = {} THEN drive' = [drive EXCEPT !.at = IF drive.of = 0 THEN "quit" ELSE "kills"]
                            /\ UNCHANGED os
          ELSE \E c \in over :
                 /\ os' = [os EXCEPT ![c] = Cancelled([@ EXCEPT !.state = "freeing"])]
                 /\ drive' = [at |-> "joins", of |-> drive.of, free |-> c, then |-> "sweeps"]
    /\ UNCHANGED <<job, heard>>

(* nm_proc_close_all at the end of the program: the orphans once more.      *)
WinQuits ==
    /\ drive.at = "idle"
    /\ drive' = [at |-> "sweeps", of |-> 0]
    /\ UNCHANGED <<os, job, heard>>

(* A reaped child's state is freed; another is killed, with what it started *)
(* where the job object holds it, and reaped if it is seen to have ended,   *)
(* which it may be by then (`dies`).                                        *)
WinKills(dies) ==
    /\ drive.at = "kills"
    /\ LET c == drive.of   o == os[c]
           killed == [o EXCEPT !.child = IF dies THEN "dead" ELSE IF @ = "runs" THEN "ending" ELSE @,
                               !.code = IF o.child = "runs" THEN "killed" ELSE @,
                               !.grand = @ /\ ~o.grouped]
           shot == IF job[c].reaped THEN o ELSE killed
       IN IF job[c].reaped \/ Gone(shot)
          THEN /\ os' = [os EXCEPT ![c] = Cancelled([shot EXCEPT !.state = "freeing"])]
               /\ drive' = [at |-> "joins", of |-> c, free |-> c, then |-> "frees"]
          ELSE /\ os' = [os EXCEPT ![c] = [shot EXCEPT !.state = "orphan"]]
               /\ drive' = [at |-> "frees", of |-> c]
    /\ UNCHANGED <<job, heard>>

WinJoins ==
    /\ drive.at = "joins"
    /\ os[drive.free].thread = "done" \/ Stuck(os[drive.free])
    /\ os' = [os EXCEPT ![drive.free] = Joins(@)]
    /\ drive' = [at |-> drive.then, of |-> drive.of]
    /\ UNCHANGED <<job, heard>>

(* proc_free.                                                               *)
WinFrees ==
    /\ drive.at = "frees"
    /\ job' = [job EXCEPT ![drive.of].there = FALSE, ![drive.of].handle = FALSE]
    /\ drive' = Undriven
    /\ UNCHANGED <<os, heard>>

(* run_command_deadline_ms counts down until it is read.                    *)
WinTick ==
    /\ drive.at \in {"waits", "drained"} /\ WinBudget > 0 /\ drive.left > 0
    /\ drive' = [drive EXCEPT !.left = @ - 1]
    /\ UNCHANGED <<os, job, heard>>

WinStep == WinDrains \/ WinJudges \/ WinTakes \/ WinSweeps \/ WinJoins \/ WinFrees
             \/ \E dies \in BOOLEAN : WinKills(dies)

WinNext ==
    \/ \E c \in Runs : Reader(c) \/ WinBegin(c) \/ ChildPrints(c) \/ ChildForks(c)
                       \/ GrandEnds(c) \/ ChildEnds(c) \/ ChildGone(c)
    \/ WinStep \/ WinCancel \/ WinQuits \/ WinTick

WinSpec == WinInit /\ [][WinNext]_windows

---------------------------------------------------------------------------
(* Properties *)

(* On Windows: an exit told is the child's own, never the number that means *)
(* it is still active, and comes with every byte if the end of the output   *)
(* was seen; no reader is left with a freed state, and one feeds a freed    *)
(* job only where the close left its child to the orphans (proc_w32.c).     *)
ReaderIsCustody ==
    /\ heard.note = "exit" => heard.code = "own"
    /\ heard.note = "exit" /\ heard.whole => heard.len = heard.printed
    /\ \A c \in Runs :
          /\ os[c].state = "freed" => os[c].thread = "done"
          /\ os[c].thread = "feeding" /\ ~job[c].there =>
                os[c].state \in {"orphan", "freeing"} /\ os[c].child # "runs"

(* What a command is told to have done on either platform, it did.          *)
OwnStatusTold == ExitIsTold /\ ReaderIsCustody

---------------------------------------------------------------------------
(* The inductive invariant *)

OsStates ==
    [state : {"none", "job", "orphan", "freeing", "freed", "leaked"}, owner : BOOLEAN,
     thread : {"none", "reading", "got", "feeding", "ending", "signalling", "done"},
     got : Nat, eof : BOOLEAN, event : BOOLEAN, exited : BOOLEAN, pipe : Nat, printed : Nat,
     child : {"none", "runs", "ending", "dead"}, code : {"none", "own", "259", "killed"},
     grand : BOOLEAN, grouped : BOOLEAN]
JobStates == [there : BOOLEAN, reaped : BOOLEAN, handle : BOOLEAN, total : Nat]
Drives ==
    [at : {"idle", "sweeps", "kills", "frees", "quit"}, of : {0} \cup Runs]
    \cup [at : {"waits"}, of : Runs, left : Nat, last : Nat, again : BOOLEAN]
    \cup [at : {"drained"}, of : Runs, left : Nat, last : Nat, eof : BOOLEAN]
    \cup [at : {"ends"}, of : Runs, eof : BOOLEAN, note : {"silent", "exit"}]
    \cup [at : {"joins"}, of : {0} \cup Runs, free : Runs, then : {"sweeps", "frees"}]

Past == {"ending", "signalling", "done"}

(* Every byte is in the pipe, in the reader's hands or in the job; a reader *)
(* past the end has nobody left to read from.                               *)
Fed(o, j) ==
    /\ j.total + o.got + o.pipe = o.printed
    /\ o.thread \notin {"got", "feeding"} => o.got = 0
    /\ o.thread \in Past => o.pipe = 0 /\ ~Held(o)
    /\ o.eof => o.thread \in Past

(* A command and its reader.                                                *)
Accounted(o, j) ==
    /\ o.state = "none" => /\ o.thread = "none" /\ o.child = "none" /\ ~o.grand
                           /\ j = NoJob
    /\ o.state = "job" => /\ j.there /\ o.owner /\ Fed(o, j)
                          /\ o.child # "runs" => o.code \in {"own", "259"}
    /\ o.state \in {"orphan", "freeing"} => o.child # "runs"
    /\ o.state = "leaked" => ~o.owner
    /\ o.state = "freed" => o.thread = "done"
    /\ o.thread = "feeding" => o.state \in {"job", "orphan", "freeing"}

(* The command of the step: held by it, and seen to have ended if reaped.   *)
Driven(c) == /\ c \in Runs /\ os[c].state = "job"
             /\ job[c].reaped => Gone(os[c])

(* What is known at each place of the step and of the close.                *)
DriveKept ==
    /\ drive.at \in {"waits", "drained", "ends", "kills"} => Driven(drive.of)
    /\ drive.at = "drained" /\ drive.eof => os[drive.of].eof
    /\ drive.at = "ends" => /\ drive.eof => os[drive.of].eof
                            /\ drive.note = "exit" => Gone(os[drive.of])
    /\ drive.at = "sweeps" => drive.of = 0 \/ Driven(drive.of)
    /\ drive.at = "joins" =>
          /\ os[drive.free].state = "freeing"
          /\ \/ drive.then = "sweeps" /\ (drive.of = 0 \/ Driven(drive.of))
             \/ drive.then = "frees" /\ drive.of = drive.free
    /\ drive.at = "frees" =>
          drive.of \in Runs /\ os[drive.of].state \in {"orphan", "freed", "leaked"}

WinInv ==
    /\ os \in [Runs -> OsStates] /\ job \in [Runs -> JobStates] /\ drive \in Drives
    /\ \A c \in Runs : Accounted(os[c], job[c])
    /\ DriveKept
    /\ heard.note = "exit" => heard.code = "own"
    /\ heard.note = "exit" /\ heard.whole => heard.len = heard.printed
=============================================================================
