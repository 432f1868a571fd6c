----------------------------- MODULE RunCommand -----------------------------
(***************************************************************************)
(* The one-shot command tool (tools_spawn_posix.c): a shell with its       *)
(* output on a pipe, read until the pipe ends, then reaped.  The child,    *)
(* and what it may leave running behind it, act between any two steps.     *)
(* Bytes are counted.  Time is in ticks, deadlines are what is left.       *)
(***************************************************************************)
EXTENDS Integers, FiniteSets

CONSTANTS
    CaptureMax,     \* SPAWN_CAPTURE_MAX
    SilenceMs,      \* the inactivity budget, 0 when off
    GraceMs,        \* EXIT_GRACE_MS
    MaxPrints,      \* bound: bytes a command prints
    MaxCommands     \* bound: commands

ASSUME RunCommandAssumption ==
    /\ CaptureMax \in Nat \ {0} /\ SilenceMs \in Nat
    /\ GraceMs \in Nat \ {0}
    /\ MaxPrints \in Nat /\ MaxCommands \in Nat

VARIABLES
    exec,       \* NmToolExec: eof, bytes read, what is left of the deadlines
    child,      \* the shell: "none", "runs", "zombie", "reaped"
    status,     \* how it ended: "none", "own" or "killed"
    holders,    \* the processes that have the pipe's end open: shell, rest
    pipe,       \* bytes printed and not read
    printed,    \* bytes printed while somebody read
    answer,     \* what the model was told of the last command
    commands    \* commands so far
oneshot == <<exec, child, status, holders, pipe, printed, answer, commands>>
process == <<child, status, holders, pipe, printed>>

NoExec == [at |-> "none"]
NoAnswer == [note |-> "none"]
Running == exec.at = "running"

CommandInit ==
    /\ exec = NoExec /\ child = "none" /\ status = "none"
    /\ holders = {} /\ pipe = 0 /\ printed = 0
    /\ answer = NoAnswer /\ commands = 0

(* spawn_begin and run_command_begin.                                       *)
CommandBegin ==
    /\ ~Running /\ child \in {"none", "reaped"} /\ commands < MaxCommands
    /\ exec' = [at |-> "running", eof |-> FALSE, len |-> 0,
                left |-> SilenceMs, grace |-> -1]
    /\ child' = "runs" /\ status' = "none"
    /\ holders' = {"shell"} /\ pipe' = 0 /\ printed' = 0
    /\ answer' = NoAnswer /\ commands' = commands + 1

-----------------------------------------------------------------------------
(* The processes.  A write into a pipe nobody reads ends the writer.        *)

Read == Running /\ ~exec.eof

Prints ==
    /\ holders # {} /\ Read /\ printed < MaxPrints
    /\ printed' = printed + 1 /\ pipe' = pipe + 1
    /\ UNCHANGED <<exec, child, status, holders, answer, commands>>

BrokenPipe ==
    /\ child = "runs" /\ "shell" \in holders /\ ~Read
    /\ child' = "zombie" /\ status' = "own" /\ holders' = holders \ {"shell"}
    /\ UNCHANGED <<exec, pipe, printed, answer, commands>>

(* The shell starts something that shares the pipe.                         *)
Forks ==
    /\ child = "runs" /\ "shell" \in holders
    /\ holders' = holders \cup {"rest"}
    /\ UNCHANGED <<exec, child, status, pipe, printed, answer, commands>>

(* One of them closes its output, and goes on.                              *)
Closes(h) ==
    /\ h \in holders /\ (h = "shell" => child = "runs")
    /\ holders' = holders \ {h}
    /\ UNCHANGED <<exec, child, status, pipe, printed, answer, commands>>

(* The shell ends by itself.                                                *)
Exits ==
    /\ child = "runs"
    /\ child' = "zombie" /\ status' = "own" /\ holders' = holders \ {"shell"}
    /\ UNCHANGED <<exec, pipe, printed, answer, commands>>

-----------------------------------------------------------------------------
(* The step.                                                                *)

(* kill_child and reap_child: the group is killed and the shell waited for; *)
(* a shell that had ended keeps its status.  What left the group stays.     *)
KilledAndReaped ==
    /\ child' = "reaped"
    /\ status' = IF child = "runs" THEN "killed" ELSE status
    /\ holders' \in {{}, holders \ {"shell"}}

Told(note, len) ==
    /\ answer' = [note |-> note, len |-> len]
    /\ exec' = NoExec

(* The pipe has ended, or was closed at the cap: the shell's own exit is a  *)
(* second fact, which is waited for as long as the grace allows.            *)
(* Mutant: whoever still runs when the pipe ends is killed.                 *)
SettleAtOnce(e) ==
    CASE child = "zombie" ->
           /\ child' = "reaped" /\ UNCHANGED <<status, holders>>
           /\ Told("exit", e.len)
      [] child = "runs" -> KilledAndReaped /\ Told("exit", e.len)

Settle(e) ==
    CASE child = "zombie" ->
           /\ child' = "reaped" /\ UNCHANGED <<status, holders>>
           /\ Told("exit", e.len)
      [] child = "runs" /\ e.grace = -1 ->
           /\ exec' = [e EXCEPT !.grace = GraceMs]
           /\ UNCHANGED <<child, status, holders, answer>>
      [] child = "runs" /\ e.grace > 0 ->
           /\ exec' = e
           /\ UNCHANGED <<child, status, holders, answer>>
      [] child = "runs" /\ e.grace = 0 ->
           KilledAndReaped /\ Told("closed", e.len)

(* The reading: everything that is there, in pieces of any size, until the  *)
(* cap is reached or passed.  Each byte pushes the deadline out.            *)
Reads(got) ==
    LET len == exec.len + got
    IN [exec EXCEPT !.len = len,
            !.left = IF got > 0 THEN SilenceMs ELSE @,
            !.eof = @ \/ len >= CaptureMax \/ (got = pipe /\ holders = {})]
Drained ==
    IF exec.eof THEN {exec}
    ELSE IF exec.len + pipe < CaptureMax THEN {Reads(pipe)}
    ELSE {Reads(got) : got \in CaptureMax - exec.len .. pipe}

(* run_command_step.                                                        *)
CommandStep ==
    /\ Running
    /\ \E e \in Drained :
         /\ pipe' = IF e.eof THEN 0 ELSE pipe - (e.len - exec.len)
         /\ IF e.eof THEN Settle(e)
            ELSE IF SilenceMs > 0 /\ e.left = 0
            THEN KilledAndReaped /\ Told("silent", e.len)
            ELSE /\ exec' = e
                 /\ UNCHANGED <<child, status, holders, answer>>
    /\ UNCHANGED <<printed, commands>>

(* run_command_end in the middle: the turn was cancelled.                   *)
CommandCancel ==
    /\ Running
    /\ exec' = NoExec /\ KilledAndReaped /\ pipe' = 0
    /\ UNCHANGED <<printed, answer, commands>>

-----------------------------------------------------------------------------
(* What the loop waits for: the pipe while it is open, and the deadline     *)
(* that counts in this phase.                                               *)

(* Mutant: a closed pipe has no deadline.                                   *)
CommandDeadlineOfPipe ==
    IF exec.eof THEN -1 ELSE IF SilenceMs > 0 THEN exec.left ELSE -1

(* run_command_deadline_ms.                                                 *)
CommandDeadline ==
    IF exec.grace >= 0 THEN exec.grace
    ELSE IF exec.eof \/ SilenceMs = 0 THEN -1 ELSE exec.left

(* run_command_source.                                                      *)
CommandReadable == ~exec.eof /\ (pipe > 0 \/ holders = {})

CommandDue == Running /\ (CommandReadable \/ CommandDeadline = 0)

CommandTick ==
    /\ Running /\ CommandDeadline # 0
    /\ exec' = [exec EXCEPT !.left = IF @ > 0 THEN @ - 1 ELSE @,
                            !.grace = IF @ > 0 THEN @ - 1 ELSE @]
    /\ UNCHANGED <<process, answer, commands>>

CommandNext ==
    \/ CommandBegin \/ CommandStep \/ CommandCancel \/ CommandTick
    \/ Prints \/ BrokenPipe \/ Forks \/ Exits
    \/ \E h \in {"shell", "rest"} : Closes(h)

CommandSpec == CommandInit /\ [][CommandNext]_oneshot

-----------------------------------------------------------------------------
(* Property *)

(* The exit the model reads for a command is its own: the pipe's end and    *)
(* the child's exit may come in either order, and a child that has only     *)
(* closed its output is not killed for it within the grace; what is told    *)
(* is every byte printed, at least up to the cap (tools_spawn_posix.c).     *)
ExitIsTold ==
    answer.note = "exit" =>
        /\ status = "own"
        /\ answer.len = printed \/ answer.len \in CaptureMax .. printed

-----------------------------------------------------------------------------
(* The inductive invariant *)

(* What len says about the bytes printed: all of them, or up to the cap.    *)
AllPrinted(len) == len = printed \/ len \in CaptureMax .. printed

Execs == [at : {"running"}, eof : BOOLEAN, len : Nat, left : Nat, grace : {-1} \cup Nat]

CommandInv ==
    /\ pipe \in Nat /\ printed \in Nat /\ exec \in {NoExec} \cup Execs
    /\ child = "zombie" => status = "own"
    /\ Running => /\ child \in {"runs", "zombie"} /\ answer = NoAnswer
                  /\ exec.eof => AllPrinted(exec.len)
                  /\ ~exec.eof => exec.len + pipe = printed /\ exec.len < CaptureMax
    /\ ~Running => child \in {"none", "reaped"}
    /\ ExitIsTold
=============================================================================
