-------------------------------- MODULE Jobs --------------------------------
(***************************************************************************)
(* Process jobs: the registry and bounded output buffers of src/src/proc.c *)
(* over the POSIX half src/src/proc_posix.c, the tools that drive them     *)
(* (src/src/tools_exec.c), and the part of the chat event loop that        *)
(* subscribes, drains and steps them (src/src/chat_app.c).                 *)
(*                                                                         *)
(* A child and the program interleave freely: in particular between the    *)
(* read of the terminal and the waitpid of one drain, which are two steps  *)
(* here.  Bytes are counted, not named; rendering is left out.  A child    *)
(* holds its terminal until it closes it or exits; descendants that        *)
(* outlive it are left out.                                                *)
(***************************************************************************)
EXTENDS Integers, FiniteSets

CONSTANTS
    MaxIds,     \* bound: jobs started in a behaviour
    MaxJobs,    \* g_max_jobs: slots of the registry
    OrphanCap,  \* NM_PROC_MAX_JOBS as the size of g_orphans
    BufMax,     \* g_buf_max: bytes one job's buffer holds
    TtyCap,     \* bytes the terminal queues for the program
    InCap,      \* bytes the terminal queues for the child
    MaxOut,     \* bound: bytes one child prints
    Bodies,     \* lengths of the input the model may write
    LeaderWaits \* the OS ends a session leader only once its terminal is read

ASSUME ConstantsAssumption ==
    /\ MaxIds \in Nat /\ MaxJobs \in Nat \ {0} /\ OrphanCap \in Nat
    /\ BufMax \in Nat \ {0} /\ TtyCap \in Nat \ {0} /\ InCap \in Nat \ {0}
    /\ MaxOut \in Nat /\ Bodies \subseteq Nat /\ LeaderWaits \in BOOLEAN

Ids == 1 .. MaxIds

VARIABLES
    nextId,     \* g_next_id
    reg,        \* g_jobs
    orphans,    \* g_orphans: killed, not yet reaped
    given,      \* killed children the full orphan list could not take
    child,      \* the process: "none", "run", "exiting", "zombie", "reaped"
    pty,        \* the terminal: master and slave ends open, bytes each way
    buf,        \* len, dropped, total_out; and what the reports accounted for
    call,       \* the exec_command or write_stdin in flight, or NoCall
    due,        \* its yield window has closed
    loop,       \* "idle" (the event loop waits), "inner" (nm_chat_app_step
                \* goes round again), "stepping" and "draining" (between the
                \* read and the reap), "quitting", "quit"
    drainee,    \* the job a background drain is at
    \* for the properties
    made,       \* bytes the child printed
    missed,     \* printed bytes thrown away with the terminal
    ended       \* how the job left the registry: "no", "exit" (told to the
                \* model), "killed" (by the model), "user", "quit"

procs == <<nextId, reg, orphans, given>>
vars  == <<procs, child, pty, buf, call, due, loop, drainee, made, missed,
           ended>>

NoCall  == [job |-> 0]
NoTty   == [open |-> FALSE, slave |-> FALSE, out |-> 0, in |-> 0]
NoBytes == [len |-> 0, dropped |-> 0, total |-> 0, told |-> 0]
Alive   == {"run", "exiting"}

-----------------------------------------------------------------------------
(* The output buffer.                                                       *)

(* Mutant: the cut prefix of a huge chunk is not counted.                   *)
AppendForgets(b, n) ==
    LET kept  == IF n > BufMax THEN BufMax ELSE n
        evict == IF b.len + kept > BufMax THEN b.len + kept - BufMax ELSE 0
    IN [b EXCEPT !.len = @ - evict + kept, !.dropped = @ + evict,
                 !.total = @ + n]

(* buf_append: a chunk larger than the buffer keeps its tail, then the      *)
(* oldest bytes make room; both are counted as omitted.                     *)
BufAppend(b, n) ==
    LET lose  == IF n > BufMax THEN n - BufMax ELSE 0
        kept  == n - lose
        evict == IF b.len + kept > BufMax THEN b.len + kept - BufMax ELSE 0
    IN [b EXCEPT !.len = @ - evict + kept, !.dropped = @ + lose + evict,
                 !.total = @ + n]

(* Mutant: the omission notice is left for the next report.                 *)
TakeText(b) == [b EXCEPT !.len = 0, !.told = @ + b.len]

(* nm_proc_take_output: the notice for what was omitted, then the text.     *)
Take(b) == [b EXCEPT !.len = 0, !.dropped = 0, !.told = @ + b.dropped + b.len]

-----------------------------------------------------------------------------
(* The terminal.                                                            *)

(* nm_proc_os_gather: read all there is; end of file closes the master.     *)
Gathered(t) == IF t.open THEN [t EXCEPT !.out = 0, !.open = t.slave] ELSE t

(* A reaped child's master is closed, whatever it still holds.              *)
Shut(t) == [t EXCEPT !.out = 0, !.open = FALSE]

Readable(t) == t.open /\ (t.out > 0 \/ ~t.slave)

-----------------------------------------------------------------------------
(* The children.                                                            *)

ChildWrites(j) ==
    /\ child[j] = "run" /\ pty[j].open /\ pty[j].slave
    /\ pty[j].out < TtyCap /\ made[j] < MaxOut
    /\ pty'  = [pty EXCEPT ![j].out = @ + 1]
    /\ made' = [made EXCEPT ![j] = @ + 1]
    /\ UNCHANGED <<procs, child, buf, call, due, loop, drainee, missed, ended>>

ChildReads(j) ==
    /\ child[j] = "run" /\ pty[j].slave /\ pty[j].in > 0
    /\ pty' = [pty EXCEPT ![j].in = @ - 1]
    /\ UNCHANGED <<procs, child, buf, call, due, loop, drainee, made, missed,
                   ended>>

(* A child that goes on without its terminal (a daemon).                    *)
ChildLetsGo(j) ==
    /\ child[j] = "run" /\ pty[j].slave
    /\ pty' = [pty EXCEPT ![j].slave = FALSE]
    /\ UNCHANGED <<procs, child, buf, call, due, loop, drainee, made, missed,
                   ended>>

ChildExits(j) ==
    /\ child[j] = "run"
    /\ child' = [child EXCEPT ![j] = "exiting"]
    /\ UNCHANGED <<procs, pty, buf, call, due, loop, drainee, made, missed,
                   ended>>

ExitCompletes(j) ==
    /\ child[j] = "exiting"
    /\ LeaderWaits => pty[j].out = 0 \/ ~pty[j].open
    /\ child' = [child EXCEPT ![j] = "zombie"]
    /\ pty'   = [pty EXCEPT ![j].slave = FALSE]
    /\ UNCHANGED <<procs, buf, call, due, loop, drainee, made, missed, ended>>

-----------------------------------------------------------------------------
(* Reaping and closing.                                                     *)

(* try_reap, for the jobs of a set.                                         *)
Reap(js) ==
    LET dead == {j \in js : child[j] = "zombie"} IN
    /\ child'  = [j \in Ids |-> IF j \in dead THEN "reaped" ELSE child[j]]
    /\ pty'    = [j \in Ids |-> IF j \in dead THEN Shut(pty[j]) ELSE pty[j]]
    /\ missed' = [j \in Ids |-> IF j \in dead THEN missed[j] + pty[j].out
                                ELSE missed[j]]

(* Mutant: a killed child that is still exiting is forgotten.               *)
CloseForgets(j, dies, why) ==
    LET swept == {o \in orphans : child[o] = "zombie"}
        gone  == child[j] \in {"zombie", "reaped"} \/ dies
    IN /\ reg' = reg \ {j}
       /\ orphans' = orphans \ swept
       /\ child' = [i \in Ids |-> IF i \in swept \/ (i = j /\ gone) THEN "reaped"
                                  ELSE IF i = j THEN "exiting" ELSE child[i]]
       /\ pty' = [i \in Ids |->
                    IF i \in swept \cup {j} THEN Shut(pty[i])
                    ELSE IF i \in orphans THEN Gathered(pty[i]) ELSE pty[i]]
       /\ missed' = [missed EXCEPT ![j] = @ + pty[j].out]
       /\ ended' = [ended EXCEPT ![j] = why]
       /\ UNCHANGED <<nextId, given>>

(* Mutant: giving a child up leaves its master open.                        *)
CloseLeaks(j, dies, why) ==
    LET swept == {o \in orphans : child[o] = "zombie"}
        left  == orphans \ swept
        gone  == child[j] \in {"zombie", "reaped"} \/ dies
        kept  == ~gone /\ Cardinality(left) < OrphanCap
    IN /\ reg' = reg \ {j}
       /\ orphans' = IF kept THEN left \cup {j} ELSE left
       /\ given' = IF gone \/ kept THEN given ELSE given \cup {j}
       /\ child' = [i \in Ids |-> IF i \in swept \/ (i = j /\ gone) THEN "reaped"
                                  ELSE IF i = j THEN "exiting" ELSE child[i]]
       /\ pty' = [i \in Ids |->
                    IF i \in swept \/ (i = j /\ gone) THEN Shut(pty[i])
                    ELSE IF i \in orphans \cup {j} THEN Gathered(pty[i])
                    ELSE pty[i]]
       /\ missed' = [missed EXCEPT ![j] = @ + pty[j].out]
       /\ ended' = [ended EXCEPT ![j] = why]
       /\ UNCHANGED nextId

(* nm_proc_close: unregister, sweep the orphans, kill, read and discard,    *)
(* reap if the child is gone by then (`dies`), else hand it to the orphans, *)
(* and give it up when their list is full.                                  *)
ProcClose(j, dies, why) ==
    LET swept == {o \in orphans : child[o] = "zombie"}
        left  == orphans \ swept
        gone  == child[j] \in {"zombie", "reaped"} \/ dies
        kept  == ~gone /\ Cardinality(left) < OrphanCap
    IN /\ reg' = reg \ {j}
       /\ orphans' = IF kept THEN left \cup {j} ELSE left
       /\ given' = IF gone \/ kept THEN given ELSE given \cup {j}
       /\ child' = [i \in Ids |-> IF i \in swept \/ (i = j /\ gone) THEN "reaped"
                                  ELSE IF i = j THEN "exiting" ELSE child[i]]
       /\ pty' = [i \in Ids |->
                    IF i \in swept \/ (i = j /\ ~kept) THEN Shut(pty[i])
                    ELSE IF i \in orphans \cup {j} THEN Gathered(pty[i])
                    ELSE pty[i]]
       /\ missed' = [missed EXCEPT ![j] = @ + pty[j].out]
       /\ ended' = [ended EXCEPT ![j] = why]
       /\ UNCHANGED nextId

-----------------------------------------------------------------------------
(* The tools, between calls.                                                *)

(* Does the app's step loop return to the event loop, or go round again?    *)
AfterStep(t) == IF t.open THEN "idle" ELSE "inner"

(* The cap of nm_proc_start.                                                *)
Room == Cardinality(reg) < MaxJobs

(* exec_command_begin and nm_proc_start; past the cap the call is refused   *)
(* and nothing is spawned.                                                  *)
ExecCommand ==
    /\ loop = "idle" /\ call = NoCall
    /\ nextId \in Ids /\ Room
    /\ reg'    = reg \cup {nextId}
    /\ nextId' = nextId + 1
    /\ child'  = [child EXCEPT ![nextId] = "run"]
    /\ pty'    = [pty EXCEPT ![nextId].open = TRUE, ![nextId].slave = TRUE]
    /\ call'   = [job |-> nextId, left |-> 0, close |-> FALSE, eof |-> FALSE]
    /\ due'    = FALSE
    /\ UNCHANGED <<orphans, given, buf, loop, drainee, made, missed, ended>>

(* write_stdin_begin; an unknown job is refused.                            *)
WriteStdin(j, n, close) ==
    /\ loop = "idle" /\ call = NoCall /\ j \in reg
    /\ call' = [job |-> j, left |-> n, close |-> close, eof |-> FALSE]
    /\ due'  = FALSE
    /\ loop' = AfterStep(pty[j])
    /\ UNCHANGED <<procs, child, pty, buf, drainee, made, missed, ended>>

(* kill_job: the report is taken first, then the job is closed.             *)
KillJob(j, dies) ==
    /\ loop = "idle" /\ call = NoCall /\ j \in reg
    /\ buf' = [buf EXCEPT ![j] = Take(@)]
    /\ ProcClose(j, dies, "killed")
    /\ UNCHANGED <<call, due, loop, drainee, made>>

-----------------------------------------------------------------------------
(* One step of the call in flight: pump the input, end it, read, reap.      *)

(* Mutant: the input is ended while a remainder waits.                      *)
EndsInputEarly(c, left, broke) == c.close /\ ~broke

EndsInput(c, left, broke) == c.close /\ ~broke /\ left = 0

(* Mutant: a silent child's call is never stepped.                          *)
WokenByReadiness(c) == /\ c.job \in reg
                       /\ Readable(pty[c.job])

(* The event loop steps the call when its source is ready or it is due.     *)
Woken(c) == \/ due
            \/ /\ c.job \in reg
               /\ \/ Readable(pty[c.job])
                  \/ /\ c.left > 0 /\ pty[c.job].open
                     /\ pty[c.job].in < InCap \/ ~pty[c.job].slave

Stepped == /\ call # NoCall
           /\ loop = "inner" \/ (loop = "idle" /\ Woken(call))

(* The job was killed by the user while the call waited.                    *)
StepGone ==
    /\ Stepped /\ call.job \notin reg
    /\ call' = NoCall /\ loop' = "idle"
    /\ UNCHANGED <<procs, child, pty, buf, due, drainee, made, missed, ended>>

(* A write fails when the master is gone, and may when the slave is.        *)
StepPump ==
    /\ Stepped /\ call.job \in reg
    /\ LET j == call.job
           t == pty[j]
       IN \E broke \in IF call.left = 0 THEN {FALSE}
                       ELSE IF ~t.open THEN {TRUE}
                       ELSE IF t.slave THEN {FALSE} ELSE BOOLEAN :
            LET room == InCap - t.in
                sent == IF broke THEN 0
                        ELSE IF call.left < room THEN call.left ELSE room
                left == IF broke THEN 0 ELSE call.left - sent
            IN /\ call' = [call EXCEPT !.left = left,
                             !.eof = @ \/ EndsInput(call, left, broke)]
               /\ pty' = [pty EXCEPT ![j] = Gathered([t EXCEPT !.in = @ + sent])]
               /\ buf' = [buf EXCEPT ![j] = BufAppend(@, t.out)]
    /\ loop' = "stepping"
    /\ UNCHANGED <<procs, child, due, drainee, made, missed, ended>>

(* The child is gone: its exit is told and the job retired.                 *)
StepExited ==
    /\ loop = "stepping" /\ child[call.job] \in {"zombie", "reaped"}
    /\ buf' = [buf EXCEPT ![call.job] = Take(@)]
    /\ ProcClose(call.job, FALSE, "exit")
    /\ call' = NoCall /\ loop' = "idle"
    /\ UNCHANGED <<due, drainee, made>>

(* The window has closed on a running child: the model gets the job id.     *)
StepYields ==
    /\ loop = "stepping" /\ child[call.job] \in Alive /\ due
    /\ buf' = [buf EXCEPT ![call.job] = Take(@)]
    /\ call' = NoCall /\ loop' = "idle"
    /\ UNCHANGED <<procs, child, pty, due, drainee, made, missed, ended>>

StepWaits ==
    /\ loop = "stepping" /\ child[call.job] \in Alive /\ ~due
    /\ loop' = AfterStep(pty[call.job])
    /\ UNCHANGED <<procs, child, pty, buf, call, due, drainee, made, missed,
                   ended>>

(* exec_deadline_ms reaches 0.                                              *)
WindowCloses ==
    /\ call # NoCall /\ ~due
    /\ due' = TRUE
    /\ UNCHANGED <<procs, child, pty, buf, call, loop, drainee, made, missed,
                   ended>>

-----------------------------------------------------------------------------
(* The event loop and the user.                                             *)

(* Mutant: one job is left out of the wait set.                             *)
SubscribedButFirst(j) == j \in reg \ {1} /\ pty[j].open /\ j # call.job

(* nm_proc_interest, without the source of the call in flight.              *)
Subscribed(j) == j \in reg /\ pty[j].open /\ j # call.job

Drain(j) ==
    /\ loop = "idle" /\ Subscribed(j) /\ Readable(pty[j])
    /\ pty' = [pty EXCEPT ![j] = Gathered(@)]
    /\ buf' = [buf EXCEPT ![j] = BufAppend(@, pty[j].out)]
    /\ loop' = "draining" /\ drainee' = j
    /\ UNCHANGED <<procs, child, call, due, made, missed, ended>>

DrainReaps ==
    /\ loop = "draining"
    /\ Reap({drainee})
    /\ loop' = "idle"
    /\ UNCHANGED <<procs, buf, call, due, drainee, made, ended>>

(* nm_proc_live and nm_proc_exit of every job: /ps, and reminder_facts after *)
(* a tool result and before a round.                                        *)
AskLive ==
    /\ loop = "idle" /\ \E j \in reg : child[j] = "zombie"
    /\ Reap(reg)
    /\ UNCHANGED <<procs, buf, call, due, loop, drainee, made, ended>>

(* nm_agent_cancel and exec_end: the job outlives the call.                 *)
Cancel ==
    /\ loop = "idle" /\ call # NoCall
    /\ call' = NoCall
    /\ UNCHANGED <<procs, child, pty, buf, due, loop, drainee, made, missed,
                   ended>>

(* /kill, also while a call waits on the job.                               *)
UserKills(j, dies) ==
    /\ loop = "idle" /\ j \in reg
    /\ ProcClose(j, dies, "user")
    /\ UNCHANGED <<buf, call, due, loop, drainee, made>>

(* Teardown: the agent goes first, then nm_proc_close_all.                  *)
Quit ==
    /\ loop = "idle"
    /\ call' = NoCall /\ loop' = "quitting"
    /\ UNCHANGED <<procs, child, pty, buf, due, drainee, made, missed, ended>>

QuitCloses(j, dies) ==
    /\ loop = "quitting" /\ j \in reg
    /\ ProcClose(j, dies, "quit")
    /\ UNCHANGED <<buf, call, due, loop, drainee, made>>

(* The last orphan_sweep.                                                   *)
QuitEnds ==
    /\ loop = "quitting" /\ reg = {}
    /\ Reap(orphans)
    /\ orphans' = {o \in orphans : child[o] # "zombie"}
    /\ loop' = "quit"
    /\ UNCHANGED <<nextId, reg, given, buf, call, due, drainee, made, ended>>

-----------------------------------------------------------------------------
Init ==
    /\ nextId = 1 /\ reg = {} /\ orphans = {} /\ given = {}
    /\ child = [j \in Ids |-> "none"] /\ pty = [j \in Ids |-> NoTty]
    /\ buf = [j \in Ids |-> NoBytes]
    /\ call = NoCall /\ due = FALSE /\ loop = "idle" /\ drainee = 0
    /\ made = [j \in Ids |-> 0] /\ missed = [j \in Ids |-> 0]
    /\ ended = [j \in Ids |-> "no"]

Child(j) == \/ ChildWrites(j) \/ ChildReads(j) \/ ChildLetsGo(j)
            \/ ChildExits(j) \/ ExitCompletes(j)

Tools == \/ ExecCommand
         \/ \E j \in Ids, n \in Bodies, c \in BOOLEAN : WriteStdin(j, n, c)
         \/ \E j \in Ids, dies \in BOOLEAN : KillJob(j, dies)

StepEnds == StepExited \/ StepYields \/ StepWaits

User == \/ AskLive \/ Cancel \/ Quit \/ QuitEnds
        \/ \E j \in Ids, dies \in BOOLEAN : UserKills(j, dies) \/ QuitCloses(j, dies)

Next == \/ \E j \in Ids : Child(j) \/ Drain(j)
        \/ Tools \/ User \/ DrainReaps
        \/ StepGone \/ StepPump \/ StepEnds \/ WindowCloses

Spec == Init /\ [][Next]_vars

(* Time passes, the loop's own steps complete, and it serves every ready    *)
(* source of its wait set again and again; users, models and children owe   *)
(* nothing.                                                                 *)
Fairness ==
    /\ WF_vars(WindowCloses) /\ WF_vars(StepEnds) /\ WF_vars(DrainReaps)
    /\ SF_vars(StepGone \/ StepPump)
    /\ \A j \in Ids : SF_vars(Drain(j))

FairSpec == Spec /\ Fairness

-----------------------------------------------------------------------------
Bytes == [len : 0 .. BufMax, dropped : Nat, total : Nat, told : Nat]
Tty   == [open : BOOLEAN, slave : BOOLEAN, out : 0 .. TtyCap, in : 0 .. InCap]
Calls == [job : Ids, left : Nat, close : BOOLEAN, eof : BOOLEAN]

(* Types and limits: the registry, the orphan list and every buffer stay    *)
(* within their caps.                                                       *)
TypeOK ==
    /\ nextId \in 1 .. MaxIds + 1
    /\ reg \subseteq Ids /\ orphans \subseteq Ids /\ given \subseteq Ids
    /\ Cardinality(reg) <= MaxJobs /\ Cardinality(orphans) <= OrphanCap
    /\ child \in [Ids -> Alive \cup {"none", "zombie", "reaped"}]
    /\ pty \in [Ids -> Tty]
    /\ buf \in [Ids -> Bytes]
    /\ call \in Calls \cup {NoCall} /\ due \in BOOLEAN
    /\ loop \in {"idle", "inner", "stepping", "draining", "quitting", "quit"}
    /\ drainee \in Ids \cup {0}
    /\ made \in [Ids -> Nat] /\ missed \in [Ids -> Nat]
    /\ ended \in [Ids -> {"no", "exit", "killed", "user", "quit"}]

(* Every byte read from a child is in exactly one place: handed to the      *)
(* model, counted in an omission notice it got or will get, or still in the *)
(* buffer (buf_append, nm_proc_take_output).                                *)
Accounted ==
    \A j \in Ids : buf[j].total = buf[j].told + buf[j].dropped + buf[j].len

(* No child is forgotten: one not reaped yet is in the registry, in the     *)
(* orphan list, or was given up; and a job stays registered, across yields  *)
(* and cancels, until its exit was told or somebody closed it.              *)
Tracked ==
    \A j \in Ids :
      /\ child[j] \in Alive \cup {"zombie"} => j \in reg \cup orphans \cup given
      /\ child[j] # "none" => (j \in reg <=> ended[j] = "no")

(* A terminal the program holds open belongs to a job it can still name, so *)
(* descriptors cannot pile up past the registry and the orphan list.        *)
NoLeak == \A j \in Ids : pty[j].open => j \in reg \cup orphans

(* End of input is signalled only once the whole body went out, however     *)
(* many steps the terminal took to accept it (write_stdin_step).            *)
EofAfterBody == call # NoCall => (call.eof => call.close /\ call.left = 0)

(* A job the model saw end has nothing left in its buffer: what was read    *)
(* from it, the model got.                                                  *)
EndedIsTold ==
    \A j \in Ids : ended[j] \in {"exit", "killed"} =>
                     buf[j].told = buf[j].total

(* What the program started it can still name, and what it has open belongs *)
(* to something it can name.                                                *)
Custody == Tracked /\ NoLeak

(* No byte is lost or taken twice, either way: output on its way from the   *)
(* child to the model, input before its end.                                *)
BytesTold == Accounted /\ EndedIsTold /\ EofAfterBody

(* A child blocked on a full terminal is read again, or its job is closed:  *)
(* the wait set reaches every registered job (nm_proc_interest).            *)
NoStall ==
    \A j \in Ids : (j \in reg /\ pty[j].open /\ pty[j].out = TtyCap)
                     ~> (pty[j].out < TtyCap \/ loop \in {"quitting", "quit"})

(* Every call ends: the window closes on a silent child, and a job that was *)
(* killed under the call is noticed.                                        *)
CallEnds == call # NoCall ~> call = NoCall

-----------------------------------------------------------------------------
(* A claim of the source that its own steps break.                          *)

(* "its output has been delivered": an exit is told with all the child      *)
(* printed.                                                                 *)
FinalOutputTold == \A j \in Ids : ended[j] = "exit" => missed[j] = 0
=============================================================================
