-------------------------------- MODULE Agent --------------------------------
(***************************************************************************)
(* The agent loop of src/src/agent.c: one turn at a time, driven by        *)
(* nm_agent_start, nm_agent_step and nm_agent_cancel from the event loop.  *)
(*                                                                         *)
(* A turn appends the user's message, may wait for the <env> git stage,    *)
(* then opens rounds.  A round is one request (the whole transcript) and   *)
(* its streamed reply; a reply that asks for tools runs them one by one    *)
(* and opens the next round.                                               *)
(*                                                                         *)
(* Kept: every state change, guard and early return, and the kind and      *)
(* order of the messages appended to the session.  Abstracted: the texts;  *)
(* allocation failures; which reminders are due (any evaluation may append *)
(* one message, see module Reminders); what a request carries besides the  *)
(* messages (see module Request).                                          *)
(***************************************************************************)
EXTENDS Integers, Sequences, FiniteSets

CONSTANTS
    MaxRounds,   \* the `rounds` key: requests one turn may open
    MaxCalls,    \* bound: tool calls in one reply
    MaxTurns,    \* bound: turns of a behaviour
    Repository,  \* the working directory is a git repository
    MaxAsides,   \* bound: mention notes and reminders in a conversation
    ImageTools   \* some tool returns images

ASSUME ConstantsAssumption == /\ MaxRounds \in Nat \ {0}
                              /\ MaxCalls \in Nat
                              /\ MaxTurns \in Nat
                              /\ Repository \in BOOLEAN
                              /\ MaxAsides \in Nat
                              /\ ImageTools \in BOOLEAN

VARIABLES
    state,        \* NmAgentState
    stream,       \* "none"; "open"; "tail": content complete, framing owed
    exec,         \* an async tool execution is live
    awaitingEnv,  \* the first round waits for the git stage
    envJob,       \* the git stage's process job; "none" is env_job <= 0
    envLate,      \* the stage's deadline has passed
    git,          \* the context holds the git section
    sysGit,       \* the session's system prompt holds it
    asked,        \* a request has been composed in this conversation
    round, turn,  \* the agent's counters
    calls,        \* n_calls: tool calls of this round's reply
    idx,          \* tool_exec_idx: calls already answered
    announced,    \* the next call's plan is on screen
    images,       \* n_tool_images: images waiting for the fan-out
    note,         \* a mention note is queued
    transcript    \* the session's messages after the system prompt

envVars   == <<awaitingEnv, envJob, envLate, git>>
roundVars == <<calls, idx, announced, images>>
vars == <<state, stream, exec, awaitingEnv, envJob, envLate, git, sysGit,
          asked, round, turn, calls, idx, announced, images, note,
          transcript>>

Busy == state \in {"STREAMING", "RUNNING_TOOL"}

Msg(k, n, img) == [kind |-> k, n |-> n, img |-> img]
User      == Msg("user", 0, FALSE)
Note      == Msg("note", 0, FALSE)
Reminder  == Msg("reminder", 0, FALSE)
Answer    == Msg("answer", 0, FALSE)
Calls(n)  == Msg("calls", n, FALSE)
Result(i, img) == Msg("result", i, img)
Images(n) == Msg("images", n, FALSE)

AsideLeft == Cardinality({q \in 1 .. Len(transcript) :
                 transcript[q].kind \in {"note", "reminder"}}) < MaxAsides

(* A reminder evaluation point appends at most one framed user message.     *)
UserReminders == IF AsideLeft THEN {<<>>, <<Reminder>>} ELSE {<<>>}

(* The synthetic replies nm_agent_cancel writes for calls i+1 .. n.         *)
Cancelled(i, n) == [j \in 1 .. (n - i) |-> Msg("cancelled", i + j, FALSE)]

Init ==
    /\ state = "IDLE" /\ stream = "none" /\ exec = FALSE
    /\ envJob \in IF Repository THEN {"none", "live"} ELSE {"none"}
    /\ awaitingEnv = FALSE /\ envLate = FALSE
    /\ git = FALSE /\ sysGit = FALSE /\ asked = FALSE
    /\ round = 0 /\ turn = 0
    /\ calls = 0 /\ idx = 0 /\ announced = FALSE /\ images = 0
    /\ note = FALSE
    /\ transcript = <<>>

-----------------------------------------------------------------------------
(* Rounds *)

(* Mutant: the images of an interrupted group survive it.                   *)
RoundKeepsImages == calls' = 0 /\ idx' = 0 /\ announced' = FALSE /\ images' = images

RoundReset == calls' = 0 /\ idx' = 0 /\ announced' = FALSE /\ images' = 0

(* begin_round, with t the transcript and r the round counter it starts     *)
(* from.  Its callers leave exec, envVars and turn to their own actions.    *)
TooManyRounds(t, r) ==
    /\ r >= MaxRounds
    /\ state' = "ERROR" /\ stream' = "none"
    /\ transcript' = t /\ round' = r
    /\ calls' = 0 /\ idx' = 0 /\ announced' = FALSE  \* dropped by tool_step
    /\ UNCHANGED <<images, asked>>

ComposeRound(t, r) ==
    /\ r < MaxRounds
    /\ RoundReset
    /\ \E reminder \in UserReminders : transcript' = t \o reminder
    /\ asked' = TRUE
    /\ \/ stream' = "open" /\ round' = r + 1 /\ state' = "STREAMING"
       \/ stream' = "none" /\ round' = r /\ state' = "ERROR"  \* chat_begin

BeginRound(t, r) == TooManyRounds(t, r) \/ ComposeRound(t, r)

-----------------------------------------------------------------------------
(* The <env> git stage *)

(* The child exits; /kill or teardown closes the job under the agent; the   *)
(* deadline passes.  Each may happen at any moment.                         *)
EnvExit   == envJob = "live" /\ envJob' = "exited"
EnvGone   == envJob \in {"live", "exited"} /\ envJob' = "gone"
EnvExpire == envJob = "live" /\ ~envLate /\ envLate' = TRUE

EnvWorld ==
    /\ \/ EnvExit /\ UNCHANGED envLate
       \/ EnvGone /\ UNCHANGED envLate
       \/ EnvExpire /\ UNCHANGED envJob
    /\ UNCHANGED <<state, stream, exec, awaitingEnv, git, sysGit, asked, round,
                   turn, roundVars, note, transcript>>

EnvPending == envJob = "live" /\ ~envLate

(* Mutant: the resolved job is not forgotten.                               *)
EnvResolveKeepsJob ==
    /\ ~EnvPending
    /\ awaitingEnv' = FALSE
    /\ IF envJob = "exited" THEN git' \in {git, TRUE} ELSE git' = git
    /\ UNCHANGED <<envJob, envLate>>

(* env_stage_step once it resolves: the output of an exited child is        *)
(* spliced (or is garbled and is not), anything else goes gitless.          *)
EnvResolve ==
    /\ ~EnvPending
    /\ envJob' = "none" /\ awaitingEnv' = FALSE
    /\ IF envJob = "exited" THEN git' \in {git, TRUE} ELSE git' = git
    /\ UNCHANGED envLate

(* env_finish: the final prompt goes into the session, the round opens.     *)
EnvFinish(t, r) == EnvResolve /\ sysGit' = git' /\ BeginRound(t, r)

-----------------------------------------------------------------------------
(* The three entry points *)

(* nm_agent_note_mentions: called with every submit, an empty list clears.  *)
NoteMentions ==
    /\ ~Busy /\ turn < MaxTurns
    /\ note' \in IF AsideLeft THEN BOOLEAN ELSE {FALSE}
    /\ UNCHANGED <<state, stream, exec, envVars, sysGit, asked, round, turn,
                   roundVars, transcript>>

StartRefused ==      \* no session, or the turn's images do not resolve
    /\ ~Busy /\ turn < MaxTurns
    /\ state' = "ERROR"
    /\ UNCHANGED <<stream, exec, envVars, sysGit, asked, round, turn,
                   roundVars, note, transcript>>

Start ==
    /\ ~Busy /\ turn < MaxTurns
    /\ turn' = turn + 1
    /\ note' = FALSE
    /\ \E reminder \in UserReminders :
         LET said == transcript \o <<User>>
                     \o (IF note THEN <<Note>> ELSE <<>>) \o reminder
         IN \/ /\ envJob = "none"
               /\ BeginRound(said, 0)
               /\ UNCHANGED <<envVars, sysGit>>
            \/ envJob # "none" /\ EnvFinish(said, 0)
            \/ /\ EnvPending
               /\ awaitingEnv' = TRUE /\ state' = "STREAMING"
               /\ transcript' = said /\ round' = 0
               /\ UNCHANGED <<stream, envJob, envLate, git, sysGit, asked,
                              roundVars>>
    /\ UNCHANGED <<exec>>

(* Mutant: a turn waits for the exit of a job that /kill has closed.        *)
StepEnvOnExitOnly ==
    /\ awaitingEnv /\ envJob = "exited"
    /\ EnvFinish(transcript, round)
    /\ UNCHANGED <<exec, turn, note>>

StepEnv ==
    /\ awaitingEnv
    /\ EnvFinish(transcript, round)
    /\ UNCHANGED <<exec, turn, note>>

(* The stream's content completes (round_on_delta's last call delivers the  *)
(* tool calls) while the connection still owes its framing.                 *)
ContentComplete ==
    /\ ~awaitingEnv /\ state = "STREAMING" /\ stream = "open"
    /\ stream' = "tail"
    /\ calls' \in 0 .. MaxCalls
    /\ UNCHANGED <<state, exec, envVars, sysGit, asked, round, turn, idx,
                   announced, images, note, transcript>>

(* The inactivity deadline: it stands down once the content is complete.    *)
StepTimeout ==
    /\ ~awaitingEnv /\ state = "STREAMING" /\ stream = "open"
    /\ stream' = "none" /\ state' = "ERROR"
    /\ UNCHANGED <<exec, envVars, sysGit, asked, round, turn, roundVars, note, transcript>>

(* chat_step reports the stream over; a stream that never marked the end of *)
(* its content delivers its calls in the same step.                         *)
StreamOver(n) ==
    /\ ~awaitingEnv /\ state = "STREAMING" /\ stream # "none"
    /\ n \in IF stream = "tail" THEN {calls} ELSE 0 .. MaxCalls
    /\ stream' = "none"

(* finish_round *)
FailedRound ==      \* a failed stream, or a reply with nothing in it
    /\ \E n \in 0 .. MaxCalls : StreamOver(n) /\ calls' = n
    /\ state' = "ERROR"
    /\ UNCHANGED <<exec, envVars, sysGit, asked, round, turn, idx, announced, images, note, transcript>>

AnswerRound ==
    /\ StreamOver(0)
    /\ calls' = 0
    /\ transcript' = Append(transcript, Answer)
    /\ state' = "DONE"
    /\ UNCHANGED <<exec, envVars, sysGit, asked, round, turn, idx, announced, images, note>>

CallRound ==
    /\ \E n \in 1 .. MaxCalls :
         /\ StreamOver(n)
         /\ calls' = n
         /\ transcript' = Append(transcript, Calls(n))
    /\ state' = "RUNNING_TOOL"
    /\ UNCHANGED <<exec, envVars, sysGit, asked, round, turn, idx, announced,
                   images, note>>

-----------------------------------------------------------------------------
(* The tool phase: tool_step *)

NextTool == idx' = idx + 1 /\ announced' = FALSE

(* Mutant: each image is sent behind its own result, inside the group.      *)
FinishToolCallWithImage ==
    \E img \in {FALSE, ImageTools} :
        /\ transcript' = transcript \o <<Result(idx + 1, img)>>
                          \o (IF img THEN <<Images(1)>> ELSE <<>>)
        /\ images' = images

(* finish_tool_call: the image goes to the store and the fan-out queue, the *)
(* result to the transcript.                                                *)
FinishToolCall ==
    \E img \in {FALSE, ImageTools} :
        /\ transcript' = Append(transcript, Result(idx + 1, img))
        /\ images' = IF img THEN images + 1 ELSE images

ToolBegin ==         \* an async tool starts; the step returns
    /\ state = "RUNNING_TOOL" /\ idx < calls /\ ~exec
    /\ announced' = TRUE
    /\ exec' = TRUE
    /\ UNCHANGED <<state, stream, envVars, sysGit, asked, round, turn, calls,
                   idx, images, note, transcript>>

ToolRun ==           \* a synchronous tool, or an async one that declined
    /\ state = "RUNNING_TOOL" /\ idx < calls /\ ~exec
    /\ FinishToolCall /\ NextTool
    /\ UNCHANGED <<state, stream, exec, envVars, sysGit, asked, round, turn,
                   calls, note>>

ToolEnd ==           \* the live execution stops saying RUNNING
    /\ state = "RUNNING_TOOL" /\ idx < calls /\ exec
    /\ FinishToolCall /\ NextTool
    /\ exec' = FALSE
    /\ UNCHANGED <<state, stream, envVars, sysGit, asked, round, turn, calls,
                   note>>

(* Mutant: the rounds of a turn are not counted.                            *)
ToolsDoneUncounted ==
    /\ state = "RUNNING_TOOL" /\ idx >= calls
    /\ BeginRound(transcript \o (IF images > 0 THEN <<Images(images)>>
                                               ELSE <<>>), 0)
    /\ UNCHANGED <<exec, envVars, sysGit, turn, note>>

ToolsDone ==         \* one user message with the group's images, next round
    /\ state = "RUNNING_TOOL" /\ idx >= calls
    /\ BeginRound(transcript \o (IF images > 0 THEN <<Images(images)>>
                                               ELSE <<>>), round)
    /\ UNCHANGED <<exec, envVars, sysGit, turn, note>>

-----------------------------------------------------------------------------
(* nm_agent_cancel; the chat calls it only while the agent is busy *)

CancelEnv ==
    /\ awaitingEnv
    /\ awaitingEnv' = FALSE /\ envJob' = "none"
    /\ state' = "IDLE"
    /\ UNCHANGED <<stream, exec, envLate, git, sysGit, asked, round, turn,
                   roundVars, note, transcript>>

(* Mutants: cancelling leaves the running tool behind, or its group short.  *)
CancelRoundKeepsTool ==
    /\ Busy /\ ~awaitingEnv
    /\ stream' = "none" /\ exec' = exec
    /\ transcript' = IF state = "RUNNING_TOOL"
                     THEN transcript \o Cancelled(idx, calls)
                     ELSE transcript
    /\ RoundReset
    /\ round' = 0 /\ state' = "IDLE"
    /\ UNCHANGED <<envVars, sysGit, asked, turn, note>>

CancelRoundSilently ==
    /\ Busy /\ ~awaitingEnv
    /\ stream' = "none" /\ exec' = FALSE
    /\ RoundReset
    /\ round' = 0 /\ state' = "IDLE"
    /\ UNCHANGED <<envVars, sysGit, asked, turn, note, transcript>>

CancelRound ==
    /\ Busy /\ ~awaitingEnv
    /\ stream' = "none" /\ exec' = FALSE
    /\ transcript' = IF state = "RUNNING_TOOL"
                     THEN transcript \o Cancelled(idx, calls)
                     ELSE transcript
    /\ RoundReset
    /\ round' = 0 /\ state' = "IDLE"
    /\ UNCHANGED <<envVars, sysGit, asked, turn, note>>

-----------------------------------------------------------------------------
Reply  == FailedRound \/ AnswerRound \/ CallRound
Tool   == ToolBegin \/ ToolRun \/ ToolEnd \/ ToolsDone
Cancel == CancelEnv \/ CancelRound

Next == \/ EnvWorld \/ NoteMentions \/ StartRefused \/ Start \/ StepEnv
        \/ ContentComplete \/ StepTimeout \/ Reply \/ Tool \/ Cancel

(* What the event loop and the world guarantee: a due deadline is stepped   *)
(* (nm_agent_next_timeout_ms), a stream ends or falls silent, the framing   *)
(* tail and an async tool have deadlines of their own.                      *)
Fairness ==
    /\ WF_vars(EnvWorld /\ EnvExpire) /\ WF_vars(StepEnv)
    /\ WF_vars(StepTimeout \/ Reply)
    /\ WF_vars(ToolRun \/ ToolBegin) /\ WF_vars(ToolEnd) /\ WF_vars(ToolsDone)

Spec     == Init /\ [][Next]_vars
FairSpec == Spec /\ Fairness

-----------------------------------------------------------------------------
(* Properties *)

Kinds == {"user", "note", "reminder", "answer", "calls", "result",
          "cancelled", "images"}
Message == [kind : Kinds, n : Nat, img : BOOLEAN]

(* Every variable has its type; round and the bookkeeping stay in range.    *)
TypeOK ==
    /\ state \in {"IDLE", "STREAMING", "RUNNING_TOOL", "DONE", "ERROR"}
    /\ stream \in {"none", "open", "tail"}
    /\ exec \in BOOLEAN /\ awaitingEnv \in BOOLEAN
    /\ envJob \in {"none", "live", "exited", "gone"}
    /\ envLate \in BOOLEAN /\ git \in BOOLEAN /\ sysGit \in BOOLEAN
    /\ asked \in BOOLEAN /\ note \in BOOLEAN /\ announced \in BOOLEAN
    /\ round \in 0 .. MaxRounds /\ turn \in Nat
    /\ calls \in Nat /\ idx \in Nat /\ images \in Nat
    /\ transcript \in Seq(Message)

(* The resources follow the state: a stream or the git stage exactly while  *)
(* STREAMING, never both; an async execution only while RUNNING_TOOL and    *)
(* only for a call whose plan is on screen and still owes its result.       *)
StateOwnsResources ==
    /\ (state = "STREAMING") <=> (stream # "none" \/ awaitingEnv)
    /\ ~(stream # "none" /\ awaitingEnv)
    /\ exec => state = "RUNNING_TOOL" /\ announced /\ idx < calls
    /\ awaitingEnv => envJob # "none" /\ ~asked

IsReply(m) == m.kind \in {"result", "cancelled"}

(* The calls message at p is followed by its first k replies, in order.     *)
Answered(t, p, k) == /\ p + k <= Len(t)
                     /\ \A i \in 1 .. k : IsReply(t[p + i]) /\ t[p + i].n = i

(* All groups of t are answered, but of the one at p only the first k calls *)
(* need be (p = 0: no exception).                                           *)
GroupsAnswered(t, p, k) ==
    \A q \in 1 .. Len(t) :
        t[q].kind = "calls" => Answered(t, q, IF q = p THEN k ELSE t[q].n)

RepliesOwned(t) ==
    \A q \in 1 .. Len(t) :
        IsReply(t[q]) => /\ t[q].n >= 1
                         /\ q - t[q].n >= 1
                         /\ t[q - t[q].n].kind = "calls"
                         /\ t[q].n <= t[q - t[q].n].n

(* The group that is being answered, if any.                                *)
OpenGroup == IF state = "RUNNING_TOOL" THEN Len(transcript) - idx ELSE 0

(* Every tool_calls message in the session is followed by one reply per     *)
(* call, in call order, with nothing between (the provider answers 400 to   *)
(* anything else); only the group being run may be short of replies.        *)
(* Cancelling, the round cap, images and reminders must all leave it so.    *)
(* No reply stands outside a group: a reply numbered i sits i places after  *)
(* a calls message that asked for at least i calls.                         *)
ToolGroupsComplete == /\ GroupsAnswered(transcript, OpenGroup, idx)
                      /\ RepliesOwned(transcript)

(* The bookkeeping of the tool phase agrees with the transcript: the group  *)
(* being run is its last calls message and idx counts the replies behind.   *)
GroupAtHand ==
    state = "RUNNING_TOOL" =>
        /\ calls > 0 /\ idx <= calls /\ idx < Len(transcript)
        /\ transcript[OpenGroup] = Calls(calls)

(* The git stage is over before the first request is composed, and streams  *)
(* and tools come of requests only.                                         *)
EnvBeforeRequests ==
    /\ asked => envJob = "none"
    /\ stream # "none" \/ state = "RUNNING_TOOL" => asked

(* A reply is streamed into fresh bookkeeping: nothing of an earlier round, *)
(* however it ended, is left when its calls arrive.                         *)
FreshRound == stream # "none" => idx = 0 /\ ~announced /\ images = 0

(* What makes the transcript properties inductive.                          *)
IInv == /\ TypeOK /\ StateOwnsResources /\ EnvBeforeRequests /\ FreshRound
        /\ GroupAtHand /\ ToolGroupsComplete

ImagesOf(t, p) == {i \in 1 .. t[p].n : p + i <= Len(t) /\ t[p + i].img}

(* What may stand behind the group at p: one message with the images of its *)
(* results, or, where nothing was fanned out, no image but an abandoned one.*)
Follows(t, p, m) ==
    IF m.kind = "images"
    THEN /\ Cardinality(ImagesOf(t, p)) = m.n
         /\ \A i \in 1 .. t[p].n : t[p + i].kind = "result"
    ELSE ImagesOf(t, p) = {} \/ m.kind = "user"

ImagesBehind(t) ==
    \A p \in 1 .. Len(t) :
        /\ t[p].kind = "calls" =>
             LET q == p + t[p].n + 1 IN q <= Len(t) => Follows(t, p, t[q])
        /\ t[p].kind = "images" => p > 1 /\ IsReply(t[p - 1])

(* The images of a group's results are fanned out in one message, directly  *)
(* behind the group's last result, and none is lost or repeated: only a new *)
(* user message (the turn was cancelled, or failed) may follow a group      *)
(* whose images were dropped.                                               *)
ImagesFollowTheirGroup == ImagesBehind(transcript)

Assistant(t) == {q \in 1 .. Len(t) : t[q].kind \in {"calls", "answer"}}
TurnStart(t) == {q \in 1 .. Len(t) : t[q].kind = "user"}

(* The assistant messages of the turn the user message at p began.          *)
RoundsOf(t, p) == {q \in Assistant(t) :
                     p < q /\ \A u \in TurnStart(t) : u <= p \/ q < u}

TurnsBegun(t)  == \A q \in Assistant(t) : \E u \in TurnStart(t) : u < q
AnswersLast(t) == \A q \in 1 .. Len(t) :
                    t[q].kind = "answer" /\ q < Len(t) => t[q + 1].kind = "user"
RoundsCapped(t) == \A p \in TurnStart(t) : Cardinality(RoundsOf(t, p)) <= MaxRounds

(* A turn has the shape one user message, at most MaxRounds assistant       *)
(* messages, and nothing after a final answer but the next user message.    *)
TurnShape == TurnsBegun(transcript) /\ AnswersLast(transcript)
             /\ RoundsCapped(transcript)

(* The conversation a provider is shown has its shape whatever was           *)
(* cancelled, timed out or failed on the way.                               *)
ConversationShape == ImagesFollowTheirGroup /\ TurnShape

(* What makes the shape inductive.  The images waiting for the fan-out are  *)
(* those of the open group, whose replies are all results so far; a request *)
(* goes out only when none is owed and the turn has not been answered; the  *)
(* rounds of the turn at hand are those the agent has counted.              *)
GroupImages ==
    state = "RUNNING_TOOL" =>
        /\ \A i \in 1 .. idx : transcript[OpenGroup + i].kind = "result"
        /\ Cardinality(ImagesOf(transcript, OpenGroup)) = images

NoneOwed(t) == \A p \in 1 .. Len(t) :
    t[p].kind = "calls" /\ p + t[p].n = Len(t) => ImagesOf(t, p) = {}

Unanswered(t) == Len(t) > 0 /\ t[Len(t)].kind # "answer"

RoundsUpTo(t, k) ==
    \A p \in TurnStart(t) :
        (\A u \in TurnStart(t) : u <= p) => Cardinality(RoundsOf(t, p)) <= k

(* The requests of the turn that have been replied to.                      *)
RoundsOver == IF stream # "none" THEN round - 1 ELSE round

TurnAtHand ==
    /\ state = "STREAMING" => NoneOwed(transcript)
    /\ Busy => /\ Unanswered(transcript) /\ TurnStart(transcript) # {}
                /\ RoundsUpTo(transcript, RoundsOver)
    /\ stream # "none" => round >= 1

ShapePart == GroupImages /\ ImagesFollowTheirGroup /\ TurnShape /\ TurnAtHand
ShapeInv  == IInv /\ ShapePart

(* Once a request has been composed the git section is never spliced into   *)
(* (or out of) the system prompt: the provider has cached that prefix.      *)
PromptSettled == [][asked => sysGit' = sysGit]_vars

(* The session's transcript only ever grows at its end, one legal step of   *)
(* the tool-call protocol at a time.                                        *)
Protocol == INSTANCE ToolProtocol WITH
              log    <- transcript,
              size   <- IF state = "RUNNING_TOOL" THEN calls ELSE 0,
              done   <- IF state = "RUNNING_TOOL" THEN idx ELSE 0,
              onWire <- stream # "none"
ImplementsProtocol == Protocol!Spec

(* A turn that is under way comes to rest: no order of deadlines, exits,    *)
(* streams and tool executions leaves the agent busy for ever.              *)
TurnEnds == Busy ~> ~Busy
=============================================================================
