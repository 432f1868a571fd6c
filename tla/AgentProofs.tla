----------------------------- MODULE AgentProofs -----------------------------
(***************************************************************************)
(* Proofs about module Agent, for every value of its constants.            *)
(***************************************************************************)
EXTENDS Agent, SequenceTheorems, FiniteSetTheorems, TLAPS

-----------------------------------------------------------------------------
(* What the transcript is extended with. *)

(* The single messages of the agent are messages.                           *)
LEMMA MessageTypes ==
    /\ User \in Message /\ Note \in Message /\ Reminder \in Message
    /\ Answer \in Message
    /\ \A n \in Nat : Calls(n) \in Message /\ Images(n) \in Message
    /\ \A i \in Nat, img \in BOOLEAN : Result(i, img) \in Message
  BY DEF User, Note, Reminder, Answer, Calls, Images, Result, Msg, Message,
         Kinds

(* The synthetic replies of a cancelled group number its missing calls.     *)
LEMMA CancelledType ==
    ASSUME NEW i \in Nat, NEW n \in Nat
    PROVE  /\ Cancelled(i, n) \in Seq(Message)
           /\ Len(Cancelled(i, n)) = IF i <= n THEN n - i ELSE 0
           /\ \A j \in 1 .. (n - i) :
                 Cancelled(i, n)[j] = Msg("cancelled", i + j, FALSE)
  <1> DEFINE k == IF i <= n THEN n - i ELSE 0
  <1>1. k \in Nat /\ 1 .. k = 1 .. (n - i)
    OBVIOUS
  <1>2. \A j \in 1 .. k : Msg("cancelled", i + j, FALSE) \in Message
    BY DEF Msg, Message, Kinds
  <1>3. Cancelled(i, n) = [j \in 1 .. k |-> Msg("cancelled", i + j, FALSE)]
    BY <1>1 DEF Cancelled
  <1> HIDE DEF k
  <1>4. Cancelled(i, n) \in [1 .. k -> Message]
    BY <1>2, <1>3
  <1>5. Cancelled(i, n) \in Seq(Message)
    BY <1>1, <1>4, SeqDef
  <1>6. 1 .. Len(Cancelled(i, n)) = 1 .. k /\ Len(Cancelled(i, n)) \in Nat
    BY <1>3, <1>5, LenProperties
  <1>7. Len(Cancelled(i, n)) = k
    BY <1>1, <1>6
  <1> QED
    BY <1>1, <1>3, <1>5, <1>7 DEF k

(* A concatenation, by the side an index is on.                             *)
LEMMA Behind ==
    ASSUME NEW t \in Seq(Message), NEW s \in Seq(Message)
    PROVE  /\ t \o s \in Seq(Message)
           /\ Len(t) \in Nat /\ Len(s) \in Nat
           /\ Len(t \o s) = Len(t) + Len(s)
           /\ \A q \in 1 .. Len(t) : (t \o s)[q] = t[q]
           /\ \A j \in 1 .. Len(s) : (t \o s)[Len(t) + j] = s[j]
  <1>1. Len(t) \in Nat /\ Len(s) \in Nat
    OBVIOUS
  <1>2. /\ t \o s \in Seq(Message) /\ Len(t \o s) = Len(t) + Len(s)
        /\ \A i \in 1 .. (Len(t) + Len(s)) :
              (t \o s)[i] = IF i <= Len(t) THEN t[i] ELSE s[i - Len(t)]
    BY ConcatProperties
  <1>3. ASSUME NEW q \in 1 .. Len(t) PROVE (t \o s)[q] = t[q]
    BY <1>1, <1>2
  <1>4. ASSUME NEW j \in 1 .. Len(s) PROVE (t \o s)[Len(t) + j] = s[j]
    <2>1. /\ Len(t) + j \in 1 .. (Len(t) + Len(s)) /\ ~(Len(t) + j <= Len(t))
          /\ (Len(t) + j) - Len(t) = j
      BY <1>1
    <2> QED
      BY <1>2, <2>1
  <1> QED
    BY <1>1, <1>2, <1>3, <1>4

(* A reminder evaluation yields a sequence of messages.                     *)
LEMMA ReminderType == \A r \in UserReminders : r \in Seq(Message)
  <1>1. <<>> \in Seq(Message) /\ <<Reminder>> \in Seq(Message)
    BY MessageTypes
  <1> QED
    BY <1>1 DEF UserReminders

-----------------------------------------------------------------------------
(* Type correctness. *)

(* begin_round keeps every variable it touches in its type.                 *)
LEMMA BeginRoundType ==
    ASSUME TypeOK, NEW t \in Seq(Message), NEW r \in 0 .. MaxRounds,
           BeginRound(t, r)
    PROVE  /\ state' \in {"STREAMING", "ERROR"}
           /\ stream' \in {"none", "open"}
           /\ asked' \in BOOLEAN /\ announced' \in BOOLEAN
           /\ round' \in 0 .. MaxRounds
           /\ calls' \in Nat /\ idx' \in Nat /\ images' \in Nat
           /\ transcript' \in Seq(Message)
  <1>1. CASE TooManyRounds(t, r)
    BY <1>1 DEF TypeOK, TooManyRounds
  <1>2. CASE ComposeRound(t, r)
    <2>1. transcript' \in Seq(Message)
      BY <1>2, ReminderType, ConcatProperties DEF ComposeRound
    <2> QED
      <3>1. announced' \in BOOLEAN
        BY <1>2, Zenon DEF ComposeRound, RoundReset
      <3> QED
        BY <1>2, <2>1, <3>1, ConstantsAssumption
        DEF TypeOK, ComposeRound, RoundReset
  <1> QED
    BY <1>1, <1>2 DEF BeginRound

(* The transcript a turn starts from: the user's message, its mention note  *)
(* and the turn's reminders behind what was said before.                    *)
LEMMA StartSaysMessages ==
    ASSUME TypeOK, NEW reminder \in UserReminders
    PROVE  transcript \o <<User>> \o (IF note THEN <<Note>> ELSE <<>>)
             \o reminder \in Seq(Message)
  BY MessageTypes, ReminderType, ConcatProperties DEF TypeOK

(* Every state has its type: Spec => []TypeOK.                              *)
LEMMA TypeStep == ASSUME TypeOK, [Next]_vars PROVE TypeOK'
  <1> USE DEF TypeOK
  <1>1. CASE EnvWorld
    <2>1. envJob' \in {"none", "live", "exited", "gone"} /\ envLate' \in BOOLEAN
      BY <1>1 DEF EnvWorld, EnvExit, EnvGone, EnvExpire
    <2> QED
      BY <1>1, <2>1 DEF EnvWorld, roundVars
  <1>2. CASE NoteMentions
    <2>1. note' \in BOOLEAN
      <3>1. CASE AsideLeft  BY <1>2, <3>1 DEF NoteMentions
      <3>2. CASE ~AsideLeft  BY <1>2, <3>2 DEF NoteMentions
      <3> QED  BY <3>1, <3>2
    <2> QED  BY <1>2, <2>1 DEF NoteMentions, envVars, roundVars
  <1>3. CASE StartRefused
    BY <1>3 DEF StartRefused, envVars, roundVars
  <1>4. CASE Start
    <2>1. PICK reminder \in UserReminders :
            LET said == transcript \o <<User>>
                        \o (IF note THEN <<Note>> ELSE <<>>) \o reminder
            IN \/ /\ envJob = "none"
                  /\ BeginRound(said, 0)
                  /\ UNCHANGED <<envVars, sysGit>>
               \/ envJob # "none" /\ EnvFinish(said, 0)
               \/ /\ EnvPending
                  /\ awaitingEnv' = TRUE /\ state' = "STREAMING"
                  /\ transcript' = said /\ round' = 0
                  /\ UNCHANGED <<stream, envJob, envLate, git, sysGit, asked,
                                 roundVars>>
      BY <1>4 DEF Start
    <2> DEFINE said == transcript \o <<User>>
                       \o (IF note THEN <<Note>> ELSE <<>>) \o reminder
    <2>2. said \in Seq(Message)
      BY StartSaysMessages
    <2>3. turn' \in Nat /\ note' \in BOOLEAN
          /\ exec' = exec /\ 0 \in 0 .. MaxRounds
      <3>1. note' \in BOOLEAN
        BY <1>4, Zenon DEF Start
      <3> QED
        BY <1>4, <3>1, ConstantsAssumption DEF Start
    <2> HIDE DEF said
    <2>4. CASE envJob = "none" /\ BeginRound(said, 0)
               /\ UNCHANGED <<envVars, sysGit>>
      <3> HIDE DEF TypeOK
      <3>1. /\ state' \in {"STREAMING", "ERROR"}
            /\ stream' \in {"none", "open"}
            /\ asked' \in BOOLEAN /\ announced' \in BOOLEAN
            /\ round' \in 0 .. MaxRounds
            /\ calls' \in Nat /\ idx' \in Nat /\ images' \in Nat
            /\ transcript' \in Seq(Message)
        BY <2>2, <2>3, <2>4, BeginRoundType
      <3> QED
        BY <2>3, <2>4, <3>1 DEF envVars, TypeOK
    <2>5. CASE EnvFinish(said, 0)
      <3> HIDE DEF TypeOK
      <3>1. /\ state' \in {"STREAMING", "ERROR"}
            /\ stream' \in {"none", "open"}
            /\ asked' \in BOOLEAN /\ announced' \in BOOLEAN
            /\ round' \in 0 .. MaxRounds
            /\ calls' \in Nat /\ idx' \in Nat /\ images' \in Nat
            /\ transcript' \in Seq(Message)
        BY <2>2, <2>3, <2>5, BeginRoundType DEF EnvFinish
      <3> QED
        BY <2>3, <2>5, <3>1 DEF EnvFinish, EnvResolve, TypeOK
    <2>6. CASE /\ EnvPending
               /\ awaitingEnv' = TRUE /\ state' = "STREAMING"
               /\ transcript' = said /\ round' = 0
               /\ UNCHANGED <<stream, envJob, envLate, git, sysGit, asked,
                              roundVars>>
      BY <2>2, <2>3, <2>6 DEF roundVars
    <2> QED
      BY <2>1, <2>4, <2>5, <2>6 DEF said
  <1>5. CASE StepEnv
    <2> HIDE DEF TypeOK
    <2>1. /\ state' \in {"STREAMING", "ERROR"}
          /\ stream' \in {"none", "open"}
          /\ asked' \in BOOLEAN /\ announced' \in BOOLEAN
          /\ round' \in 0 .. MaxRounds
          /\ calls' \in Nat /\ idx' \in Nat /\ images' \in Nat
          /\ transcript' \in Seq(Message)
      <3>1. transcript \in Seq(Message) /\ round \in 0 .. MaxRounds
        BY DEF TypeOK
      <3> QED
        BY <1>5, <3>1, BeginRoundType DEF StepEnv, EnvFinish
    <2> QED
      BY <1>5, <2>1 DEF StepEnv, EnvFinish, EnvResolve, TypeOK
  <1>6. CASE ContentComplete
    BY <1>6, ConstantsAssumption DEF ContentComplete, envVars
  <1>7. CASE StepTimeout
    BY <1>7 DEF StepTimeout, envVars, roundVars
  <1>8. CASE Reply
    <2>1. CASE FailedRound
      BY <2>1, ConstantsAssumption DEF FailedRound, StreamOver, envVars
    <2>2. CASE AnswerRound
      BY <2>2, MessageTypes DEF AnswerRound, StreamOver, envVars
    <2>3. CASE CallRound
      BY <2>3, MessageTypes, ConstantsAssumption
      DEF CallRound, StreamOver, envVars
    <2> QED
      BY <1>8, <2>1, <2>2, <2>3 DEF Reply
  <1>9. CASE Tool
    <2>1. ASSUME FinishToolCall
          PROVE  transcript' \in Seq(Message) /\ images' \in Nat
      <3>1. PICK img \in BOOLEAN :
              /\ transcript' = Append(transcript, Result(idx + 1, img))
              /\ images' = IF img THEN images + 1 ELSE images
        BY <2>1, ConstantsAssumption DEF FinishToolCall
      <3>2. Result(idx + 1, img) \in Message
        BY MessageTypes
      <3> QED
        BY <3>1, <3>2
    <2>2. CASE ToolBegin
      BY <2>2 DEF ToolBegin, envVars
    <2>3. CASE ToolRun
      <3>1. announced' \in BOOLEAN /\ exec' \in BOOLEAN
        BY <2>3, Zenon DEF ToolRun, NextTool, TypeOK
      <3> QED
        BY <2>1, <2>3, <3>1 DEF ToolRun, NextTool, envVars
    <2>4. CASE ToolEnd
      <3>1. announced' \in BOOLEAN /\ exec' \in BOOLEAN
        BY <2>4, Zenon DEF ToolEnd, NextTool, TypeOK
      <3> QED
        BY <2>1, <2>4, <3>1 DEF ToolEnd, NextTool, envVars
    <2>5. CASE ToolsDone
      <3> DEFINE t == transcript \o (IF images > 0 THEN <<Images(images)>>
                                                   ELSE <<>>)
      <3>1. t \in Seq(Message) /\ round \in 0 .. MaxRounds
        BY MessageTypes, ConcatProperties
      <3>2. BeginRound(t, round)
        BY <2>5 DEF ToolsDone
      <3> HIDE DEF t, TypeOK
      <3>3. /\ state' \in {"STREAMING", "ERROR"}
            /\ stream' \in {"none", "open"}
            /\ asked' \in BOOLEAN /\ announced' \in BOOLEAN
            /\ round' \in 0 .. MaxRounds
            /\ calls' \in Nat /\ idx' \in Nat /\ images' \in Nat
            /\ transcript' \in Seq(Message)
        BY <3>1, <3>2, BeginRoundType
      <3> QED
        BY <2>5, <3>3 DEF ToolsDone, envVars, TypeOK
    <2> QED
      BY <1>9, <2>2, <2>3, <2>4, <2>5 DEF Tool
  <1>10. CASE Cancel
    <2>1. CASE CancelEnv
      BY <2>1 DEF CancelEnv, roundVars
    <2>2. CASE CancelRound
      <3>1. transcript' \in Seq(Message)
        BY <2>2, CancelledType, ConcatProperties DEF CancelRound
      <3>2. announced' \in BOOLEAN /\ exec' \in BOOLEAN
        BY <2>2, Zenon DEF CancelRound, RoundReset
      <3> QED
        BY <2>2, <3>1, <3>2, ConstantsAssumption DEF CancelRound, RoundReset, envVars
    <2> QED
      BY <1>10, <2>1, <2>2 DEF Cancel
  <1>11. CASE UNCHANGED vars
    BY <1>11 DEF vars
  <1> QED
    BY <1>1, <1>2, <1>3, <1>4, <1>5, <1>6, <1>7, <1>8, <1>9, <1>10, <1>11
    DEF Next

(* So has every initial state.                                              *)
LEMMA InitType == Init => TypeOK
  <1>1. Init => envJob \in {"none", "live", "exited", "gone"}
    BY ConstantsAssumption DEF Init
  <1>2. Init => /\ exec \in BOOLEAN /\ awaitingEnv \in BOOLEAN
                /\ envLate \in BOOLEAN /\ git \in BOOLEAN
                /\ sysGit \in BOOLEAN /\ asked \in BOOLEAN
                /\ note \in BOOLEAN /\ announced \in BOOLEAN
    BY Zenon DEF Init
  <1>3. Init => transcript \in Seq(Message)
    BY DEF Init
  <1> QED
    BY <1>1, <1>2, <1>3, ConstantsAssumption DEF Init, TypeOK

(* Every reachable state has its type.                                      *)
THEOREM TypeCorrect == Spec => []TypeOK
  BY InitType, TypeStep, PTL DEF Spec

-----------------------------------------------------------------------------
(* Tool-call groups of a transcript t. *)

(* s holds speech only: no calls and no replies.                            *)
Speaks(s) == \A i \in 1 .. Len(s) : s[i].kind \notin {"calls", "result", "cancelled"}

(* s answers the calls from number k + 1 on, in order.                      *)
RepliesFrom(s, k) == \A i \in 1 .. Len(s) : IsReply(s[i]) /\ s[i].n = k + i

(* The fields of a message of a transcript.                                 *)
LEMMA MessageFields ==
    ASSUME NEW t \in Seq(Message)
    PROVE  Len(t) \in Nat /\ \A q \in 1 .. Len(t) : t[q].n \in Nat
  <1>1. Len(t) \in Nat /\ \A q \in 1 .. Len(t) : t[q] \in Message
    OBVIOUS
  <1>2. \A m \in Message : m.n \in Nat
    BY DEF Message
  <1> QED
    BY <1>1, <1>2

(* u begins with t.                                                         *)
StartsWith(u, t) == Len(t) <= Len(u) /\ \A q \in 1 .. Len(t) : u[q] = t[q]

(* u has t as a prefix: what holds of a group inside t holds of it in u.    *)
LEMMA PrefixAnswered ==
    ASSUME NEW t \in Seq(Message), NEW u \in Seq(Message),
           StartsWith(u, t),
           NEW q \in 1 .. Len(t), NEW k \in Nat, Answered(t, q, k)
    PROVE  Answered(u, q, k)
  <1>1. Len(t) \in Nat /\ Len(u) \in Nat /\ q \in Nat
    BY MessageFields
  <1>2. q + k <= Len(t)
    BY DEF Answered
  <1>3. \A i \in 1 .. k : u[q + i] = t[q + i]
    BY <1>1, <1>2 DEF StartsWith
  <1>4. q + k <= Len(u)
    BY <1>1, <1>2 DEF StartsWith
  <1>5. ASSUME NEW i \in 1 .. k PROVE IsReply(u[q + i]) /\ u[q + i].n = i
    <2>1. IsReply(t[q + i]) /\ t[q + i].n = i
      BY DEF Answered
    <2> QED
      BY <1>3, <2>1
  <1> QED
    BY <1>4, <1>5 DEF Answered

(* Likewise for the replies inside t.                                       *)
LEMMA PrefixOwned ==
    ASSUME NEW t \in Seq(Message), NEW u \in Seq(Message),
           StartsWith(u, t),
           RepliesOwned(t), NEW q \in 1 .. Len(t), IsReply(u[q])
    PROVE  /\ u[q].n >= 1 /\ q - u[q].n >= 1
           /\ u[q - u[q].n].kind = "calls"
           /\ u[q].n <= u[q - u[q].n].n
  <1>1. Len(t) \in Nat /\ t[q].n \in Nat /\ q \in Nat
    BY MessageFields
  <1>2. u[q] = t[q] /\ IsReply(t[q])
    BY DEF StartsWith
  <1>3. /\ t[q].n >= 1 /\ q - t[q].n >= 1
        /\ t[q - t[q].n].kind = "calls" /\ t[q].n <= t[q - t[q].n].n
    BY <1>2 DEF RepliesOwned
  <1>4. u[q - t[q].n] = t[q - t[q].n]
    BY <1>1, <1>3 DEF StartsWith
  <1> QED
    BY <1>2, <1>3, <1>4

(* Speech behind answered groups leaves them answered.                      *)
LEMMA SpeechKeepsGroups ==
    ASSUME NEW t \in Seq(Message), NEW s \in Seq(Message), Speaks(s),
           GroupsAnswered(t, 0, 0), RepliesOwned(t)
    PROVE  GroupsAnswered(t \o s, 0, 0) /\ RepliesOwned(t \o s)
  <1> DEFINE u == t \o s
  <1>1. /\ u \in Seq(Message) /\ Len(u) = Len(t) + Len(s)
        /\ Len(t) \in Nat /\ Len(s) \in Nat
        /\ \A q \in 1 .. Len(t) : u[q] = t[q]
        /\ \A q \in 1 .. Len(u) : q \notin 1 .. Len(t) =>
              u[q].kind \notin {"calls", "result", "cancelled"}
    BY ConcatProperties, MessageFields DEF Speaks
  <1>a. StartsWith(u, t)
    BY <1>1 DEF StartsWith
  <1> HIDE DEF u
  <1>2. GroupsAnswered(u, 0, 0)
    <2>1. SUFFICES ASSUME NEW q \in 1 .. Len(u), u[q].kind = "calls"
                   PROVE  Answered(u, q, u[q].n)
      BY <1>1 DEF GroupsAnswered
    <2>2. q \in 1 .. Len(t) /\ u[q] = t[q]
      BY <1>1, <2>1
    <2>3. Answered(t, q, t[q].n) /\ t[q].n \in Nat
      BY <2>1, <2>2, MessageFields DEF GroupsAnswered
    <2> QED
      BY <1>1, <2>2, <2>3, <1>a, PrefixAnswered
  <1>3. RepliesOwned(u)
    <2>1. \A q \in 1 .. Len(u) : IsReply(u[q]) => q \in 1 .. Len(t)
      BY <1>1 DEF IsReply
    <2> QED
      BY <1>1, <2>1, <1>a, PrefixOwned DEF RepliesOwned
  <1> QED
    BY <1>2, <1>3 DEF u

(* A calls message opens a group that owes all its replies.                 *)
LEMMA AskOpensGroup ==
    ASSUME NEW t \in Seq(Message), NEW n \in Nat,
           GroupsAnswered(t, 0, 0), RepliesOwned(t)
    PROVE  /\ GroupsAnswered(Append(t, Calls(n)), Len(t) + 1, 0)
           /\ RepliesOwned(Append(t, Calls(n)))
  <1> DEFINE u == Append(t, Calls(n))
  <1>1. /\ u \in Seq(Message) /\ Len(u) = Len(t) + 1 /\ Len(t) \in Nat
        /\ \A q \in 1 .. Len(t) : u[q] = t[q]
        /\ u[Len(t) + 1].kind = "calls"
    BY MessageTypes, MessageFields DEF Calls, Msg
  <1>a. StartsWith(u, t)
    BY <1>1 DEF StartsWith
  <1> HIDE DEF u
  <1>2. GroupsAnswered(u, Len(t) + 1, 0)
    <2>1. SUFFICES ASSUME NEW q \in 1 .. Len(u), u[q].kind = "calls"
                   PROVE  Answered(u, q, IF q = Len(t) + 1 THEN 0 ELSE u[q].n)
      BY DEF GroupsAnswered
    <2>2. CASE q = Len(t) + 1
      BY <1>1, <2>2 DEF Answered
    <2>3. CASE q \in 1 .. Len(t)
      <3>1. Answered(t, q, t[q].n) /\ t[q].n \in Nat
        BY <1>1, <2>1, <2>3, MessageFields DEF GroupsAnswered
      <3> QED
        BY <1>1, <2>3, <3>1, <1>a, PrefixAnswered
    <2> QED
      BY <1>1, <2>2, <2>3
  <1>3. RepliesOwned(u)
    <2>1. \A q \in 1 .. Len(u) : IsReply(u[q]) => q \in 1 .. Len(t)
      BY <1>1 DEF IsReply
    <2> QED
      BY <1>1, <2>1, <1>a, PrefixOwned DEF RepliesOwned
  <1> QED
    BY <1>2, <1>3 DEF u

(* The replies k+1 .. k+Len(s) behind the open group extend it.             *)
LEMMA RepliesExtendGroup ==
    ASSUME NEW t \in Seq(Message), NEW s \in Seq(Message), NEW k \in Nat,
           NEW p \in 1 .. Len(t), p = Len(t) - k, t[p].kind = "calls",
           k + Len(s) <= t[p].n,
           RepliesFrom(s, k),
           GroupsAnswered(t, p, k), RepliesOwned(t)
    PROVE  /\ GroupsAnswered(t \o s, p, k + Len(s))
           /\ RepliesOwned(t \o s)
  <1> DEFINE u == t \o s
  <1>1. /\ u \in Seq(Message) /\ Len(u) = Len(t) + Len(s)
        /\ Len(t) \in Nat /\ Len(s) \in Nat /\ t[p].n \in Nat
        /\ \A q \in 1 .. Len(t) : u[q] = t[q]
        /\ \A q \in 1 .. Len(u) : q \notin 1 .. Len(t) =>
              IsReply(u[q]) /\ u[q].n = q - p
    BY ConcatProperties, MessageFields DEF RepliesFrom
  <1>a. StartsWith(u, t)
    BY <1>1 DEF StartsWith
  <1> HIDE DEF u
  <1>2. GroupsAnswered(u, p, k + Len(s))
    <2>1. SUFFICES ASSUME NEW q \in 1 .. Len(u), u[q].kind = "calls"
                   PROVE  Answered(u, q, IF q = p THEN k + Len(s) ELSE u[q].n)
      BY DEF GroupsAnswered
    <2>2. CASE q = p
      <3>1. Answered(t, p, k)
        BY DEF GroupsAnswered
      <3>2. \A i \in 1 .. k : IsReply(u[p + i]) /\ u[p + i].n = i
        <4>1. u \in Seq(Message)
          BY <1>1
        <4>2. Answered(u, p, k)
          BY <3>1, <4>1, <1>a, PrefixAnswered
        <4> QED
          BY <4>2 DEF Answered
      <3>3. \A i \in (k + 1) .. (k + Len(s)) :
               IsReply(u[p + i]) /\ u[p + i].n = i
        <4>1. SUFFICES ASSUME NEW i \in (k + 1) .. (k + Len(s))
                       PROVE  IsReply(u[p + i]) /\ u[p + i].n = i
          OBVIOUS
        <4>2. p + i \in 1 .. Len(u) /\ p + i \notin 1 .. Len(t)
              /\ (p + i) - p = i
          BY <1>1
        <4> QED
          BY <1>1, <4>2
      <3> DEFINE n == k + Len(s)
      <3>4. n \in Nat /\ p + n <= Len(u)
        BY <1>1
      <3>5. \A i \in 1 .. n : i \in 1 .. k \/ i \in (k + 1) .. n
        BY <1>1
      <3>6. \A i \in 1 .. n : IsReply(u[p + i]) /\ u[p + i].n = i
        BY <3>2, <3>3, <3>5, Zenon
      <3> HIDE DEF n
      <3>7. Answered(u, p, n)
        BY <3>4, <3>6 DEF Answered
      <3> QED
        BY <2>2, <3>7 DEF n
    <2>3. CASE q # p
      <3>1. q \in 1 .. Len(t)
        BY <1>1, <2>1 DEF IsReply
      <3>2. Answered(t, q, t[q].n) /\ t[q].n \in Nat
        BY <1>1, <2>1, <2>3, <3>1, MessageFields DEF GroupsAnswered
      <3> QED
        BY <1>1, <2>3, <3>1, <3>2, <1>a, PrefixAnswered
    <2> QED
      BY <2>2, <2>3
  <1>3. RepliesOwned(u)
    <2>1. SUFFICES ASSUME NEW q \in 1 .. Len(u), IsReply(u[q])
                   PROVE  /\ u[q].n >= 1 /\ q - u[q].n >= 1
                          /\ u[q - u[q].n].kind = "calls"
                          /\ u[q].n <= u[q - u[q].n].n
      BY DEF RepliesOwned
    <2>2. CASE q \in 1 .. Len(t)
      BY <1>1, <2>1, <2>2, <1>a, PrefixOwned
    <2>3. CASE q \notin 1 .. Len(t)
      <3>1. u[q].n = q - p /\ u[p] = t[p]
        BY <1>1, <2>3
      <3>2. q - u[q].n = p /\ q - p >= 1 /\ q - p <= t[p].n
        BY <1>1, <2>3, <3>1
      <3>3. u[q].n >= 1 /\ p >= 1
        BY <1>1, <2>3, <3>1
      <3> QED
        BY <3>1, <3>2, <3>3
    <2> QED
      BY <2>2, <2>3
  <1> QED
    BY <1>2, <1>3 DEF u

(* A group that has all its replies is no exception any more.               *)
LEMMA FullGroupCloses ==
    ASSUME NEW t \in Seq(Message), NEW p \in 1 .. Len(t),
           GroupsAnswered(t, p, t[p].n)
    PROVE  GroupsAnswered(t, 0, 0)
  <1>1. SUFFICES ASSUME NEW q \in 1 .. Len(t), t[q].kind = "calls"
                 PROVE  Answered(t, q, t[q].n)
    BY DEF GroupsAnswered
  <1> QED
    BY <1>1 DEF GroupsAnswered
-----------------------------------------------------------------------------
(* The control part of the inductive invariant. *)

(* begin_round leaves a stream exactly when it leaves STREAMING behind.     *)
LEMMA BeginRoundControl ==
    ASSUME NEW t, NEW r, BeginRound(t, r)
    PROVE  /\ \/ state' = "STREAMING" /\ stream' = "open" /\ asked' = TRUE
              \/ state' = "ERROR" /\ stream' = "none"
           /\ asked' = asked \/ asked' = TRUE
           /\ idx' = 0 /\ ~announced'
           /\ stream' = "open" => images' = 0
  BY DEF BeginRound, TooManyRounds, ComposeRound, RoundReset

(* The control part of the inductive invariant.                             *)
ControlInv == StateOwnsResources /\ EnvBeforeRequests /\ FreshRound

(* Every step keeps the resources with the state and the git stage before   *)
(* the first request.                                                       *)
LEMMA ControlStep ==
    ASSUME TypeOK, ControlInv, [Next]_vars
    PROVE  ControlInv'
  <1> USE DEF ControlInv, StateOwnsResources, EnvBeforeRequests, FreshRound
  <1>0. /\ exec \in BOOLEAN /\ awaitingEnv \in BOOLEAN /\ asked \in BOOLEAN
        /\ announced \in BOOLEAN /\ stream \in {"none", "open", "tail"}
        /\ state \in {"IDLE", "STREAMING", "RUNNING_TOOL", "DONE", "ERROR"}
        /\ envJob \in {"none", "live", "exited", "gone"}
    BY DEF TypeOK
  <1>1. CASE EnvWorld
    BY <1>0, <1>1 DEF EnvWorld, EnvExit, EnvGone, EnvExpire, roundVars
  <1>2. CASE NoteMentions
    BY <1>0, <1>2 DEF NoteMentions, envVars, roundVars
  <1>3. CASE StartRefused
    BY <1>0, <1>3 DEF StartRefused, envVars, roundVars, Busy
  <1>4. CASE Start
    <2>0. /\ state \notin {"STREAMING", "RUNNING_TOOL"} /\ exec' = exec
          /\ ~exec /\ ~awaitingEnv /\ stream = "none"
      BY <1>0, <1>4 DEF Start, Busy
    <2>1. CASE \E t : BeginRound(t, 0) /\ envJob = "none"
                     /\ UNCHANGED <<envVars, sysGit>>
      <3>1. PICK t : BeginRound(t, 0)
        BY <2>1
      <3>2. envJob' = "none" /\ awaitingEnv' = awaitingEnv
        BY <2>1 DEF envVars
      <3> QED
        BY <1>0, <2>0, <3>1, <3>2, BeginRoundControl
    <2>2. CASE \E t : EnvFinish(t, 0)
      BY <1>0, <2>0, <2>2, BeginRoundControl DEF EnvFinish, EnvResolve
    <2>3. CASE /\ EnvPending
               /\ awaitingEnv' = TRUE /\ state' = "STREAMING"
               /\ UNCHANGED <<stream, envJob, envLate, git, sysGit, asked,
                              roundVars>>
      BY <1>0, <2>0, <2>3 DEF EnvPending, roundVars
    <2> QED
      BY <1>4, <2>1, <2>2, <2>3 DEF Start
  <1>5. CASE StepEnv
    <2>1. BeginRound(transcript, round) /\ EnvResolve /\ exec' = exec
          /\ awaitingEnv
      BY <1>5 DEF StepEnv, EnvFinish
    <2> QED
      BY <1>0, <2>1, BeginRoundControl DEF EnvResolve
  <1>6. CASE ContentComplete
    BY <1>0, <1>6 DEF ContentComplete, envVars
  <1>7. CASE StepTimeout
    BY <1>0, <1>7 DEF StepTimeout, envVars, roundVars
  <1>8. CASE Reply
    BY <1>0, <1>8 DEF Reply, FailedRound, AnswerRound, CallRound, StreamOver,
                      envVars
  <1>9. CASE Tool
    <2>1. CASE ToolBegin
      BY <1>0, <2>1 DEF ToolBegin, envVars
    <2>2. CASE ToolRun
      BY <1>0, <2>2 DEF ToolRun, envVars
    <2>3. CASE ToolEnd
      BY <1>0, <2>3 DEF ToolEnd, envVars
    <2>4. CASE ToolsDone
      <3>1. PICK t : BeginRound(t, round)
        BY <2>4 DEF ToolsDone
      <3>2. /\ exec' = exec /\ ~exec /\ ~awaitingEnv /\ UNCHANGED envVars
            /\ envJob = "none"
        BY <1>0, <2>4 DEF ToolsDone, TypeOK
      <3>3. envJob' = "none" /\ ~awaitingEnv'
        BY <3>2 DEF envVars
      <3> QED
        BY <1>0, <3>1, <3>2, <3>3, BeginRoundControl
    <2> QED
      BY <1>9, <2>1, <2>2, <2>3, <2>4 DEF Tool
  <1>10. CASE Cancel
    BY <1>0, <1>10 DEF Cancel, CancelEnv, CancelRound, envVars, roundVars, Busy
  <1>11. CASE UNCHANGED vars
    BY <1>11 DEF vars
  <1> QED
    BY <1>1, <1>2, <1>3, <1>4, <1>5, <1>6, <1>7, <1>8, <1>9, <1>10, <1>11
    DEF Next
-----------------------------------------------------------------------------
(* The transcript part of the inductive invariant. *)

(* The part about the groups of tool calls.                                 *)
GroupInv == GroupAtHand /\ ToolGroupsComplete

(* Outside the tool phase no group is an exception.                         *)
LEMMA NoException ==
    ASSUME NEW t, NEW k, NEW j
    PROVE  GroupsAnswered(t, 0, k) <=> GroupsAnswered(t, 0, j)
  BY DEF GroupsAnswered

(* A step that leaves the tool phase, or stays out of it, with answered     *)
(* groups.                                                                  *)
LEMMA QuietStep ==
    ASSUME state' # "RUNNING_TOOL", GroupsAnswered(transcript', 0, 0),
           RepliesOwned(transcript')
    PROVE  GroupInv'
  BY NoException DEF GroupInv, GroupAtHand, ToolGroupsComplete,
                     OpenGroup

(* With no tool running every group of calls has been answered in full.     *)
LEMMA QuietState ==
    ASSUME GroupInv, state # "RUNNING_TOOL"
    PROVE  GroupsAnswered(transcript, 0, 0) /\ RepliesOwned(transcript)
  BY NoException DEF GroupInv, ToolGroupsComplete, OpenGroup

(* The messages a turn speaks without a model.                              *)
LEMMA SpeechOfAgent ==
    /\ Speaks(<<User>>) /\ Speaks(<<Note>>) /\ Speaks(<<>>)
    /\ Speaks(<<Answer>>)
    /\ \A n \in Nat : Speaks(<<Images(n)>>)
    /\ \A r \in UserReminders : Speaks(r)
  <1>1. Speaks(<<User>>) /\ Speaks(<<Note>>) /\ Speaks(<<>>)
        /\ Speaks(<<Answer>>) /\ Speaks(<<Reminder>>)
    BY DEF Speaks, User, Note, Answer, Reminder, Msg
  <1>2. \A n \in Nat : Speaks(<<Images(n)>>)
    BY DEF Speaks, Images, Msg
  <1>3. \A r \in UserReminders : r = <<>> \/ r = <<Reminder>>
    BY DEF UserReminders
  <1> QED
    BY <1>1, <1>2, <1>3

(* begin_round keeps answered groups answered.                              *)
LEMMA BeginRoundGroups ==
    ASSUME NEW t \in Seq(Message), NEW r, BeginRound(t, r),
           GroupsAnswered(t, 0, 0), RepliesOwned(t)
    PROVE  GroupInv'
  <1>1. state' # "RUNNING_TOOL"
    BY BeginRoundControl
  <1>2. GroupsAnswered(transcript', 0, 0) /\ RepliesOwned(transcript')
    <2>1. CASE TooManyRounds(t, r)
      BY <2>1 DEF TooManyRounds
    <2>2. CASE ComposeRound(t, r)
      <3>1. PICK reminder \in UserReminders : transcript' = t \o reminder
        BY <2>2 DEF ComposeRound
      <3> QED
        BY <3>1, ReminderType, SpeechOfAgent, SpeechKeepsGroups
    <2> QED
      BY <2>1, <2>2 DEF BeginRound
  <1> QED
    BY <1>1, <1>2, QuietStep

(* So does what a turn starts with.                                         *)
LEMMA StartGroups ==
    ASSUME TypeOK, GroupsAnswered(transcript, 0, 0), RepliesOwned(transcript),
           NEW reminder \in UserReminders
    PROVE  LET said == transcript \o <<User>>
                       \o (IF note THEN <<Note>> ELSE <<>>) \o reminder
           IN  GroupsAnswered(said, 0, 0) /\ RepliesOwned(said)
  <1> DEFINE n == IF note THEN <<Note>> ELSE <<>>
             t1 == transcript \o <<User>>
             t2 == t1 \o n
  <1>1. transcript \in Seq(Message) /\ <<User>> \in Seq(Message)
        /\ n \in Seq(Message) /\ Speaks(n)
    BY MessageTypes, SpeechOfAgent DEF TypeOK
  <1> HIDE DEF n
  <1>2. t1 \in Seq(Message) /\ t2 \in Seq(Message)
    BY <1>1, ConcatProperties
  <1>3. GroupsAnswered(t1, 0, 0) /\ RepliesOwned(t1)
    BY <1>1, SpeechOfAgent, SpeechKeepsGroups
  <1> HIDE DEF t1
  <1>4. GroupsAnswered(t2, 0, 0) /\ RepliesOwned(t2)
    BY <1>1, <1>2, <1>3, SpeechKeepsGroups
  <1> HIDE DEF t2
  <1>5. GroupsAnswered(t2 \o reminder, 0, 0) /\ RepliesOwned(t2 \o reminder)
    BY <1>2, <1>4, ReminderType, SpeechOfAgent, SpeechKeepsGroups
  <1> QED
    BY <1>5 DEF t2, t1, n

(* One more reply, or all that are missing, behind the group at hand.       *)
LEMMA ToolPhaseGroups ==
    ASSUME TypeOK, GroupInv, state = "RUNNING_TOOL",
           NEW s \in Seq(Message), idx + Len(s) <= calls,
           RepliesFrom(s, idx)
    PROVE  /\ GroupsAnswered(transcript \o s, OpenGroup, idx + Len(s))
           /\ RepliesOwned(transcript \o s)
           /\ OpenGroup \in 1 .. Len(transcript)
           /\ OpenGroup = Len(transcript) - idx
           /\ transcript[OpenGroup].n = calls
  <1>1. /\ transcript \in Seq(Message) /\ idx \in Nat /\ calls \in Nat
        /\ Len(transcript) \in Nat
    BY DEF TypeOK
  <1>2. /\ OpenGroup = Len(transcript) - idx
        /\ OpenGroup \in 1 .. Len(transcript)
    BY <1>1 DEF GroupInv, GroupAtHand, OpenGroup
  <1>3. transcript[OpenGroup].kind = "calls" /\ transcript[OpenGroup].n = calls
    BY DEF GroupInv, GroupAtHand, Calls, Msg
  <1>4. GroupsAnswered(transcript, OpenGroup, idx) /\ RepliesOwned(transcript)
    BY DEF GroupInv, ToolGroupsComplete
  <1> HIDE DEF OpenGroup
  <1> QED
    BY <1>1, <1>2, <1>3, <1>4, RepliesExtendGroup

(* The tool phase over: all calls have their replies.                       *)
LEMMA ToolPhaseOver ==
    ASSUME TypeOK, GroupInv, state = "RUNNING_TOOL", idx >= calls
    PROVE  GroupsAnswered(transcript, 0, 0) /\ RepliesOwned(transcript)
  <1>1. /\ OpenGroup \in 1 .. Len(transcript) /\ idx = calls
        /\ transcript[OpenGroup].n = calls
    BY DEF TypeOK, GroupInv, GroupAtHand, OpenGroup, Calls, Msg
  <1>2. GroupsAnswered(transcript, OpenGroup, calls) /\ RepliesOwned(transcript)
    BY <1>1 DEF GroupInv, ToolGroupsComplete
  <1> HIDE DEF OpenGroup
  <1> QED
    BY <1>1, <1>2, FullGroupCloses DEF TypeOK

(* finish_tool_call followed by next_tool keeps the group at hand.          *)
LEMMA FinishToolGroups ==
    ASSUME TypeOK, GroupInv, state = "RUNNING_TOOL", idx < calls,
           FinishToolCall, idx' = idx + 1, calls' = calls,
           state' = "RUNNING_TOOL"
    PROVE  GroupInv'
  <1>1. PICK img \in BOOLEAN :
          transcript' = Append(transcript, Result(idx + 1, img))
    BY ConstantsAssumption DEF FinishToolCall
  <1> DEFINE s == <<Result(idx + 1, img)>>
  <1>2. /\ transcript \in Seq(Message) /\ idx \in Nat /\ calls \in Nat
        /\ Len(transcript) \in Nat
    BY DEF TypeOK
  <1>3. /\ s \in Seq(Message) /\ Len(s) = 1
        /\ RepliesFrom(s, idx)
    BY <1>2, MessageTypes DEF Result, Msg, IsReply, RepliesFrom
  <1>4. transcript' = transcript \o s
    BY <1>1, <1>2, <1>3, MessageTypes
  <1> HIDE DEF s
  <1>5. /\ GroupsAnswered(transcript \o s, OpenGroup, idx + Len(s))
        /\ RepliesOwned(transcript \o s)
        /\ OpenGroup \in 1 .. Len(transcript)
        /\ OpenGroup = Len(transcript) - idx
    <2>1. idx + Len(s) <= calls /\ s \in Seq(Message) /\ RepliesFrom(s, idx)
      BY <1>2, <1>3
    <2> QED
      BY <2>1, ToolPhaseGroups
  <1>6. /\ Len(transcript') = Len(transcript) + 1
        /\ \A q \in 1 .. Len(transcript) : transcript'[q] = transcript[q]
    BY <1>1, <1>2
  <1>7. OpenGroup' = OpenGroup
    BY <1>2, <1>6 DEF OpenGroup
  <1>8. GroupAtHand'
    BY <1>2, <1>5, <1>6, <1>7 DEF GroupInv, GroupAtHand
  <1>9. ToolGroupsComplete'
    BY <1>3, <1>4, <1>5, <1>7 DEF ToolGroupsComplete
  <1> QED
    BY <1>8, <1>9 DEF GroupInv

(* Every step keeps the tool-call groups of the transcript.                 *)
LEMMA GroupStep ==
    ASSUME TypeOK, ControlInv, GroupInv, [Next]_vars
    PROVE  GroupInv'
  <1>0. transcript \in Seq(Message) /\ Len(transcript) \in Nat
    BY DEF TypeOK
  <1>1. ASSUME UNCHANGED <<state, calls, idx, transcript>>
        PROVE  GroupInv'
    BY <1>1 DEF GroupInv, GroupAtHand, ToolGroupsComplete,
                OpenGroup
  <1>2. ASSUME state # "RUNNING_TOOL", state' # "RUNNING_TOOL",
               transcript' = transcript
        PROVE  GroupInv'
    BY <1>2, QuietState, QuietStep
  <1>3. CASE EnvWorld \/ NoteMentions \/ UNCHANGED vars
    BY <1>1, <1>3 DEF EnvWorld, NoteMentions, roundVars, vars
  <1>4. CASE StartRefused \/ ContentComplete \/ StepTimeout \/ CancelEnv
    BY <1>2, <1>4 DEF StartRefused, ContentComplete, StepTimeout, CancelEnv,
                      Busy, ControlInv, StateOwnsResources
  <1>5. CASE Start
    <2>0. state # "RUNNING_TOOL"
      BY <1>5 DEF Start, Busy
    <2>1. PICK reminder \in UserReminders :
            LET said == transcript \o <<User>>
                        \o (IF note THEN <<Note>> ELSE <<>>) \o reminder
            IN \/ BeginRound(said, 0)
               \/ state' = "STREAMING" /\ transcript' = said
      BY <1>5 DEF Start, EnvFinish
    <2> DEFINE said == transcript \o <<User>>
                       \o (IF note THEN <<Note>> ELSE <<>>) \o reminder
    <2>2. said \in Seq(Message)
      BY StartSaysMessages
    <2>3. GroupsAnswered(said, 0, 0) /\ RepliesOwned(said)
      BY <2>0, QuietState, StartGroups
    <2>4. BeginRound(said, 0) \/ (state' = "STREAMING" /\ transcript' = said)
      BY <2>1
    <2> HIDE DEF said
    <2> QED
      BY <2>2, <2>3, <2>4, BeginRoundGroups, QuietStep
  <1>6. CASE StepEnv
    <2>1. state # "RUNNING_TOOL" /\ BeginRound(transcript, round)
      BY <1>6 DEF StepEnv, EnvFinish, ControlInv, StateOwnsResources
    <2> QED
      BY <1>0, <2>1, QuietState, BeginRoundGroups
  <1>7. CASE FailedRound
    BY <1>2, <1>7 DEF FailedRound, StreamOver
  <1>8. CASE AnswerRound
    <2>1. /\ state # "RUNNING_TOOL" /\ state' # "RUNNING_TOOL"
          /\ transcript' = transcript \o <<Answer>>
          /\ <<Answer>> \in Seq(Message)
      BY <1>0, <1>8, MessageTypes DEF AnswerRound, StreamOver
    <2> QED
      BY <1>0, <2>1, QuietState, SpeechOfAgent, SpeechKeepsGroups, QuietStep
  <1>9. CASE CallRound
    <2>1. PICK n \in 1 .. MaxCalls :
            calls' = n /\ transcript' = Append(transcript, Calls(n))
      BY <1>9 DEF CallRound
    <2>2. n \in Nat /\ n > 0 /\ Calls(n) \in Message
      BY MessageTypes, ConstantsAssumption
    <2>3. state # "RUNNING_TOOL" /\ state' = "RUNNING_TOOL" /\ idx' = 0
      BY <1>9 DEF CallRound, StreamOver, ControlInv, FreshRound
    <2>4. /\ GroupsAnswered(transcript', Len(transcript) + 1, 0)
          /\ RepliesOwned(transcript')
      BY <1>0, <2>1, <2>2, <2>3, QuietState, AskOpensGroup
    <2>5. /\ Len(transcript') = Len(transcript) + 1
          /\ transcript'[Len(transcript) + 1] = Calls(n)
      BY <1>0, <2>1, <2>2
    <2>6. OpenGroup' = Len(transcript) + 1
      BY <1>0, <2>3, <2>5 DEF OpenGroup
    <2>7. GroupAtHand'
      BY <1>0, <2>1, <2>2, <2>3, <2>5, <2>6 DEF GroupAtHand
    <2> QED
      BY <2>3, <2>4, <2>6, <2>7 DEF GroupInv, ToolGroupsComplete
  <1>10. CASE ToolBegin
    BY <1>1, <1>10 DEF ToolBegin
  <1>11. CASE ToolRun
    BY <1>11, FinishToolGroups DEF ToolRun, NextTool
  <1>12. CASE ToolEnd
    BY <1>12, FinishToolGroups DEF ToolEnd, NextTool
  <1>13. CASE ToolsDone
    <2> DEFINE s == IF images > 0 THEN <<Images(images)>> ELSE <<>>
    <2>1. s \in Seq(Message) /\ Speaks(s)
      BY MessageTypes, SpeechOfAgent DEF TypeOK
    <2>2. BeginRound(transcript \o s, round)
      BY <1>13 DEF ToolsDone
    <2>3. GroupsAnswered(transcript, 0, 0) /\ RepliesOwned(transcript)
      BY <1>13, ToolPhaseOver DEF ToolsDone
    <2> HIDE DEF s
    <2>4. /\ transcript \o s \in Seq(Message)
          /\ GroupsAnswered(transcript \o s, 0, 0)
          /\ RepliesOwned(transcript \o s)
      BY <1>0, <2>1, <2>3, SpeechKeepsGroups, ConcatProperties
    <2> QED
      BY <2>2, <2>4, BeginRoundGroups
  <1>14. CASE CancelRound
    <2>1. state' # "RUNNING_TOOL"
      BY <1>14 DEF CancelRound
    <2>2. CASE state = "RUNNING_TOOL"
      <3> DEFINE s == Cancelled(idx, calls)
      <3>1. idx \in Nat /\ calls \in Nat /\ idx <= calls
        BY <2>2 DEF TypeOK, GroupInv, GroupAtHand
      <3>2. /\ s \in Seq(Message) /\ Len(s) = calls - idx
            /\ RepliesFrom(s, idx)
        <4>1. s \in Seq(Message) /\ Len(s) = calls - idx
          BY <3>1, CancelledType
        <4>2. \A j \in 1 .. (calls - idx) : s[j] = Msg("cancelled", idx + j, FALSE)
          BY <3>1, CancelledType
        <4> HIDE DEF s
        <4> QED
          BY <4>1, <4>2 DEF RepliesFrom, IsReply, Msg
      <3>3. transcript' = transcript \o s
        BY <1>14, <2>2 DEF CancelRound
      <3> HIDE DEF s
      <3>4. /\ GroupsAnswered(transcript \o s, OpenGroup, idx + Len(s))
            /\ RepliesOwned(transcript \o s)
            /\ OpenGroup \in 1 .. Len(transcript)
            /\ transcript[OpenGroup].n = calls
        BY <2>2, <3>1, <3>2, ToolPhaseGroups
      <3>5. /\ transcript' \in Seq(Message)
            /\ OpenGroup \in 1 .. Len(transcript')
            /\ transcript'[OpenGroup] = transcript[OpenGroup]
        BY <1>0, <3>2, <3>3, <3>4, ConcatProperties
      <3>6. GroupsAnswered(transcript', OpenGroup, transcript'[OpenGroup].n)
        BY <3>1, <3>2, <3>3, <3>4, <3>5
      <3>7. GroupsAnswered(transcript', 0, 0)
        BY <3>5, <3>6, FullGroupCloses
      <3> QED
        BY <2>1, <3>3, <3>4, <3>7, QuietStep
    <2>3. CASE state # "RUNNING_TOOL"
      BY <1>2, <1>14, <2>1, <2>3 DEF CancelRound
    <2> QED
      BY <2>2, <2>3
  <1> QED
    BY <1>3, <1>4, <1>5, <1>6, <1>7, <1>8, <1>9, <1>10, <1>11, <1>12, <1>13,
       <1>14
    DEF Next, Reply, Tool, Cancel
-----------------------------------------------------------------------------
(* The safety theorems. *)

(* IInv is an invariant.                                                    *)
THEOREM InductiveInvariant == Spec => []IInv
  <1>1. Init => IInv
    <2>1. Init => TypeOK
      BY InitType
    <2>2. Init => ControlInv
      BY Zenon DEF Init, ControlInv, StateOwnsResources, EnvBeforeRequests,
                   FreshRound
    <2>3. Init => GroupInv
      BY DEF Init, GroupInv, GroupAtHand, ToolGroupsComplete,
             GroupsAnswered, RepliesOwned
    <2> QED
      BY <2>1, <2>2, <2>3 DEF IInv, ControlInv, GroupInv
  <1>2. IInv /\ [Next]_vars => IInv'
    BY TypeStep, ControlStep, GroupStep DEF IInv, ControlInv, GroupInv
  <1> QED
    BY <1>1, <1>2, PTL DEF Spec

(* In every reachable state every tool_calls message has exactly its        *)
(* replies behind it, whatever was cancelled, timed out or failed.          *)
THEOREM ToolGroupsSafe == Spec => [](ToolGroupsComplete)
  <1>1. IInv => ToolGroupsComplete
    BY DEF IInv
  <1> QED
    BY <1>1, InductiveInvariant, PTL

(* The open stream, the git stage and a live tool execution are owned by    *)
(* the state they belong to.                                                *)
THEOREM ResourcesSafe == Spec => []StateOwnsResources
  <1>1. IInv => StateOwnsResources
    BY DEF IInv
  <1> QED
    BY <1>1, InductiveInvariant, PTL

(* No step after the first request changes whether the session's system     *)
(* prompt holds the git section.                                            *)
THEOREM PromptSafe == Spec => PromptSettled
  <1>1. ASSUME IInv, Next, asked PROVE sysGit' = sysGit
    <2>1. envJob = "none" /\ ~awaitingEnv
      BY <1>1 DEF IInv, EnvBeforeRequests, StateOwnsResources
    <2>2. CASE Start
      BY <2>1, <2>2 DEF Start, EnvPending
    <2>3. CASE ~Start
      BY <1>1, <2>1, <2>3
      DEF Next, EnvWorld, NoteMentions, StartRefused, StepEnv, ContentComplete,
          StepTimeout, Reply, FailedRound, AnswerRound, CallRound, Tool,
          ToolBegin, ToolRun, ToolEnd, ToolsDone, Cancel, CancelEnv,
          CancelRound
    <2> QED
      BY <2>2, <2>3
  <1>2. IInv /\ [Next]_vars => [asked => sysGit' = sysGit]_vars
    BY <1>1
  <1> QED
    BY <1>2, InductiveInvariant, PTL DEF Spec, PromptSettled

-----------------------------------------------------------------------------
(* Refinement. *)

(* Messages as ToolProtocol names them.                                     *)
LEMMA ProtocolMessages ==
    /\ \A n : Protocol!Calls(n) = Calls(n)
    /\ \A m : Protocol!IsSpeech(m) <=> m.kind \notin {"calls", "result", "cancelled"}
    /\ \A m, i : Protocol!IsReply(m, i) <=> IsReply(m) /\ m.n = i
  BY DEF Protocol!Calls, Protocol!IsSpeech, Protocol!IsReply, Calls, Msg, IsReply

(* Speech behind the transcript is a step of the protocol once no group is  *)
(* short of replies.                                                        *)
LEMMA SpeechIsSpeak ==
    ASSUME TypeOK, NEW s \in Seq(Message), Speaks(s), transcript' = transcript \o s,
           state = "RUNNING_TOOL" => idx = calls, state' # "RUNNING_TOOL"
    PROVE  Protocol!Speak
  <1>1. /\ transcript \in Seq(Message) /\ Len(transcript) \in Nat
        /\ Len(s) \in Nat
        /\ Len(transcript') = Len(transcript) + Len(s)
        /\ \A q \in 1 .. Len(transcript) : transcript'[q] = transcript[q]
        /\ \A q \in (Len(transcript) + 1) .. Len(transcript') :
              transcript'[q].kind \notin {"calls", "result", "cancelled"}
    BY ConcatProperties DEF TypeOK, Speaks
  <1>2. Protocol!Extends
    BY <1>1 DEF Protocol!Extends
  <1>3. \A i \in Protocol!Added : Protocol!IsSpeech(transcript'[i])
    BY <1>1, ProtocolMessages DEF Protocol!Added
  <1> QED
    BY <1>2, <1>3 DEF Protocol!Speak

(* A round's opening says no more than its reminder.                        *)
LEMMA BeginRoundSpeaks ==
    ASSUME NEW t \in Seq(Message), NEW r, BeginRound(t, r)
    PROVE  /\ state' # "RUNNING_TOOL"
           /\ \E s \in Seq(Message) : Speaks(s) /\ transcript' = t \o s
  <1>1. CASE TooManyRounds(t, r)
    <2>1. transcript' = t \o <<>> /\ <<>> \in Seq(Message)
      BY <1>1 DEF TooManyRounds
    <2> QED
      BY <1>1, <2>1, SpeechOfAgent DEF TooManyRounds
  <1>2. CASE ComposeRound(t, r)
    BY <1>2, ReminderType, SpeechOfAgent DEF ComposeRound
  <1> QED
    BY <1>1, <1>2 DEF BeginRound

(* Two runs of speech are one.                                              *)
LEMMA SpeechJoins ==
    ASSUME NEW t \in Seq(Message), NEW a \in Seq(Message), NEW b \in Seq(Message),
           Speaks(a), Speaks(b)
    PROVE  /\ a \o b \in Seq(Message) /\ Speaks(a \o b)
           /\ (t \o a) \o b = t \o (a \o b)
  <1>1. a \o b \in Seq(Message)
    BY ConcatProperties
  <1>2. Speaks(a \o b)
    BY ConcatProperties DEF Speaks
  <1>3. (t \o a) \o b = t \o (a \o b)
    OBVIOUS
  <1> QED
    BY <1>1, <1>2, <1>3

(* A tool's reply is the next answer of the open group.                     *)
LEMMA ReplyIsAnswer ==
    ASSUME TypeOK, ~Busy \/ stream = "none", state = "RUNNING_TOOL", idx < calls,
           FinishToolCall, idx' = idx + 1,
           UNCHANGED <<state, stream, calls>>
    PROVE  Protocol!Answer
  <1>1. PICK img \in BOOLEAN :
          transcript' = Append(transcript, Result(idx + 1, img))
    BY ConstantsAssumption DEF FinishToolCall
  <1>2. /\ transcript \in Seq(Message) /\ Len(transcript) \in Nat
        /\ idx \in Nat /\ calls \in Nat /\ stream = "none"
    BY DEF TypeOK, Busy
  <1>3. /\ Len(transcript') = Len(transcript) + 1
        /\ \A q \in 1 .. Len(transcript) : transcript'[q] = transcript[q]
        /\ transcript'[Len(transcript) + 1] = Result(idx + 1, img)
    BY <1>1, <1>2
  <1>4. Protocol!Extends
    BY <1>2, <1>3 DEF Protocol!Extends
  <1>5. \A i \in Protocol!Added : i = Len(transcript) + 1
    BY <1>2, <1>3 DEF Protocol!Added
  <1>6. Protocol!IsReply(transcript'[Len(transcript) + 1], idx + 1)
    BY <1>2, <1>3 DEF Protocol!IsReply, Result, Msg
  <1>7. \A i \in Protocol!Added :
          Protocol!IsReply(transcript'[i], idx + i - Len(transcript))
    BY <1>2, <1>5, <1>6
  <1> QED
    BY <1>2, <1>3, <1>4, <1>7 DEF Protocol!Answer

(* A cancel answers what the open group still owes, and closes it.          *)
LEMMA CancelIsAnswer ==
    ASSUME TypeOK, stream = "none", state = "RUNNING_TOOL", idx < calls, CancelRound
    PROVE  Protocol!Answer
  <1> DEFINE s == Cancelled(idx, calls)
  <1>1. /\ transcript \in Seq(Message) /\ Len(transcript) \in Nat
        /\ idx \in Nat /\ calls \in Nat
    BY DEF TypeOK
  <1>2. /\ s \in Seq(Message) /\ Len(s) = calls - idx
        /\ \A j \in 1 .. (calls - idx) : s[j] = Msg("cancelled", idx + j, FALSE)
    <2>1. s \in Seq(Message)
      BY <1>1, CancelledType
    <2>2. idx <= calls
      BY <1>1
    <2>3. Len(s) = calls - idx
      BY <1>1, <2>2, CancelledType
    <2>4. \A j \in 1 .. (calls - idx) : s[j] = Msg("cancelled", idx + j, FALSE)
      BY <1>1, <2>2, <2>3, CancelledType
    <2> QED
      BY <2>1, <2>3, <2>4
  <1>3. transcript' = transcript \o s /\ state' = "IDLE" /\ stream' = "none"
    BY DEF CancelRound
  <1> HIDE DEF s
  <1>4. /\ Len(transcript') = Len(transcript) + (calls - idx)
        /\ \A q \in 1 .. Len(transcript) : transcript'[q] = transcript[q]
        /\ \A j \in 1 .. (calls - idx) :
              transcript'[Len(transcript) + j] = Msg("cancelled", idx + j, FALSE)
    <2>1. Len(s) \in Nat
      BY <1>2
    <2>2. /\ Len(transcript \o s) = Len(transcript) + Len(s)
          /\ \A q \in 1 .. Len(transcript) : (transcript \o s)[q] = transcript[q]
          /\ \A j \in 1 .. Len(s) : (transcript \o s)[Len(transcript) + j] = s[j]
      BY <1>1, <1>2, <2>1, Behind
    <2> QED
      BY <1>2, <1>3, <2>2
  <1>5. Protocol!Extends
    BY <1>1, <1>4 DEF Protocol!Extends
  <1>6. ASSUME NEW i \in Protocol!Added
        PROVE  Protocol!IsReply(transcript'[i], idx + i - Len(transcript))
    <2> DEFINE j == i - Len(transcript)
    <2>1. j \in 1 .. (calls - idx) /\ i = Len(transcript) + j
          /\ idx + i - Len(transcript) = idx + j
      BY <1>1, <1>4 DEF Protocol!Added
    <2> HIDE DEF j
    <2>2. transcript'[i] = Msg("cancelled", idx + j, FALSE)
      BY <1>4, <2>1
    <2> QED
      BY <2>1, <2>2 DEF Protocol!IsReply, Msg
  <1>7. Len(transcript') - Len(transcript) = calls - idx
        /\ Len(transcript') - Len(transcript) \in 1 .. (calls - idx)
    BY <1>1, <1>4
  <1> QED
    BY <1>3, <1>5, <1>6, <1>7 DEF Protocol!Answer

(* Every step of the agent is a step of the protocol, or leaves it as it is. *)
LEMMA RefinementStep ==
    ASSUME IInv, [Next]_vars
    PROVE  [Protocol!Next]_(Protocol!vars)
  <1>0. /\ TypeOK /\ StateOwnsResources /\ FreshRound /\ GroupAtHand
        /\ transcript \in Seq(Message) /\ idx \in Nat /\ calls \in Nat /\ images \in Nat
    BY DEF IInv, TypeOK
  <1>a. ASSUME UNCHANGED <<state, stream, calls, idx, transcript>>
        PROVE  UNCHANGED Protocol!vars
    BY <1>a DEF Protocol!vars
  <1>b. ASSUME state # "RUNNING_TOOL", state' # "RUNNING_TOOL", transcript' = transcript
        PROVE  Protocol!Speak
    <2>1. transcript' = transcript \o <<>> /\ <<>> \in Seq(Message)
      BY <1>0, <1>b
    <2> QED
      BY <1>0, <1>b, <2>1, SpeechOfAgent, SpeechIsSpeak
  <1>1. CASE EnvWorld \/ NoteMentions \/ ToolBegin \/ UNCHANGED vars
    BY <1>a, <1>1 DEF EnvWorld, NoteMentions, ToolBegin, roundVars, vars
  <1>2. CASE StartRefused \/ ContentComplete \/ StepTimeout \/ FailedRound \/ CancelEnv
    <2>1. /\ state # "RUNNING_TOOL" /\ state' # "RUNNING_TOOL"
          /\ transcript' = transcript
      BY <1>0, <1>2 DEF StartRefused, ContentComplete, StepTimeout, FailedRound,
         StreamOver, CancelEnv, Busy, StateOwnsResources
    <2> QED
      BY <1>b, <2>1 DEF Protocol!Next
  <1>3. CASE Start
    <2>1. PICK reminder \in UserReminders :
            LET said == transcript \o <<User>>
                        \o (IF note THEN <<Note>> ELSE <<>>) \o reminder
            IN \/ BeginRound(said, 0)
               \/ state' = "STREAMING" /\ transcript' = said
      BY <1>3 DEF Start, EnvFinish
    <2> DEFINE n == IF note THEN <<Note>> ELSE <<>>
               said == transcript \o <<User>> \o n \o reminder
    <2>2. /\ <<User>> \in Seq(Message) /\ n \in Seq(Message)
          /\ reminder \in Seq(Message)
          /\ Speaks(<<User>>) /\ Speaks(n) /\ Speaks(reminder)
      BY MessageTypes, ReminderType, SpeechOfAgent
    <2> HIDE DEF n
    <2>3. /\ <<User>> \o n \in Seq(Message) /\ Speaks(<<User>> \o n)
          /\ transcript \o <<User>> \o n = transcript \o (<<User>> \o n)
      BY <1>0, <2>2, SpeechJoins
    <2> DEFINE both  == <<User>> \o n
               begun == both \o reminder
    <2>4. both \in Seq(Message) /\ Speaks(both)
      BY <2>3
    <2> HIDE DEF both
    <2>5. /\ begun \in Seq(Message) /\ Speaks(begun)
          /\ said = transcript \o begun
      <3>1. said = (transcript \o both) \o reminder
        BY <2>3 DEF both
      <3>2. begun \in Seq(Message) /\ Speaks(begun)
            /\ (transcript \o both) \o reminder = transcript \o begun
        BY <1>0, <2>2, <2>4, SpeechJoins
      <3> QED
        BY <3>1, <3>2
    <2>6. BeginRound(said, 0) \/ (state' = "STREAMING" /\ transcript' = said)
      BY <2>1 DEF n
    <2>7. said \in Seq(Message)
      BY <1>0, <2>5, ConcatProperties
    <2> HIDE DEF said, begun
    <2>8. CASE BeginRound(said, 0)
      <3>1. PICK s \in Seq(Message) : Speaks(s) /\ transcript' = said \o s
        BY <2>7, <2>8, BeginRoundSpeaks
      <3>2. /\ begun \o s \in Seq(Message) /\ Speaks(begun \o s)
            /\ transcript' = transcript \o (begun \o s)
        BY <1>0, <2>5, <3>1, SpeechJoins
      <3>3. state # "RUNNING_TOOL" /\ state' # "RUNNING_TOOL"
        BY <1>3, <2>7, <2>8, BeginRoundSpeaks DEF Start, Busy
      <3> QED
        BY <1>0, <3>2, <3>3, SpeechIsSpeak DEF Protocol!Next
    <2>9. CASE state' = "STREAMING" /\ transcript' = said
      <3>1. state # "RUNNING_TOOL" /\ state' # "RUNNING_TOOL"
        BY <1>3, <2>9 DEF Start, Busy
      <3> QED
        BY <1>0, <2>5, <2>9, <3>1, SpeechIsSpeak DEF Protocol!Next
    <2> QED
      BY <2>6, <2>8, <2>9
  <1>4. CASE StepEnv
    <2>1. state # "RUNNING_TOOL" /\ BeginRound(transcript, round)
      BY <1>0, <1>4 DEF StepEnv, EnvFinish, StateOwnsResources
    <2> QED
      BY <1>0, <2>1, BeginRoundSpeaks, SpeechIsSpeak DEF Protocol!Next
  <1>5. CASE AnswerRound
    <2>1. /\ state # "RUNNING_TOOL" /\ state' # "RUNNING_TOOL"
          /\ transcript' = transcript \o <<Answer>>
          /\ <<Answer>> \in Seq(Message)
      BY <1>0, <1>5, MessageTypes DEF AnswerRound, StreamOver
    <2> QED
      BY <1>0, <2>1, SpeechOfAgent, SpeechIsSpeak DEF Protocol!Next
  <1>6. CASE CallRound
    <2>1. PICK n \in 1 .. MaxCalls :
            /\ StreamOver(n) /\ calls' = n
            /\ transcript' = Append(transcript, Calls(n))
      BY <1>6 DEF CallRound
    <2>2. /\ state = "STREAMING" /\ state' = "RUNNING_TOOL" /\ idx' = 0
          /\ stream # "none" /\ stream' = "none"
      BY <1>0, <1>6, <2>1 DEF CallRound, StreamOver, FreshRound
    <2>3. n > 0
      BY ConstantsAssumption
    <2>4. Protocol!Ask
      BY <2>1, <2>2, <2>3, ProtocolMessages DEF Protocol!Ask
    <2> QED
      BY <2>4 DEF Protocol!Next
  <1>7. CASE ToolRun \/ ToolEnd
    <2>1. stream = "none"
      BY <1>0, <1>7 DEF ToolRun, ToolEnd, StateOwnsResources
    <2>2. Protocol!Answer
      BY <1>0, <1>7, <2>1, ReplyIsAnswer DEF ToolRun, ToolEnd, NextTool
    <2> QED
      BY <2>2 DEF Protocol!Next
  <1>8. CASE ToolsDone
    <2> DEFINE s == IF images > 0 THEN <<Images(images)>> ELSE <<>>
    <2>1. s \in Seq(Message) /\ Speaks(s)
      BY <1>0, MessageTypes, SpeechOfAgent
    <2>2. BeginRound(transcript \o s, round) /\ idx = calls
      BY <1>0, <1>8 DEF ToolsDone, GroupAtHand
    <2> HIDE DEF s
    <2>3. PICK r \in Seq(Message) : Speaks(r) /\ transcript' = (transcript \o s) \o r
      BY <1>0, <2>1, <2>2, BeginRoundSpeaks, ConcatProperties
    <2>4. /\ s \o r \in Seq(Message) /\ Speaks(s \o r)
          /\ transcript' = transcript \o (s \o r)
      BY <1>0, <2>1, <2>3, SpeechJoins
    <2>5. state' # "RUNNING_TOOL"
      BY <1>0, <2>1, <2>2, BeginRoundSpeaks, ConcatProperties
    <2> QED
      BY <1>0, <2>2, <2>4, <2>5, SpeechIsSpeak DEF Protocol!Next
  <1>9. CASE CancelRound
    <2>1. CASE state # "RUNNING_TOOL"
      <3>1. state' # "RUNNING_TOOL" /\ transcript' = transcript
        BY <1>9, <2>1 DEF CancelRound
      <3> QED
        BY <1>b, <2>1, <3>1 DEF Protocol!Next
    <2>2. CASE state = "RUNNING_TOOL" /\ idx < calls
      <3>1. stream = "none"
        BY <1>0, <2>2 DEF StateOwnsResources
      <3> QED
        BY <1>0, <1>9, <2>2, <3>1, CancelIsAnswer DEF Protocol!Next
    <2>3. CASE state = "RUNNING_TOOL" /\ ~(idx < calls)
      <3>1. idx = calls
        BY <1>0, <2>3 DEF GroupAtHand
      <3>2. Cancelled(idx, calls) \in Seq(Message) /\ Len(Cancelled(idx, calls)) = 0
        <4>1. Cancelled(idx, calls) \in Seq(Message)
          BY <1>0, CancelledType
        <4>2. idx <= calls /\ calls - idx = 0
          BY <1>0, <3>1
        <4>3. Len(Cancelled(idx, calls)) = calls - idx
          BY <1>0, <4>2, CancelledType
        <4> QED
          BY <4>1, <4>2, <4>3
      <3>3. Cancelled(idx, calls) = <<>>
        BY <3>2
      <3>4. transcript' = transcript \o <<>> /\ <<>> \in Seq(Message)
            /\ state' # "RUNNING_TOOL"
        BY <1>9, <2>3, <3>3 DEF CancelRound
      <3> QED
        BY <1>0, <3>1, <3>4, SpeechOfAgent, SpeechIsSpeak DEF Protocol!Next
    <2> QED
      BY <2>1, <2>2, <2>3
  <1> QED
    BY <1>1, <1>2, <1>3, <1>4, <1>5, <1>6, <1>7, <1>8, <1>9
    DEF Next, Reply, Tool, Cancel

(* The agent implements the protocol: its transcript is a conversation a    *)
(* provider accepts at every request, whatever happens.                     *)
THEOREM Refinement == Spec => ImplementsProtocol
  <1>1. Init => Protocol!Init
    BY DEF Init, Protocol!Init
  <1>2. IInv /\ [Next]_vars => [Protocol!Next]_(Protocol!vars)
    BY RefinementStep
  <1> QED
    BY <1>1, <1>2, InductiveInvariant, PTL DEF Spec, ImplementsProtocol, Protocol!Spec
-----------------------------------------------------------------------------
(* The shape of a transcript t: images. *)

(* The images of a group are finitely many.                                 *)
LEMMA ImagesOfFinite ==
    ASSUME NEW t \in Seq(Message), NEW p \in 1 .. Len(t)
    PROVE  IsFiniteSet(ImagesOf(t, p)) /\ Cardinality(ImagesOf(t, p)) \in Nat
  <1>1. 1 \in Int /\ t[p].n \in Int
    BY MessageFields
  <1>2. IsFiniteSet(1 .. t[p].n)
    BY <1>1, FS_Interval
  <1>3. ImagesOf(t, p) \in SUBSET (1 .. t[p].n)
    BY DEF ImagesOf
  <1> QED
    BY <1>2, <1>3, FS_Subset, FS_CardinalityType

(* A group inside t has in t \o s the images it had, and what may follow    *)
(* it is what might follow it in t.                                         *)
LEMMA ImagesKept ==
    ASSUME NEW t \in Seq(Message), NEW s \in Seq(Message),
           NEW p \in 1 .. Len(t), p + t[p].n <= Len(t)
    PROVE  /\ (t \o s)[p] = t[p]
           /\ ImagesOf(t \o s, p) = ImagesOf(t, p)
           /\ \A m : Follows(t, p, m) => Follows(t \o s, p, m)
  <1> DEFINE r == t \o s
  <1>1. /\ Len(t) \in Nat /\ Len(s) \in Nat /\ Len(r) = Len(t) + Len(s)
        /\ \A q \in 1 .. Len(t) : r[q] = t[q]
    BY Behind
  <1> HIDE DEF r
  <1>2. t[p].n \in Nat /\ p \in Nat /\ p >= 1
    BY <1>1, MessageFields
  <1>3. \A i \in 1 .. t[p].n : p + i \in 1 .. Len(t) /\ r[p + i] = t[p + i]
    BY <1>1, <1>2
  <1>4. r[p] = t[p] /\ r[p].n = t[p].n
    BY <1>1
  <1>5. \A i \in 1 .. t[p].n : p + i <= Len(t) /\ p + i <= Len(r)
    BY <1>1, <1>2
  <1>6. ImagesOf(r, p) = ImagesOf(t, p)
    BY <1>3, <1>4, <1>5 DEF ImagesOf
  <1>7. ASSUME NEW m, Follows(t, p, m) PROVE Follows(r, p, m)
    BY <1>3, <1>4, <1>6, <1>7 DEF Follows
  <1> QED
    BY <1>4, <1>6, <1>7 DEF r

(* What is appended keeps the images behind their groups when the groups    *)
(* that are complete may be followed by its first message, the one that is  *)
(* not (at g) is not over with it, and its own images message, if any, is   *)
(* its first and stands behind a reply.                                     *)
LEMMA ImagesExtend ==
    ASSUME NEW t \in Seq(Message), NEW s \in Seq(Message), NEW g,
           ImagesBehind(t),
           \A p \in 1 .. Len(t) : t[p].kind = "calls" =>
             IF p = g THEN p + t[p].n >= Len(t \o s)
             ELSE /\ p + t[p].n <= Len(t)
                  /\ p + t[p].n = Len(t) /\ s # <<>> => Follows(t, p, s[1]),
           \A j \in 1 .. Len(s) :
             /\ s[j].kind = "calls" => j = Len(s)
             /\ s[j].kind = "images" => j = 1 /\ Len(t) > 0 /\ IsReply(t[Len(t)])
    PROVE  ImagesBehind(t \o s)
  <1> DEFINE r == t \o s
  <1>1. /\ Len(t) \in Nat /\ Len(s) \in Nat /\ Len(r) = Len(t) + Len(s)
        /\ \A q \in 1 .. Len(t) : r[q] = t[q]
        /\ \A j \in 1 .. Len(s) : r[Len(t) + j] = s[j]
        /\ r \in Seq(Message)
    BY Behind
  <1> HIDE DEF r
  <1>2. SUFFICES ASSUME NEW p \in 1 .. Len(r)
        PROVE  /\ r[p].kind = "calls" =>
                    (p + r[p].n + 1 <= Len(r) => Follows(r, p, r[p + r[p].n + 1]))
               /\ r[p].kind = "images" => p > 1 /\ IsReply(r[p - 1])
    BY DEF ImagesBehind, r
  <1>3. r[p].n \in Nat
    BY <1>1, MessageFields
  <1>4. CASE p \in 1 .. Len(t)
    <2>1. r[p] = t[p]
      BY <1>1, <1>4
    <2>2. ASSUME t[p].kind = "calls", p + t[p].n + 1 <= Len(r)
          PROVE  Follows(r, p, r[p + t[p].n + 1])
      <3>1. t[p].n \in Nat
        BY <1>3, <2>1
      <3>2. p # g
        BY <1>1, <1>4, <2>2, <3>1 DEF r
      <3>3. /\ p + t[p].n <= Len(t)
            /\ p + t[p].n = Len(t) /\ s # <<>> => Follows(t, p, s[1])
        BY <1>4, <2>2, <3>2
      <3>4. \A m : Follows(t, p, m) => Follows(r, p, m)
        BY <1>4, <3>3, ImagesKept DEF r
      <3>5. CASE p + t[p].n = Len(t)
        <4>0. Len(s) > 0 /\ 1 \in 1 .. Len(s)
          BY <1>1, <1>4, <2>2, <3>1, <3>5
        <4>1. s # <<>> /\ r[Len(t) + 1] = s[1]
          BY <1>1, <4>0
        <4>2. p + t[p].n + 1 = Len(t) + 1
          BY <3>5
        <4> QED
          BY <3>3, <3>4, <3>5, <4>1, <4>2
      <3>6. CASE p + t[p].n < Len(t)
        <4>1. p + t[p].n + 1 \in 1 .. Len(t)
          BY <1>1, <1>4, <3>1, <3>6
        <4>2. Follows(t, p, t[p + t[p].n + 1])
          BY <1>4, <2>2, <4>1 DEF ImagesBehind
        <4> QED
          BY <1>1, <3>4, <4>1, <4>2
      <3> QED
        BY <1>1, <1>4, <3>1, <3>3, <3>5, <3>6
    <2>3. ASSUME t[p].kind = "images" PROVE p > 1 /\ IsReply(r[p - 1])
      <3>1. p > 1 /\ IsReply(t[p - 1])
        BY <1>4, <2>3 DEF ImagesBehind
      <3> QED
        BY <1>1, <1>4, <3>1
    <2> QED
      BY <2>1, <2>2, <2>3
  <1>5. CASE p \notin 1 .. Len(t)
    <2> DEFINE j == p - Len(t)
    <2>1. j \in 1 .. Len(s) /\ p = Len(t) + j
      BY <1>1, <1>5
    <2> HIDE DEF j
    <2>2. r[p] = s[j]
      BY <1>1, <2>1
    <2>3. r[p].kind = "calls" => p = Len(r)
      BY <1>1, <2>1, <2>2
    <2>4. ASSUME r[p].kind = "images" PROVE p > 1 /\ IsReply(r[p - 1])
      <3>1. j = 1 /\ Len(t) > 0 /\ IsReply(t[Len(t)])
        BY <2>1, <2>2, <2>4
      <3>2. p - 1 = Len(t) /\ Len(t) \in 1 .. Len(t)
        BY <1>1, <2>1, <3>1
      <3> QED
        BY <1>1, <3>1, <3>2
    <2> QED
      BY <1>1, <1>3, <2>3, <2>4
  <1> QED
    BY <1>4, <1>5

(* The group whose replies end a transcript is the only one that does.      *)
LEMMA OnlyGroupAtEnd ==
    ASSUME NEW t \in Seq(Message), NEW g \in 1 .. Len(t), NEW k \in Nat,
           GroupsAnswered(t, g, k), t[g].kind = "calls", g + k = Len(t),
           NEW p \in 1 .. Len(t), t[p].kind = "calls", p # g
    PROVE  p + t[p].n < Len(t)
  <1>1. Len(t) \in Nat /\ t[p].n \in Nat
    BY MessageFields
  <1>2. Answered(t, p, t[p].n) /\ Answered(t, g, k)
    BY DEF GroupsAnswered
  <1>3. CASE p > g
    <2>1. p - g \in 1 .. k /\ g + (p - g) = p
      BY <1>1, <1>3
    <2>2. IsReply(t[p])
      BY <1>2, <2>1 DEF Answered
    <2> QED
      BY <2>2 DEF IsReply
  <1>4. CASE p < g /\ p + t[p].n >= Len(t)
    <2>1. g - p \in 1 .. t[p].n /\ p + (g - p) = g
      BY <1>1, <1>4
    <2>2. IsReply(t[g])
      BY <1>2, <2>1 DEF Answered
    <2> QED
      BY <2>2 DEF IsReply
  <1> QED
    BY <1>1, <1>3, <1>4

(* With all groups answered, each lies inside the transcript.               *)
LEMMA GroupsInside ==
    ASSUME NEW t \in Seq(Message), GroupsAnswered(t, 0, 0)
    PROVE  \A p \in 1 .. Len(t) : t[p].kind = "calls" => p + t[p].n <= Len(t)
  BY DEF GroupsAnswered, Answered

(* Nothing is owed behind what is appended to answered groups, unless       *)
(* something was owed before and nothing is appended.                       *)
LEMMA OwedNothing ==
    ASSUME NEW t \in Seq(Message), NEW s \in Seq(Message),
           GroupsAnswered(t, 0, 0), Speaks(s), NoneOwed(t) \/ s # <<>>
    PROVE  NoneOwed(t \o s)
  <1> DEFINE r == t \o s
  <1>1. /\ Len(t) \in Nat /\ Len(s) \in Nat /\ Len(r) = Len(t) + Len(s)
        /\ \A q \in 1 .. Len(t) : r[q] = t[q]
        /\ \A j \in 1 .. Len(s) : r[Len(t) + j] = s[j]
        /\ r \in Seq(Message)
    BY Behind
  <1> HIDE DEF r
  <1>2. SUFFICES ASSUME NEW p \in 1 .. Len(r), r[p].kind = "calls",
                        p + r[p].n = Len(r)
                 PROVE  ImagesOf(r, p) = {}
    BY DEF NoneOwed, r
  <1>3. p \in 1 .. Len(t)
    <2>1. CASE p > Len(t)
      <3>1. p - Len(t) \in 1 .. Len(s) /\ Len(t) + (p - Len(t)) = p
        BY <1>1, <2>1
      <3>2. r[p] = s[p - Len(t)]
        BY <1>1, <3>1
      <3> QED
        BY <1>2, <3>1, <3>2 DEF Speaks
    <2> QED
      BY <1>1, <2>1
  <1>4. r[p] = t[p] /\ t[p].n \in Nat
    BY <1>1, <1>3, MessageFields
  <1>5. p + t[p].n <= Len(t)
    BY <1>2, <1>3, <1>4, GroupsInside
  <1>6. Len(s) = 0 /\ s = <<>>
    BY <1>1, <1>2, <1>3, <1>4, <1>5
  <1>7. p + t[p].n = Len(t)
    BY <1>1, <1>2, <1>4, <1>6
  <1>8. ImagesOf(t, p) = {}
    BY <1>2, <1>3, <1>4, <1>6, <1>7 DEF NoneOwed
  <1>9. ImagesOf(r, p) = ImagesOf(t, p)
    BY <1>3, <1>5, ImagesKept DEF r
  <1> QED
    BY <1>8, <1>9
(* The shape of a transcript t: turns. *)

(* The rounds of a turn are finitely many.                                  *)
LEMMA RoundsOfFinite ==
    ASSUME NEW t \in Seq(Message), NEW p
    PROVE  IsFiniteSet(RoundsOf(t, p)) /\ Cardinality(RoundsOf(t, p)) \in Nat
  <1>1. 1 \in Int /\ Len(t) \in Int
    BY MessageFields
  <1>2. IsFiniteSet(1 .. Len(t))
    BY <1>1, FS_Interval
  <1>3. RoundsOf(t, p) \in SUBSET (1 .. Len(t))
    BY DEF RoundsOf, Assistant
  <1> QED
    BY <1>2, <1>3, FS_Subset, FS_CardinalityType

(* Messages that neither a user nor the model wrote.                        *)
Aside(s) == \A j \in 1 .. Len(s) : s[j].kind \notin {"user", "calls", "answer"}

(* They leave the turns as they are.                                        *)
LEMMA TurnsKept ==
    ASSUME NEW t \in Seq(Message), NEW s \in Seq(Message), Aside(s)
    PROVE  /\ Assistant(t \o s) = Assistant(t)
           /\ TurnStart(t \o s) = TurnStart(t)
           /\ \A p : RoundsOf(t \o s, p) = RoundsOf(t, p)
  <1> DEFINE r == t \o s
  <1>1. /\ Len(t) \in Nat /\ Len(s) \in Nat /\ Len(r) = Len(t) + Len(s)
        /\ \A q \in 1 .. Len(t) : r[q] = t[q]
        /\ \A j \in 1 .. Len(s) : r[Len(t) + j] = s[j]
    BY Behind
  <1> HIDE DEF r
  <1>2. ASSUME NEW q \in 1 .. Len(r), q \notin 1 .. Len(t)
        PROVE  r[q].kind \notin {"user", "calls", "answer"}
    <2>1. q - Len(t) \in 1 .. Len(s) /\ Len(t) + (q - Len(t)) = q
      BY <1>1, <1>2
    <2>2. r[q] = s[q - Len(t)]
      BY <1>1, <2>1
    <2> QED
      BY <2>1, <2>2 DEF Aside
  <1>3. \A q \in 1 .. Len(t) : q \in 1 .. Len(r)
    BY <1>1
  <1>4. Assistant(r) = Assistant(t)
    BY <1>1, <1>2, <1>3 DEF Assistant
  <1>5. TurnStart(r) = TurnStart(t)
    BY <1>1, <1>2, <1>3 DEF TurnStart
  <1>6. \A p : RoundsOf(r, p) = RoundsOf(t, p)
    BY <1>4, <1>5 DEF RoundsOf
  <1> QED
    BY <1>4, <1>5, <1>6 DEF r

(* The parts of a turn's shape.                                             *)
TurnsShaped(t) == TurnsBegun(t) /\ AnswersLast(t) /\ RoundsCapped(t)

(* What is appended behind a transcript that does not end with an answer    *)
(* lets every answer be the last of its turn.                               *)
LEMMA AnswersExtend ==
    ASSUME NEW t \in Seq(Message), NEW s \in Seq(Message), AnswersLast(t),
           s # <<>> => Unanswered(t) \/ s[1].kind = "user",
           \A j \in 1 .. Len(s) : s[j].kind = "answer" => j = Len(s)
    PROVE  AnswersLast(t \o s)
  <1> DEFINE r == t \o s
  <1>1. /\ Len(t) \in Nat /\ Len(s) \in Nat /\ Len(r) = Len(t) + Len(s)
        /\ \A q \in 1 .. Len(t) : r[q] = t[q]
        /\ \A j \in 1 .. Len(s) : r[Len(t) + j] = s[j]
    BY Behind
  <1> HIDE DEF r
  <1>2. SUFFICES ASSUME NEW q \in 1 .. Len(r), r[q].kind = "answer", q < Len(r)
                 PROVE  r[q + 1].kind = "user"
    BY DEF AnswersLast, r
  <1>3. CASE q < Len(t)
    <2>1. q \in 1 .. Len(t) /\ q + 1 \in 1 .. Len(t)
      BY <1>1, <1>3
    <2> QED
      BY <1>1, <1>2, <1>3, <2>1 DEF AnswersLast
  <1>4. CASE q = Len(t)
    <2>1. q \in 1 .. Len(t) /\ r[q] = t[q] /\ ~Unanswered(t)
      BY <1>1, <1>2, <1>4 DEF Unanswered
    <2>2. Len(s) > 0 /\ 1 \in 1 .. Len(s)
      BY <1>1, <1>2, <1>4
    <2>3. s # <<>>
      BY <2>2
    <2>4. s[1].kind = "user" /\ r[Len(t) + 1] = s[1]
      BY <1>1, <2>1, <2>2, <2>3
    <2> QED
      BY <1>4, <2>4
  <1>5. CASE q > Len(t)
    <2>1. q - Len(t) \in 1 .. Len(s) /\ Len(t) + (q - Len(t)) = q
      BY <1>1, <1>5
    <2>2. r[q] = s[q - Len(t)]
      BY <1>1, <2>1
    <2>3. q - Len(t) = Len(s)
      BY <1>2, <2>1, <2>2
    <2> QED
      BY <1>1, <1>2, <2>3
  <1> QED
    BY <1>1, <1>3, <1>4, <1>5

(* Asides keep the turns in shape and leave the rounds as they are.         *)
LEMMA AsideKeepsTurns ==
    ASSUME NEW t \in Seq(Message), NEW s \in Seq(Message), Aside(s),
           TurnsShaped(t), s # <<>> => Unanswered(t)
    PROVE  /\ TurnsShaped(t \o s)
           /\ \A k : RoundsUpTo(t, k) => RoundsUpTo(t \o s, k)
           /\ TurnStart(t \o s) = TurnStart(t)
           /\ Unanswered(t) => Unanswered(t \o s)
  <1>1. /\ Assistant(t \o s) = Assistant(t)
        /\ TurnStart(t \o s) = TurnStart(t)
        /\ \A p : RoundsOf(t \o s, p) = RoundsOf(t, p)
    BY TurnsKept
  <1>2. \A j \in 1 .. Len(s) : s[j].kind = "answer" => j = Len(s)
    BY DEF Aside
  <1>3. AnswersLast(t \o s)
    BY <1>2, AnswersExtend DEF TurnsShaped
  <1>4. TurnsShaped(t \o s)
    BY <1>1, <1>3 DEF TurnsShaped, TurnsBegun, RoundsCapped
  <1>5. \A k : RoundsUpTo(t, k) => RoundsUpTo(t \o s, k)
    BY <1>1 DEF RoundsUpTo
  <1>6. ASSUME Unanswered(t) PROVE Unanswered(t \o s)
    <2>1. /\ Len(t) \in Nat /\ Len(s) \in Nat /\ Len(t \o s) = Len(t) + Len(s)
          /\ \A q \in 1 .. Len(t) : (t \o s)[q] = t[q]
          /\ \A j \in 1 .. Len(s) : (t \o s)[Len(t) + j] = s[j]
      BY Behind
    <2>2. CASE Len(s) = 0
      <3>1. Len(t) \in 1 .. Len(t) /\ Len(t \o s) = Len(t)
        BY <1>6, <2>1, <2>2 DEF Unanswered
      <3> QED
        BY <1>6, <2>1, <3>1 DEF Unanswered
    <2>3. CASE Len(s) > 0
      <3>1. Len(s) \in 1 .. Len(s) /\ Len(t \o s) = Len(t) + Len(s)
            /\ Len(t \o s) > 0
        BY <2>1, <2>3
      <3> QED
        BY <2>1, <3>1 DEF Unanswered, Aside
    <2> QED
      BY <2>1, <2>2, <2>3
  <1> QED
    BY <1>1, <1>4, <1>5, <1>6

(* A user's message begins a turn without rounds.                           *)
LEMMA UserBeginsTurn ==
    ASSUME NEW t \in Seq(Message), TurnsShaped(t)
    PROVE  LET r == t \o <<User>>
           IN  TurnsShaped(r) /\ RoundsUpTo(r, 0) /\ Unanswered(r)
               /\ TurnStart(r) # {}
  <1> DEFINE s == <<User>>
             r == t \o s
  <1>1. s \in Seq(Message) /\ Len(s) = 1 /\ s[1].kind = "user" /\ s # <<>>
        /\ s[1] = User
    BY MessageTypes DEF User, Msg
  <1> HIDE DEF s
  <1>2. /\ Len(t) \in Nat /\ Len(r) = Len(t) + 1
        /\ \A q \in 1 .. Len(t) : r[q] = t[q]
        /\ r[Len(t) + 1] = User
        /\ r \in Seq(Message)
    BY <1>1, Behind
  <1>3. AnswersLast(r)
    <2>1. \A j \in 1 .. Len(s) : s[j].kind = "answer" => j = Len(s)
      BY <1>1
    <2> QED
      BY <1>1, <2>1, AnswersExtend DEF TurnsShaped
  <1> HIDE DEF r
  <1>4. \A q \in 1 .. Len(r) : q \in 1 .. Len(t) \/ q = Len(t) + 1
    BY <1>2
  <1>5. \A q \in 1 .. Len(t) : q \in 1 .. Len(r) /\ q < Len(t) + 1
    BY <1>2
  <1>6. User.kind = "user" /\ Len(t) + 1 \in 1 .. Len(r)
    BY <1>2 DEF User, Msg
  <1>7. Assistant(r) = Assistant(t)
    BY <1>2, <1>4, <1>5, <1>6 DEF Assistant
  <1>8. TurnStart(r) = TurnStart(t) \cup {Len(t) + 1}
    BY <1>2, <1>4, <1>5, <1>6 DEF TurnStart
  <1>9. Assistant(t) \subseteq 1 .. Len(t) /\ TurnStart(t) \subseteq 1 .. Len(t)
    BY DEF Assistant, TurnStart
  <1>10. \A p \in TurnStart(t) : RoundsOf(r, p) = RoundsOf(t, p)
    BY <1>5, <1>7, <1>8, <1>9 DEF RoundsOf
  <1>11. RoundsOf(r, Len(t) + 1) = {}
    BY <1>2, <1>7, <1>9 DEF RoundsOf
  <1>12. Cardinality(RoundsOf(r, Len(t) + 1)) = 0
    BY <1>11, FS_EmptySet
  <1>13. RoundsCapped(r)
    BY <1>8, <1>10, <1>12, ConstantsAssumption DEF RoundsCapped, TurnsShaped
  <1>14. TurnsBegun(r)
    BY <1>7, <1>8 DEF TurnsBegun, TurnsShaped
  <1>15. RoundsUpTo(r, 0)
    <2>1. \A p \in TurnStart(r) : (\A u \in TurnStart(r) : u <= p) => p = Len(t) + 1
      BY <1>2, <1>8, <1>9
    <2> QED
      BY <1>12, <2>1 DEF RoundsUpTo
  <1>16. Unanswered(r)
    BY <1>2, <1>6 DEF Unanswered
  <1> QED
    BY <1>3, <1>8, <1>13, <1>14, <1>15, <1>16 DEF TurnsShaped, r, s

(* A message of the model is one more round of the turn at hand.            *)
LEMMA ModelTakesRound ==
    ASSUME NEW t \in Seq(Message), TurnsShaped(t), Unanswered(t),
           TurnStart(t) # {}, NEW k \in Int, k < MaxRounds, RoundsUpTo(t, k),
           NEW m \in Message, m.kind \in {"calls", "answer"}
    PROVE  LET r == Append(t, m)
           IN  TurnsShaped(r) /\ RoundsUpTo(r, k + 1) /\ TurnStart(r) = TurnStart(t)
  <1> DEFINE s == <<m>>
             r == t \o s
             last == Len(t) + 1
  <1>1. s \in Seq(Message) /\ Len(s) = 1 /\ s[1] = m
    OBVIOUS
  <1>2. Append(t, m) = r
    BY <1>1
  <1> HIDE DEF s
  <1>3. /\ Len(t) \in Nat /\ Len(r) = Len(t) + 1
        /\ \A q \in 1 .. Len(t) : r[q] = t[q]
        /\ r[Len(t) + 1] = m
        /\ r \in Seq(Message)
    BY <1>1, Behind
  <1>4. AnswersLast(r)
    <2>1. \A j \in 1 .. Len(s) : s[j].kind = "answer" => j = Len(s)
      BY <1>1
    <2> QED
      BY <1>1, <2>1, AnswersExtend DEF TurnsShaped
  <1> HIDE DEF r
  <1>5. \A q \in 1 .. Len(r) : q \in 1 .. Len(t) \/ q = last
    BY <1>3
  <1>6. \A q \in 1 .. Len(t) : q \in 1 .. Len(r) /\ q < last
    BY <1>3
  <1>7. last \in 1 .. Len(r) /\ last \in Nat
    BY <1>3
  <1>8. Assistant(t) \subseteq 1 .. Len(t) /\ TurnStart(t) \subseteq 1 .. Len(t)
    BY DEF Assistant, TurnStart
  <1> HIDE DEF last
  <1>9. r[last] = m
    BY <1>3 DEF last
  <1>10. Assistant(r) = Assistant(t) \cup {last}
    BY <1>3, <1>5, <1>6, <1>7, <1>9 DEF Assistant
  <1>11. TurnStart(r) = TurnStart(t)
    BY <1>3, <1>5, <1>6, <1>7, <1>9 DEF TurnStart
  <1>12. \A u \in TurnStart(t) : u < last
    BY <1>6, <1>8
  <1>13. ASSUME NEW p \in TurnStart(t)
         PROVE  /\ (\A u \in TurnStart(t) : u <= p) =>
                      RoundsOf(r, p) = RoundsOf(t, p) \cup {last}
                /\ ~(\A u \in TurnStart(t) : u <= p) =>
                      RoundsOf(r, p) = RoundsOf(t, p)
    <2>1. ASSUME \A u \in TurnStart(t) : u <= p
          PROVE  RoundsOf(r, p) = RoundsOf(t, p) \cup {last}
      BY <1>10, <1>11, <1>12, <2>1 DEF RoundsOf
    <2>2. ASSUME ~(\A u \in TurnStart(t) : u <= p)
          PROVE  RoundsOf(r, p) = RoundsOf(t, p)
      <3>1. last \notin RoundsOf(r, p)
        <4>1. PICK u \in TurnStart(t) : ~(u <= p)
          BY <2>2
        <4>2. u < last /\ u \in Nat /\ last \in Nat
          BY <1>3, <1>7, <1>8, <1>12
        <4>3. ~(last < u)
          BY <4>2
        <4> QED
          BY <1>11, <4>1, <4>3 DEF RoundsOf
      <3> QED
        BY <1>10, <1>11, <3>1 DEF RoundsOf
    <2> QED
      BY <2>1, <2>2
  <1>14. last \notin Assistant(t)
    BY <1>6, <1>8, <1>7
  <1>15. ASSUME NEW p \in TurnStart(t), \A u \in TurnStart(t) : u <= p
         PROVE  Cardinality(RoundsOf(r, p)) <= k + 1
    <2>1. RoundsOf(r, p) = RoundsOf(t, p) \cup {last}
      BY <1>13, <1>15
    <2>2. last \notin RoundsOf(t, p)
      BY <1>14 DEF RoundsOf
    <2>3. IsFiniteSet(RoundsOf(t, p)) /\ Cardinality(RoundsOf(t, p)) \in Nat
      BY RoundsOfFinite
    <2>4. Cardinality(RoundsOf(r, p)) = Cardinality(RoundsOf(t, p)) + 1
      BY <2>1, <2>2, <2>3, FS_AddElement
    <2>5. Cardinality(RoundsOf(t, p)) <= k
      BY <1>15 DEF RoundsUpTo
    <2> QED
      BY <2>3, <2>4, <2>5
  <1>16. RoundsUpTo(r, k + 1)
    BY <1>11, <1>15 DEF RoundsUpTo
  <1>17. RoundsCapped(r)
    <2>1. SUFFICES ASSUME NEW p \in TurnStart(t)
                   PROVE  Cardinality(RoundsOf(r, p)) <= MaxRounds
      BY <1>11 DEF RoundsCapped
    <2>2. CASE \A u \in TurnStart(t) : u <= p
      <3>1. Cardinality(RoundsOf(r, p)) <= k + 1
        BY <1>15, <2>2
      <3>2. Cardinality(RoundsOf(r, p)) \in Nat
        BY <1>3, RoundsOfFinite
      <3> QED
        BY <3>1, <3>2, ConstantsAssumption
    <2>3. CASE ~(\A u \in TurnStart(t) : u <= p)
      <3>1. RoundsOf(r, p) = RoundsOf(t, p)
        BY <1>13, <2>3
      <3> QED
        BY <3>1 DEF RoundsCapped, TurnsShaped
    <2> QED
      BY <2>2, <2>3
  <1>18. TurnsBegun(r)
    BY <1>10, <1>11, <1>12 DEF TurnsBegun, TurnsShaped
  <1> QED
    BY <1>2, <1>4, <1>11, <1>16, <1>17, <1>18 DEF TurnsShaped
(* What a step of the agent does to the shape. *)

(* A transcript a round may open on, k rounds of its turn being over.       *)
Ready(t, k) ==
    /\ GroupsAnswered(t, 0, 0) /\ RepliesOwned(t)
    /\ ImagesBehind(t) /\ NoneOwed(t)
    /\ TurnsShaped(t) /\ Unanswered(t) /\ TurnStart(t) # {} /\ RoundsUpTo(t, k)

(* Messages without images, calls at most at their end, fit behind answered *)
(* groups that owe no images, or when the first is the user's.              *)
LEMMA PlainBehindGroups ==
    ASSUME NEW t \in Seq(Message), NEW s \in Seq(Message),
           GroupsAnswered(t, 0, 0), ImagesBehind(t),
           s # <<>> => NoneOwed(t) \/ s[1].kind = "user",
           \A j \in 1 .. Len(s) : s[j].kind # "images"
                                  /\ (s[j].kind = "calls" => j = Len(s))
    PROVE  ImagesBehind(t \o s)
  <1>1. ASSUME NEW p \in 1 .. Len(t), t[p].kind = "calls"
        PROVE  /\ p # 0 /\ p + t[p].n <= Len(t)
               /\ p + t[p].n = Len(t) /\ s # <<>> => Follows(t, p, s[1])
    <2>1. p # 0 /\ p + t[p].n <= Len(t)
      BY <1>1, GroupsInside
    <2>2. ASSUME p + t[p].n = Len(t), s # <<>> PROVE Follows(t, p, s[1])
      <3>1. Len(s) \in Nat /\ Len(s) # 0
        BY <2>2
      <3>2. s[1].kind # "images"
        BY <3>1
      <3> QED
        BY <1>1, <2>2, <3>2 DEF Follows, NoneOwed
    <2> QED
      BY <2>1, <2>2
  <1> QED
    BY <1>1, ImagesExtend

(* A note, a reminder or nothing at all keeps a transcript ready.           *)
LEMMA AsideKeepsReady ==
    ASSUME NEW t \in Seq(Message), NEW s \in Seq(Message), NEW k, Ready(t, k),
           \A j \in 1 .. Len(s) : s[j].kind \in {"note", "reminder"}
    PROVE  t \o s \in Seq(Message) /\ Ready(t \o s, k)
  <1>1. Speaks(s) /\ Aside(s)
        /\ \A j \in 1 .. Len(s) : s[j].kind # "images"
                                  /\ (s[j].kind = "calls" => j = Len(s))
    BY DEF Speaks, Aside
  <1>2. GroupsAnswered(t \o s, 0, 0) /\ RepliesOwned(t \o s)
    BY <1>1, SpeechKeepsGroups DEF Ready
  <1>3. ImagesBehind(t \o s)
    BY <1>1, PlainBehindGroups DEF Ready
  <1>4. NoneOwed(t \o s)
    BY <1>1, OwedNothing DEF Ready
  <1>5. /\ TurnsShaped(t \o s) /\ Unanswered(t \o s) /\ TurnStart(t \o s) # {}
        /\ RoundsUpTo(t \o s, k)
    BY <1>1, AsideKeepsTurns DEF Ready
  <1> QED
    BY <1>2, <1>3, <1>4, <1>5, Behind DEF Ready

(* What may stand between a user's message and the first round.             *)
LEMMA AsidesOfAgent ==
    \A s \in UserReminders \cup {<<>>, <<Note>>} :
        s \in Seq(Message)
        /\ \A j \in 1 .. Len(s) : s[j].kind \in {"note", "reminder"}
  <1>1. \A s \in UserReminders \cup {<<>>, <<Note>>} :
          s = <<>> \/ s = <<Reminder>> \/ s = <<Note>>
    BY DEF UserReminders
  <1>2. Reminder.kind = "reminder" /\ Note.kind = "note"
    BY DEF Reminder, Note, Msg
  <1>3. ASSUME NEW s, NEW m \in Message, s = <<>> \/ s = <<m>>,
               m.kind \in {"note", "reminder"}
        PROVE  s \in Seq(Message)
               /\ \A j \in 1 .. Len(s) : s[j].kind \in {"note", "reminder"}
    <2>1. CASE s = <<>>
      <3>1. s \in Seq(Message) /\ Len(s) = 0
        BY <2>1
      <3> QED
        BY <3>1
    <2>2. CASE s = <<m>>
      <3>1. s \in Seq(Message) /\ Len(s) = 1 /\ s[1] = m
        BY <2>2
      <3> QED
        BY <1>3, <3>1
    <2> QED
      BY <1>3, <2>1, <2>2
  <1>4. Reminder \in Message /\ Note \in Message
    BY MessageTypes
  <1> QED
    BY <1>1, <1>2, <1>3, <1>4

(* A user's message makes it ready.                                         *)
LEMMA UserMakesReady ==
    ASSUME NEW t \in Seq(Message), GroupsAnswered(t, 0, 0), RepliesOwned(t),
           ImagesBehind(t), TurnsShaped(t)
    PROVE  t \o <<User>> \in Seq(Message) /\ Ready(t \o <<User>>, 0)
  <1> DEFINE s == <<User>>
  <1>1. s \in Seq(Message) /\ Speaks(s) /\ s # <<>> /\ s[1].kind = "user"
        /\ \A j \in 1 .. Len(s) : s[j].kind # "images"
                                  /\ (s[j].kind = "calls" => j = Len(s))
    BY MessageTypes, SpeechOfAgent DEF User, Msg
  <1>2. TurnsShaped(t \o s) /\ RoundsUpTo(t \o s, 0) /\ Unanswered(t \o s)
        /\ TurnStart(t \o s) # {}
    BY UserBeginsTurn
  <1> HIDE DEF s
  <1>3. GroupsAnswered(t \o s, 0, 0) /\ RepliesOwned(t \o s)
    BY <1>1, SpeechKeepsGroups
  <1>4. ImagesBehind(t \o s)
    BY <1>1, PlainBehindGroups
  <1>5. NoneOwed(t \o s)
    BY <1>1, OwedNothing
  <1>6. t \o s \in Seq(Message)
    BY <1>1, Behind
  <1> QED
    BY <1>2, <1>3, <1>4, <1>5, <1>6 DEF Ready, s

(* begin_round on a ready transcript keeps the shape.                       *)
LEMMA BeginRoundShape ==
    ASSUME NEW t \in Seq(Message), NEW r \in Nat, Ready(t, r), BeginRound(t, r)
    PROVE  ShapePart'
  <1>1. CASE TooManyRounds(t, r)
    BY <1>1 DEF TooManyRounds, ShapePart, GroupImages, ImagesFollowTheirGroup,
                TurnShape, TurnAtHand, Busy, Ready, TurnsShaped
  <1>2. CASE ComposeRound(t, r)
    <2>1. PICK s \in UserReminders : transcript' = t \o s
      BY <1>2 DEF ComposeRound
    <2>2. Ready(transcript', r)
      BY <2>1, AsidesOfAgent, AsideKeepsReady
    <2>3. \/ stream' = "open" /\ round' = r + 1 /\ state' = "STREAMING"
          \/ stream' = "none" /\ state' = "ERROR"
      BY <1>2 DEF ComposeRound
    <2>4. stream' # "none" => RoundsOver' = r /\ round' >= 1
      BY <2>3 DEF RoundsOver
    <2>5. TurnAtHand'
      BY <2>2, <2>3, <2>4 DEF TurnAtHand, Busy, Ready
    <2>6. GroupImages'
      BY <2>3 DEF GroupImages
    <2> QED
      BY <2>2, <2>5, <2>6 DEF ShapePart, ImagesFollowTheirGroup, TurnShape,
                              Ready, TurnsShaped
  <1> QED
    BY <1>1, <1>2 DEF BeginRound

(* A step that leaves the turn without touching the transcript.             *)
LEMMA TurnLeft ==
    ASSUME ShapePart, transcript' = transcript, ~Busy', stream' = "none"
    PROVE  ShapePart'
  BY DEF ShapePart, GroupImages, ImagesFollowTheirGroup, TurnShape, TurnAtHand,
         Busy

(* The group at hand, and what of it the lemmas about transcripts ask.      *)
LEMMA GroupFacts ==
    ASSUME IInv, ShapePart, state = "RUNNING_TOOL"
    PROVE  /\ transcript \in Seq(Message) /\ Len(transcript) \in Nat
           /\ idx \in Nat /\ calls \in Nat /\ images \in Nat /\ round \in Nat
           /\ calls > 0 /\ idx <= calls /\ stream = "none" /\ RoundsOver = round
           /\ OpenGroup \in 1 .. Len(transcript)
           /\ OpenGroup + idx = Len(transcript)
           /\ transcript[OpenGroup].kind = "calls"
           /\ transcript[OpenGroup].n = calls
           /\ GroupsAnswered(transcript, OpenGroup, idx)
           /\ \A p \in 1 .. Len(transcript) :
                 transcript[p].kind = "calls" /\ p # OpenGroup =>
                     p + transcript[p].n < Len(transcript)
  <1>1. /\ transcript \in Seq(Message) /\ Len(transcript) \in Nat
        /\ idx \in Nat /\ calls \in Nat /\ images \in Nat /\ round \in Nat
    BY ConstantsAssumption DEF IInv, TypeOK
  <1>2. calls > 0 /\ idx <= calls /\ stream = "none" /\ RoundsOver = round
    BY DEF IInv, GroupAtHand, StateOwnsResources, RoundsOver
  <1>3. /\ OpenGroup \in 1 .. Len(transcript)
        /\ OpenGroup + idx = Len(transcript)
    BY <1>1 DEF IInv, GroupAtHand, OpenGroup
  <1>4. transcript[OpenGroup].kind = "calls" /\ transcript[OpenGroup].n = calls
    BY DEF IInv, GroupAtHand, Calls, Msg
  <1>5. GroupsAnswered(transcript, OpenGroup, idx)
    BY DEF IInv, ToolGroupsComplete
  <1> HIDE DEF OpenGroup
  <1>6. \A p \in 1 .. Len(transcript) :
          transcript[p].kind = "calls" /\ p # OpenGroup =>
              p + transcript[p].n < Len(transcript)
    BY <1>1, <1>3, <1>4, <1>5, OnlyGroupAtEnd
  <1> QED
    BY <1>1, <1>2, <1>3, <1>4, <1>5, <1>6

(* Replies to the group at hand, as far as it asked for them, keep images   *)
(* and turns in shape.                                                      *)
LEMMA RepliesKeepShape ==
    ASSUME IInv, ShapePart, state = "RUNNING_TOOL",
           NEW s \in Seq(Message), Len(s) <= calls - idx,
           \A j \in 1 .. Len(s) : s[j].kind \in {"result", "cancelled"}
    PROVE  /\ ImagesBehind(transcript \o s)
           /\ TurnsShaped(transcript \o s) /\ Unanswered(transcript \o s)
           /\ TurnStart(transcript \o s) # {}
           /\ RoundsUpTo(transcript \o s, round)
  <1>1. /\ transcript \in Seq(Message) /\ Len(transcript) \in Nat
        /\ idx \in Nat /\ calls \in Nat /\ RoundsOver = round
        /\ OpenGroup \in 1 .. Len(transcript)
        /\ OpenGroup + idx = Len(transcript)
        /\ transcript[OpenGroup].n = calls
        /\ \A p \in 1 .. Len(transcript) :
              transcript[p].kind = "calls" /\ p # OpenGroup =>
                  p + transcript[p].n < Len(transcript)
    BY GroupFacts
  <1>2. /\ Len(transcript \o s) = Len(transcript) + Len(s)
        /\ Len(s) \in Nat
    BY <1>1, Behind
  <1>3. ImagesBehind(transcript)
    BY DEF ShapePart, ImagesFollowTheirGroup
  <1> HIDE DEF OpenGroup
  <1>4. \A p \in 1 .. Len(transcript) : transcript[p].kind = "calls" =>
          IF p = OpenGroup THEN p + transcript[p].n >= Len(transcript \o s)
          ELSE /\ p + transcript[p].n <= Len(transcript)
               /\ p + transcript[p].n = Len(transcript) /\ s # <<>> =>
                     Follows(transcript, p, s[1])
    <2>1. OpenGroup + transcript[OpenGroup].n >= Len(transcript \o s)
      BY <1>1, <1>2
    <2>2. ASSUME NEW p \in 1 .. Len(transcript), transcript[p].kind = "calls",
                 p # OpenGroup
          PROVE  /\ p + transcript[p].n <= Len(transcript)
                 /\ p + transcript[p].n # Len(transcript)
      <3>1. p + transcript[p].n < Len(transcript)
        BY <1>1, <2>2
      <3>2. transcript[p].n \in Nat
        BY <1>1, MessageFields
      <3> QED
        BY <1>1, <3>1, <3>2
    <2> QED
      BY <2>1, <2>2
  <1>5. \A j \in 1 .. Len(s) :
          /\ s[j].kind = "calls" => j = Len(s)
          /\ s[j].kind = "images" => j = 1 /\ Len(transcript) > 0
                                     /\ IsReply(transcript[Len(transcript)])
    OBVIOUS
  <1>6. ImagesBehind(transcript \o s)
    BY <1>1, <1>3, <1>4, <1>5, ImagesExtend
  <1>7. Aside(s)
    BY DEF Aside
  <1>8. TurnsShaped(transcript) /\ Unanswered(transcript)
        /\ TurnStart(transcript) # {} /\ RoundsUpTo(transcript, round)
    BY <1>1 DEF ShapePart, TurnShape, TurnsShaped, TurnAtHand, Busy
  <1> QED
    BY <1>1, <1>6, <1>7, <1>8, AsideKeepsTurns
(* finish_tool_call counts the images of the group at hand.                 *)
LEMMA FinishToolShape ==
    ASSUME IInv, ShapePart, state = "RUNNING_TOOL", idx < calls,
           FinishToolCall, idx' = idx + 1, UNCHANGED <<state, stream, calls, round>>
    PROVE  ShapePart'
  <1>1. PICK img \in BOOLEAN :
          /\ transcript' = Append(transcript, Result(idx + 1, img))
          /\ images' = IF img THEN images + 1 ELSE images
    BY ConstantsAssumption DEF FinishToolCall
  <1> DEFINE s == <<Result(idx + 1, img)>>
             g == OpenGroup
  <1>2. /\ transcript \in Seq(Message) /\ Len(transcript) \in Nat
        /\ idx \in Nat /\ calls \in Nat /\ images \in Nat /\ round \in Nat
        /\ stream = "none"
        /\ g \in 1 .. Len(transcript) /\ g + idx = Len(transcript)
        /\ transcript[g].n = calls
    BY GroupFacts
  <1>3. s \in Seq(Message) /\ Len(s) = 1 /\ s[1] = Result(idx + 1, img)
    BY <1>2, MessageTypes
  <1>4. transcript' = transcript \o s
    BY <1>1, <1>2, <1>3
  <1>5. g' = g
    BY <1>1, <1>2 DEF OpenGroup
  <1>6. /\ transcript' \in Seq(Message) /\ Len(transcript') = Len(transcript) + 1
        /\ \A q \in 1 .. Len(transcript) : transcript'[q] = transcript[q]
        /\ transcript'[Len(transcript) + 1] = Result(idx + 1, img)
    BY <1>2, <1>3, <1>4, Behind
  <1>7. /\ ImagesBehind(transcript') /\ TurnsShaped(transcript')
        /\ Unanswered(transcript') /\ TurnStart(transcript') # {}
        /\ RoundsUpTo(transcript', round)
    <2>1. Len(s) <= calls - idx
      BY <1>2, <1>3
    <2>2. \A j \in 1 .. Len(s) : s[j].kind \in {"result", "cancelled"}
      BY <1>3 DEF Result, Msg
    <2> QED
      BY <1>3, <1>4, <2>1, <2>2, RepliesKeepShape
  <1> HIDE DEF s, g
  <1>8. \A i \in 1 .. (idx + 1) : transcript'[g + i].kind = "result"
    <2>1. ASSUME NEW i \in 1 .. idx PROVE transcript'[g + i].kind = "result"
      <3>1. g + i \in 1 .. Len(transcript)
        BY <1>2
      <3>2. transcript[g + i].kind = "result"
        BY <2>1 DEF ShapePart, GroupImages, g
      <3> QED
        BY <1>6, <3>1, <3>2
    <2>2. transcript'[g + (idx + 1)].kind = "result"
      <3>1. g + (idx + 1) = Len(transcript) + 1
        BY <1>2
      <3> QED
        BY <1>6, <3>1 DEF Result, Msg
    <2>3. \A i \in 1 .. (idx + 1) : i \in 1 .. idx \/ i = idx + 1
      BY <1>2
    <2> QED
      BY <2>1, <2>2, <2>3
  <1>9. /\ \A i \in 1 .. calls : g + i <= Len(transcript) <=> i <= idx
        /\ \A i \in 1 .. calls : g + i <= Len(transcript') <=> i <= idx \/ i = idx + 1
        /\ \A i \in 1 .. calls : i <= idx => transcript'[g + i] = transcript[g + i]
        /\ transcript'[g + (idx + 1)].img = img
        /\ transcript'[g].n = calls
        /\ idx + 1 \in 1 .. calls /\ ~(idx + 1 <= idx)
    <2>1. g + (idx + 1) = Len(transcript) + 1
      BY <1>2
    <2>2. transcript'[g + (idx + 1)].img = img
      BY <1>6, <2>1 DEF Result, Msg
    <2>3. ASSUME NEW i \in 1 .. calls, i <= idx
          PROVE  transcript'[g + i] = transcript[g + i]
      <3>1. g + i \in 1 .. Len(transcript)
        BY <1>2, <2>3
      <3> QED
        BY <1>6, <3>1
    <2>4. transcript'[g].n = calls
      BY <1>2, <1>6
    <2>5. /\ \A i \in 1 .. calls : g + i <= Len(transcript) <=> i <= idx
          /\ \A i \in 1 .. calls :
                g + i <= Len(transcript') <=> i <= idx \/ i = idx + 1
          /\ idx + 1 \in 1 .. calls /\ ~(idx + 1 <= idx)
      BY <1>2, <1>6
    <2> QED
      BY <2>2, <2>3, <2>4, <2>5
  <1>10. ImagesOf(transcript', g) =
           ImagesOf(transcript, g) \cup (IF img THEN {idx + 1} ELSE {})
    BY <1>2, <1>9 DEF ImagesOf
  <1>11. idx + 1 \notin ImagesOf(transcript, g)
    BY <1>2, <1>9 DEF ImagesOf
  <1>12. IsFiniteSet(ImagesOf(transcript, g))
         /\ Cardinality(ImagesOf(transcript, g)) = images
    BY <1>2, ImagesOfFinite DEF ShapePart, GroupImages, g
  <1>13. Cardinality(ImagesOf(transcript', g)) = images'
    <2>1. CASE img
      <3>1. Cardinality(ImagesOf(transcript, g) \cup {idx + 1}) = images + 1
        BY <1>11, <1>12, FS_AddElement
      <3> QED
        BY <1>1, <1>10, <2>1, <3>1
    <2>2. CASE ~img
      <3>1. ImagesOf(transcript', g) = ImagesOf(transcript, g)
        BY <1>10, <2>2
      <3> QED
        BY <1>1, <1>12, <2>2, <3>1
    <2> QED
      BY <2>1, <2>2
  <1>14. GroupImages'
    BY <1>5, <1>8, <1>13 DEF GroupImages, g
  <1>15. TurnAtHand'
    <2>1. state' = "RUNNING_TOOL" /\ stream' = "none" /\ RoundsOver' = round
      BY <1>2 DEF RoundsOver
    <2> QED
      BY <1>7, <2>1 DEF TurnAtHand
  <1> QED
    BY <1>7, <1>14, <1>15 DEF ShapePart, ImagesFollowTheirGroup, TurnShape,
                              TurnsShaped

(* The group done, the fan-out makes the transcript ready for a round.      *)
LEMMA FanOutMakesReady ==
    ASSUME IInv, ShapePart, state = "RUNNING_TOOL", idx >= calls
    PROVE  LET s == IF images > 0 THEN <<Images(images)>> ELSE <<>>
           IN  transcript \o s \in Seq(Message) /\ Ready(transcript \o s, round)
  <1> DEFINE s == IF images > 0 THEN <<Images(images)>> ELSE <<>>
             g == OpenGroup
  <1>1. /\ transcript \in Seq(Message) /\ Len(transcript) \in Nat
        /\ idx \in Nat /\ calls \in Nat /\ images \in Nat /\ round \in Nat
        /\ calls > 0 /\ idx <= calls /\ RoundsOver = round
        /\ g \in 1 .. Len(transcript) /\ g + idx = Len(transcript)
        /\ transcript[g].kind = "calls" /\ transcript[g].n = calls
        /\ GroupsAnswered(transcript, g, idx)
        /\ \A p \in 1 .. Len(transcript) :
              transcript[p].kind = "calls" /\ p # g =>
                  p + transcript[p].n < Len(transcript)
    BY GroupFacts
  <1>2. idx = calls
    BY <1>1
  <1>3. /\ \A i \in 1 .. idx : transcript[g + i].kind = "result"
        /\ Cardinality(ImagesOf(transcript, g)) = images
    BY DEF ShapePart, GroupImages
  <1>4. /\ ImagesBehind(transcript) /\ TurnsShaped(transcript)
        /\ Unanswered(transcript) /\ TurnStart(transcript) # {}
        /\ RoundsUpTo(transcript, round)
    BY <1>1 DEF ShapePart, ImagesFollowTheirGroup, TurnShape, TurnsShaped,
                TurnAtHand, Busy
  <1>5. GroupsAnswered(transcript, 0, 0) /\ RepliesOwned(transcript)
    BY ToolPhaseOver DEF IInv, GroupInv
  <1> HIDE DEF g
  <1>6. \A p \in 1 .. Len(transcript) :
          transcript[p].kind = "calls" /\ p + transcript[p].n = Len(transcript)
            => p = g
    <2>1. \A p \in 1 .. Len(transcript) : transcript[p].n \in Nat
      BY <1>1, MessageFields
    <2> QED
      BY <1>1, <2>1
  <1>7. CASE images = 0
    <2>1. s = <<>> /\ transcript \o s = transcript
      BY <1>1, <1>7
    <2>2. IsFiniteSet(ImagesOf(transcript, g))
      BY <1>1, ImagesOfFinite
    <2>3. ImagesOf(transcript, g) = {}
      BY <1>3, <1>7, <2>2, FS_EmptySet
    <2>4. NoneOwed(transcript)
      BY <1>6, <2>3 DEF NoneOwed
    <2> QED
      BY <1>1, <1>4, <1>5, <2>1, <2>4 DEF Ready
  <1>8. CASE images > 0
    <2>1. s \in Seq(Message) /\ Len(s) = 1 /\ s[1] = Images(images)
          /\ s # <<>> /\ Speaks(s)
      BY <1>1, <1>8, MessageTypes, SpeechOfAgent
    <2> HIDE DEF s
    <2>2. s[1].kind = "images" /\ s[1].n = images
      BY <2>1 DEF Images, Msg
    <2>3. IsReply(transcript[Len(transcript)])
      <3>1. idx \in 1 .. idx /\ g + idx = Len(transcript)
        BY <1>1, <1>2
      <3> QED
        BY <1>3, <3>1 DEF IsReply
    <2>4. Follows(transcript, g, s[1])
      BY <1>1, <1>2, <1>3, <2>2 DEF Follows
    <2>5. \A p \in 1 .. Len(transcript) : transcript[p].kind = "calls" =>
            IF p = 0 THEN p + transcript[p].n >= Len(transcript \o s)
            ELSE /\ p + transcript[p].n <= Len(transcript)
                 /\ p + transcript[p].n = Len(transcript) /\ s # <<>> =>
                       Follows(transcript, p, s[1])
      BY <1>1, <1>5, <1>6, <2>4, GroupsInside
    <2>6. \A j \in 1 .. Len(s) :
            /\ s[j].kind = "calls" => j = Len(s)
            /\ s[j].kind = "images" => j = 1 /\ Len(transcript) > 0
                                       /\ IsReply(transcript[Len(transcript)])
      BY <1>1, <2>1, <2>2, <2>3
    <2>7. ImagesBehind(transcript \o s)
      BY <1>1, <1>4, <2>1, <2>5, <2>6, ImagesExtend
    <2>8. NoneOwed(transcript \o s)
      BY <1>1, <1>5, <2>1, OwedNothing
    <2>9. GroupsAnswered(transcript \o s, 0, 0) /\ RepliesOwned(transcript \o s)
      BY <1>1, <1>5, <2>1, SpeechKeepsGroups
    <2>10. Aside(s)
      BY <2>1, <2>2 DEF Aside
    <2>11. /\ TurnsShaped(transcript \o s) /\ Unanswered(transcript \o s)
           /\ TurnStart(transcript \o s) # {} /\ RoundsUpTo(transcript \o s, round)
      BY <1>1, <1>4, <2>1, <2>10, AsideKeepsTurns
    <2>12. transcript \o s \in Seq(Message)
      BY <1>1, <2>1, Behind
    <2> QED
      BY <2>7, <2>8, <2>9, <2>11, <2>12 DEF Ready, s
  <1> QED
    BY <1>1, <1>7, <1>8

(* A reply that ends a request is one more round of the turn at hand.       *)
LEMMA ReplyTakesRound ==
    ASSUME IInv, ShapePart, stream # "none", state = "STREAMING",
           NEW m \in Message, m.kind \in {"calls", "answer"}
    PROVE  LET r == Append(transcript, m)
           IN  /\ ImagesBehind(r) /\ TurnsShaped(r) /\ TurnStart(r) # {}
               /\ RoundsUpTo(r, round)
  <1> DEFINE s == <<m>>
  <1>1. /\ transcript \in Seq(Message) /\ Len(transcript) \in Nat
        /\ round \in Nat /\ round <= MaxRounds /\ round >= 1
    BY ConstantsAssumption DEF IInv, TypeOK, ShapePart, TurnAtHand
  <1>2. s \in Seq(Message) /\ Len(s) = 1 /\ s[1] = m
        /\ Append(transcript, m) = transcript \o s
    BY <1>1
  <1>3. /\ ImagesBehind(transcript) /\ TurnsShaped(transcript)
        /\ Unanswered(transcript) /\ TurnStart(transcript) # {}
        /\ RoundsUpTo(transcript, round - 1) /\ NoneOwed(transcript)
    BY <1>1 DEF ShapePart, ImagesFollowTheirGroup, TurnShape, TurnsShaped,
                TurnAtHand, Busy, RoundsOver
  <1>4. GroupsAnswered(transcript, 0, 0)
    BY QuietState DEF IInv, GroupInv
  <1>5. ImagesBehind(transcript \o s)
    <2>1. \A j \in 1 .. Len(s) : s[j].kind # "images"
                                 /\ (s[j].kind = "calls" => j = Len(s))
      BY <1>2
    <2> HIDE DEF s
    <2> QED
      BY <1>1, <1>2, <1>3, <1>4, <2>1, PlainBehindGroups
  <1>6. LET r == Append(transcript, m)
        IN  TurnsShaped(r) /\ RoundsUpTo(r, (round - 1) + 1)
            /\ TurnStart(r) = TurnStart(transcript)
    <2>1. round - 1 \in Int /\ round - 1 < MaxRounds
      BY <1>1, ConstantsAssumption
    <2> QED
      BY <1>1, <1>3, <2>1, ModelTakesRound
  <1>7. (round - 1) + 1 = round
    BY <1>1
  <1> QED
    BY <1>2, <1>3, <1>5, <1>6, <1>7

(* Every step keeps the shape.                                              *)
LEMMA ShapeStep ==
    ASSUME IInv, ShapePart, [Next]_vars
    PROVE  ShapePart'
  <1>0. /\ transcript \in Seq(Message) /\ Len(transcript) \in Nat
        /\ round \in Nat /\ stream \in {"none", "open", "tail"}
        /\ StateOwnsResources
    BY ConstantsAssumption DEF IInv, TypeOK
  <1>a. ASSUME UNCHANGED <<state, stream, idx, images, round, transcript>>
        PROVE  ShapePart'
    BY <1>a DEF ShapePart, GroupImages, ImagesFollowTheirGroup, TurnShape,
                TurnAtHand, OpenGroup, Busy, RoundsOver
  <1>1. CASE EnvWorld \/ NoteMentions \/ ToolBegin \/ UNCHANGED vars
    BY <1>a, <1>1 DEF EnvWorld, NoteMentions, ToolBegin, roundVars, vars
  <1>2. CASE StartRefused \/ StepTimeout \/ FailedRound \/ CancelEnv
    <2>1. transcript' = transcript /\ ~Busy' /\ stream' = "none"
      BY <1>0, <1>2 DEF StartRefused, StepTimeout, FailedRound, StreamOver,
         CancelEnv, Busy, StateOwnsResources
    <2> QED
      BY <2>1, TurnLeft
  <1>3. CASE ContentComplete
    <2>1. /\ state = "STREAMING" /\ state' = "STREAMING"
          /\ stream # "none" /\ stream' # "none"
          /\ UNCHANGED <<round, transcript>>
      BY <1>3 DEF ContentComplete
    <2> QED
      BY <2>1 DEF ShapePart, GroupImages, ImagesFollowTheirGroup, TurnShape,
                  TurnAtHand, Busy, RoundsOver
  <1>4. CASE Start
    <2>1. /\ GroupsAnswered(transcript, 0, 0) /\ RepliesOwned(transcript)
          /\ ImagesBehind(transcript) /\ TurnsShaped(transcript)
          /\ state # "RUNNING_TOOL" /\ stream = "none"
      BY <1>0, <1>4, QuietState DEF Start, Busy, IInv, GroupInv, ShapePart,
         ImagesFollowTheirGroup, TurnShape, TurnsShaped, StateOwnsResources
    <2>2. PICK reminder \in UserReminders :
            LET said == transcript \o <<User>>
                        \o (IF note THEN <<Note>> ELSE <<>>) \o reminder
            IN \/ BeginRound(said, 0)
               \/ /\ state' = "STREAMING" /\ transcript' = said
                  /\ round' = 0 /\ stream' = stream
      BY <1>4 DEF Start, EnvFinish
    <2> DEFINE n  == IF note THEN <<Note>> ELSE <<>>
               t1 == transcript \o <<User>>
               t2 == t1 \o n
               t3 == t2 \o reminder
    <2>3. t1 \in Seq(Message) /\ Ready(t1, 0)
      BY <1>0, <2>1, UserMakesReady
    <2>4. n \in UserReminders \cup {<<>>, <<Note>>}
      OBVIOUS
    <2> HIDE DEF t1, n
    <2>5. t2 \in Seq(Message) /\ Ready(t2, 0)
      BY <2>3, <2>4, AsidesOfAgent, AsideKeepsReady
    <2> HIDE DEF t2
    <2>6. t3 \in Seq(Message) /\ Ready(t3, 0)
      BY <2>5, AsidesOfAgent, AsideKeepsReady
    <2>7. \/ BeginRound(t3, 0)
          \/ /\ state' = "STREAMING" /\ transcript' = t3
             /\ round' = 0 /\ stream' = "none"
      BY <2>1, <2>2 DEF t2, t1, n
    <2> HIDE DEF t3
    <2>8. CASE BeginRound(t3, 0)
      BY <2>6, <2>8, BeginRoundShape
    <2>9. CASE /\ state' = "STREAMING" /\ transcript' = t3
               /\ round' = 0 /\ stream' = "none"
      BY <2>6, <2>9 DEF ShapePart, GroupImages, ImagesFollowTheirGroup,
         TurnShape, TurnAtHand, Busy, RoundsOver, Ready, TurnsShaped
    <2> QED
      BY <2>7, <2>8, <2>9
  <1>5. CASE StepEnv
    <2>1. /\ state = "STREAMING" /\ stream = "none"
          /\ BeginRound(transcript, round)
      BY <1>0, <1>5 DEF StepEnv, EnvFinish, StateOwnsResources
    <2>2. Ready(transcript, round)
      BY <2>1, QuietState DEF IInv, GroupInv, ShapePart, ImagesFollowTheirGroup,
         TurnShape, TurnsShaped, TurnAtHand, Busy, RoundsOver, Ready
    <2> QED
      BY <1>0, <2>1, <2>2, BeginRoundShape
  <1>6. CASE AnswerRound
    <2>1. /\ stream # "none" /\ state = "STREAMING"
          /\ transcript' = Append(transcript, Answer)
          /\ state' = "DONE" /\ stream' = "none"
      BY <1>6 DEF AnswerRound, StreamOver
    <2>2. Answer \in Message /\ Answer.kind = "answer"
      BY MessageTypes DEF Answer, Msg
    <2>3. ImagesBehind(transcript') /\ TurnsShaped(transcript')
      BY <2>1, <2>2, ReplyTakesRound
    <2> QED
      BY <2>1, <2>3 DEF ShapePart, GroupImages, ImagesFollowTheirGroup,
                        TurnShape, TurnsShaped, TurnAtHand, Busy
  <1>7. CASE CallRound
    <2>1. PICK n \in 1 .. MaxCalls : transcript' = Append(transcript, Calls(n))
      BY <1>7 DEF CallRound
    <2>2. /\ stream # "none" /\ state = "STREAMING"
          /\ state' = "RUNNING_TOOL" /\ stream' = "none"
          /\ round' = round /\ images' = 0 /\ idx' = 0
      BY <1>7 DEF CallRound, StreamOver, IInv, FreshRound
    <2>3. /\ n \in Nat /\ Calls(n) \in Message /\ Calls(n).kind = "calls"
          /\ Calls(n).n = n
      BY ConstantsAssumption, MessageTypes DEF Calls, Msg
    <2>4. /\ ImagesBehind(transcript') /\ TurnsShaped(transcript')
          /\ TurnStart(transcript') # {} /\ RoundsUpTo(transcript', round)
      BY <2>1, <2>2, <2>3, ReplyTakesRound
    <2>5. /\ Len(transcript') = Len(transcript) + 1
          /\ transcript'[Len(transcript) + 1] = Calls(n)
          /\ OpenGroup' = Len(transcript) + 1
      BY <1>0, <2>1, <2>2, <2>3 DEF OpenGroup
    <2>6. ImagesOf(transcript', OpenGroup') = {}
      BY <1>0, <2>3, <2>5 DEF ImagesOf
    <2>7. GroupImages'
      BY <2>2, <2>6, FS_EmptySet DEF GroupImages
    <2>8. Unanswered(transcript')
      BY <1>0, <2>3, <2>5 DEF Unanswered
    <2>9. TurnAtHand'
      BY <2>2, <2>4, <2>8 DEF TurnAtHand, RoundsOver
    <2> QED
      BY <2>4, <2>7, <2>9 DEF ShapePart, ImagesFollowTheirGroup, TurnShape,
                              TurnsShaped
  <1>8. CASE ToolRun \/ ToolEnd
    BY <1>8, FinishToolShape DEF ToolRun, ToolEnd, NextTool
  <1>9. CASE ToolsDone
    <2> DEFINE t == transcript \o (IF images > 0 THEN <<Images(images)>> ELSE <<>>)
    <2>1. t \in Seq(Message) /\ Ready(t, round)
      BY <1>9, FanOutMakesReady DEF ToolsDone
    <2>2. BeginRound(t, round)
      BY <1>9 DEF ToolsDone
    <2> HIDE DEF t
    <2> QED
      BY <1>0, <2>1, <2>2, BeginRoundShape
  <1>10. CASE CancelRound
    <2>1. ~Busy' /\ stream' = "none"
      BY <1>10 DEF CancelRound, Busy
    <2>2. CASE state # "RUNNING_TOOL"
      BY <1>10, <2>1, <2>2, TurnLeft DEF CancelRound
    <2>3. CASE state = "RUNNING_TOOL"
      <3> DEFINE s == Cancelled(idx, calls)
      <3>1. idx \in Nat /\ calls \in Nat /\ idx <= calls
        BY <2>3, GroupFacts
      <3>2. s \in Seq(Message)
        BY <3>1, CancelledType
      <3>3. Len(s) = calls - idx
        BY <3>1, CancelledType
      <3>4. \A j \in 1 .. (calls - idx) : s[j] = Msg("cancelled", idx + j, FALSE)
        BY <3>1, CancelledType
      <3>5. transcript' = transcript \o s
        BY <1>10, <2>3 DEF CancelRound
      <3> HIDE DEF s
      <3>6. Len(s) <= calls - idx
            /\ \A j \in 1 .. Len(s) : s[j].kind \in {"result", "cancelled"}
        <4>1. 1 .. Len(s) = 1 .. (calls - idx) /\ Len(s) <= calls - idx
          BY <3>1, <3>3
        <4>2. ASSUME NEW j \in 1 .. (calls - idx) PROVE s[j].kind = "cancelled"
          <5>1. s[j] = Msg("cancelled", idx + j, FALSE)
            BY <3>4
          <5> QED
            BY <5>1 DEF Msg
        <4> QED
          BY <4>1, <4>2
      <3>7. ImagesBehind(transcript') /\ TurnsShaped(transcript')
        BY <2>3, <3>2, <3>5, <3>6, RepliesKeepShape
      <3> QED
        BY <2>1, <3>7 DEF ShapePart, GroupImages, ImagesFollowTheirGroup,
                          TurnShape, TurnsShaped, TurnAtHand, Busy
    <2> QED
      BY <2>2, <2>3
  <1> QED
    BY <1>1, <1>2, <1>3, <1>4, <1>5, <1>6, <1>7, <1>8, <1>9, <1>10
    DEF Next, Reply, Tool, Cancel

(* ShapeInv is an invariant: the images, the rounds and the answer of the   *)
(* turn at hand are those the agent's bookkeeping stands for.               *)
THEOREM ShapeInvariant == Spec => []ShapeInv
  <1>1. Init => ShapePart
    BY FS_EmptySet
    DEF Init, ShapePart, GroupImages, ImagesFollowTheirGroup, ImagesBehind,
        TurnShape, TurnsBegun, AnswersLast, RoundsCapped, Assistant, TurnStart,
        TurnAtHand, Busy
  <1>2. IInv /\ ShapePart /\ [Next]_vars => ShapePart'
    BY ShapeStep
  <1> QED
    BY <1>1, <1>2, InductiveInvariant, PTL DEF Spec, ShapeInv

(* The conversation has its shape, whatever was cancelled, timed out or     *)
(* failed on the way: images stand behind the group they came of, complete  *)
(* and once; a turn has at most MaxRounds assistant messages and nothing    *)
(* behind its answer.                                                       *)
THEOREM ConversationSafe == Spec => []ConversationShape
  <1>1. ShapeInv => ConversationShape
    BY DEF ShapeInv, ShapePart, ConversationShape
  <1> QED
    BY <1>1, ShapeInvariant, PTL
=============================================================================
