---------------------------- MODULE ToolProtocol ----------------------------
(***************************************************************************)
(* What a chat provider accepts as a conversation, and therefore what the  *)
(* agent promises to keep on the wire: an assistant message that asks for  *)
(* n tool calls is followed by its n results, in call order and with       *)
(* nothing in between, before anything else is said and before any request *)
(* is sent.  The log only grows.                                           *)
(*                                                                         *)
(* This is the abstract specification that module Agent implements.        *)
(***************************************************************************)
EXTENDS Integers, Sequences

VARIABLES
    log,     \* the messages of the conversation, oldest first
    size,    \* tool calls the last assistant message asked for (0: none open)
    done,    \* how many of them have been answered
    onWire   \* a request is out and its reply has not been judged yet

vars == <<log, size, done, onWire>>

Calls(n)       == [kind |-> "calls", n |-> n, img |-> FALSE]
IsReply(m, i)  == m.kind \in {"result", "cancelled"} /\ m.n = i
IsSpeech(m)    == m.kind \notin {"calls", "result", "cancelled"}

(* log' is log with more messages behind it. *)
Extends == /\ Len(log') >= Len(log)
           /\ \A i \in 1 .. Len(log) : log'[i] = log[i]

Added == (Len(log) + 1) .. Len(log')

Init == log = <<>> /\ size = 0 /\ done = 0 /\ onWire = FALSE

(* Nobody owes a tool result: anything but a tool message may be said, and  *)
(* a request may go out or end.                                             *)
Speak == /\ size = done
         /\ Extends
         /\ \A i \in Added : IsSpeech(log'[i])
         /\ size' = 0 /\ done' = 0

(* Only a model's reply opens a group.                                      *)
Ask == /\ onWire /\ ~onWire'
       /\ size = done
       /\ size' > 0 /\ done' = 0
       /\ log' = Append(log, Calls(size'))

(* The next few results of the open group, in call order; when they were    *)
(* the last ones the group may be closed at once.                           *)
Answer == /\ ~onWire /\ ~onWire'
          /\ Extends
          /\ Len(log') - Len(log) \in 1 .. (size - done)
          /\ \A i \in Added : IsReply(log'[i], done + i - Len(log))
          /\ \/ size' = size /\ done' = done + Len(log') - Len(log)
             \/ /\ Len(log') - Len(log) = size - done
                /\ size' = 0 /\ done' = 0

Next == Speak \/ Ask \/ Answer

Spec == Init /\ [][Next]_vars
=============================================================================
