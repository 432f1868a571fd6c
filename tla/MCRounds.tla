------------------------------ MODULE MCRounds ------------------------------
(* What goes in front of a round's request and what the request carries,    *)
(* checked side by side: in each behaviour one of the two moves (`side`)    *)
(* and the other stands still, since neither reads the other's state.       *)
EXTENDS Reminders, Request

(* An answer with a trace, and tool calls with a trace and signed details:  *)
(* what echoes of both kinds need to be told apart.                         *)
TwoReplies == {[calls |-> c, trace |-> TRUE, details |-> c] : c \in BOOLEAN}

VARIABLE side
rounds == <<side, reminders, vars>>

(* What stands still does so in one of its initial states.                  *)
RoundsInit ==
    /\ side \in {"reminders", "request"}
    /\ RemindersInit /\ Init
    /\ side # "reminders" => enabled
    /\ side # "request" =>
         /\ model = CHOOSE m \in Models : TRUE
         /\ known = Models /\ live = 0 /\ echo = "off" /\ sig = "off"

RoundsNext ==
    /\ UNCHANGED side
    /\ \/ side = "reminders" /\ RemindersNext /\ UNCHANGED vars
       \/ side = "request" /\ Next /\ UNCHANGED reminders

RoundsSpec == RoundsInit /\ [][RoundsNext]_rounds
=============================================================================
