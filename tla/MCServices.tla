----------------------------- MODULE MCServices -----------------------------
(* The services of a session that share no state, checked side by side: in  *)
(* each behaviour one of them moves (`turn`) and the others stand still in  *)
(* one of their initial states, so that the instance is as large as the     *)
(* services together and not as their product.                              *)
EXTENDS FileLedger, ConnectWalk

---------------------------------------------------------------------------
(* The file ledger.                                                         *)
Sizes == [a |-> 2, b |-> 2, c |-> 4, x |-> 99]  \* x is longer than a result

Whole  == [offset |-> 1, limit |-> 0, numbered |-> FALSE]
Tail2  == [offset |-> 2, limit |-> 0, numbered |-> FALSE]
Listed == [offset |-> 1, limit |-> 0, numbered |-> TRUE]

Alone        == [p \in {"p"} |-> p]
SameSizes    == {<<"a", "b">>, <<"c">>}  \* of one size, in lines or not
ThreeWindows == {Whole, Tail2, Listed}

---------------------------------------------------------------------------
(* The connect walk: a name with more addresses than a walk holds, and one  *)
(* with just enough, asked for at one place.                                *)
MCFamilyOf == [a \in {"six1", "six2", "four1", "four2"} |->
                  IF a \in {"six1", "six2"} THEN "v6" ELSE "v4"]
Overflowing == {<<"six1", "six2", "four1", "four2">>, <<"four1", "six1">>}
Home        == [host |-> "api", port |-> 443]

---------------------------------------------------------------------------
(* The name table by itself: three names in a table of two, one spelled two *)
(* ways, one too long to be a key.                                          *)
NameFold == [h \in {"api", "API", "web", "long"} |-> IF h = "API" THEN "api" ELSE h]

---------------------------------------------------------------------------
VARIABLE turn
all == <<turn, vars, walk>>

ServicesInit ==
    /\ turn \in {"ledger", "walk", "names"}
    /\ Init /\ WalkInit
    /\ turn # "ledger" => \A f \in Names : disk[f].content = <<"c">>
    /\ turn # "walk" => ~familySkip /\ skipFamilies = {}

ServicesNext ==
    /\ UNCHANGED turn
    /\ \/ turn = "ledger" /\ Next     /\ UNCHANGED walk
       \/ turn = "walk"   /\ WalkStep({Home}) /\ UNCHANGED vars
       \/ turn = "names"  /\ CacheNext /\ UNCHANGED <<vars, shared, conn>>

(* Each service keeps the fairness it has by itself.                        *)
ServicesSpec ==
    /\ ServicesInit /\ [][ServicesNext]_all
    /\ WF_walk(turn = "walk" /\ Tick)
    /\ \A c \in Conns : WF_walk(turn = "walk" /\ Step(c))
=============================================================================
