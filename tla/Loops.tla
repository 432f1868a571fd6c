------------------------------- MODULE Loops --------------------------------
(***************************************************************************)
(* The loops over a sequence the sequential parts of the code are made of. *)
(***************************************************************************)
EXTENDS Integers, Sequences

(* op over the elements of s, from the first to the last.                   *)
Over(op(_, _), base, s) ==
    LET after[n \in 0 .. Len(s)] ==
          IF n = 0 THEN base ELSE LET r == after[n - 1] IN op(r, s[n])
    IN after[Len(s)]

(* The turns of a loop, n times eight: a turn changes nothing once stop     *)
(* holds.  (In eights, so that TLC's stack holds the loops of a run.)       *)
Turns(n, turn(_), stop(_), r) ==
    LET four(x) == turn(turn(turn(turn(x))))
        at[k \in 0 .. n] ==
          IF k = 0 THEN r
          ELSE LET x == at[k - 1] IN IF stop(x) THEN x ELSE four(four(x))
    IN at[n]

(* Enough of them for n turns.                                              *)
Eights(n) == n \div 8 + 1

(* The sequences of ss, one behind the other.                               *)
Joined(ss) == Over(LAMBDA a, b : a \o b, <<>>, ss)

(* The first index at which p holds, 0 when there is none.                  *)
Where(p(_), s) ==
    IF \E i \in DOMAIN s : p(s[i])
    THEN CHOOSE i \in DOMAIN s : p(s[i]) /\ \A k \in 1 .. i - 1 : ~p(s[k])
    ELSE 0
=============================================================================
