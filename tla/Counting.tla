------------------------------ MODULE Counting ------------------------------
(***************************************************************************)
(* Induction over numbers, where no backend can instantiate the library's  *)
(* induction theorems: a least number, a climb from 0, and that what is    *)
(* computed step by step is a function.                                    *)
(***************************************************************************)
EXTENDS Integers, WellFoundedInduction, TLAPS

(* A non-empty set of naturals has a least element.                         *)
LEMMA LeastNatural ==
    ASSUME NEW T, T \subseteq Nat, T # {}
    PROVE  \E x \in T : \A y \in T : x <= y
  <1>1. PICK x \in T : \A y \in T : ~(<<y, x>> \in OpToRel(<, Nat))
    BY NatLessThanWellFounded, WFMin
  <1>2. ASSUME NEW y \in T, y < x PROVE <<y, x>> \in OpToRel(<, Nat)
    BY <1>2 DEF OpToRel
  <1>3. \A y \in T : ~(y < x)
    BY <1>1, <1>2
  <1> QED
    BY <1>3

(* A set that 0 is in, and with each number below m the next, has them all  *)
(* up to m.                                                                 *)
LEMMA UpTo ==
    ASSUME NEW m \in Nat, NEW S, 0 \in S,
           \A n \in 1 .. m : n - 1 \in S => n \in S
    PROVE  \A n \in 0 .. m : n \in S
  <1> DEFINE Bad == {n \in 0 .. m : n \notin S}
  <1>1. SUFFICES ASSUME Bad # {} PROVE FALSE
    OBVIOUS
  <1>2. PICK n \in Bad : \A k \in Bad : n <= k
    <2>1. Bad \subseteq Nat
      OBVIOUS
    <2> HIDE DEF Bad
    <2> QED
      BY <1>1, <2>1, LeastNatural
  <1>3. n \in 1 .. m /\ n - 1 \in 0 .. m /\ n - 1 \notin Bad
    BY <1>2
  <1> QED
    BY <1>2, <1>3

(* f starts at x and goes on by G, within X.                                *)
Iterates(f, m, X, x, G) ==
    /\ f \in [0 .. m -> X]
    /\ f[0] = x /\ \A n \in 1 .. m : f[n] = G[<<n, f[n - 1]>>]

(* What is computed step by step, each value of X from the one before it,   *)
(* is a function.                                                           *)
LEMMA Recursion ==
    ASSUME NEW m \in Nat, NEW X, NEW x \in X, NEW G \in [(1 .. m) \X X -> X]
    PROVE  \E f : Iterates(f, m, X, x, G)
  <1> DEFINE Upto(n, f) == f[0] = x /\ \A k \in 1 .. n : f[k] = G[<<k, f[k - 1]>>]
             S == {n \in 0 .. m : \E f \in [0 .. n -> X] : Upto(n, f)}
  <1>1. 0 \in S
    <2> DEFINE f == [k \in 0 .. 0 |-> x]
    <2>1. f \in [0 .. 0 -> X] /\ Upto(0, f) /\ 0 \in 0 .. m
      OBVIOUS
    <2> QED
      BY <2>1
  <1>2. ASSUME NEW n \in 1 .. m, n - 1 \in S PROVE n \in S
    <2>1. PICK f \in [0 .. n - 1 -> X] : Upto(n - 1, f)
      BY <1>2
    <2> DEFINE last == G[<<n, f[n - 1]>>]
               g == [k \in 0 .. n |-> IF k = n THEN last ELSE f[k]]
    <2>2. /\ n \in Nat /\ n - 1 \in 0 .. n - 1
          /\ \A k \in 0 .. n : k # n => k \in 0 .. n - 1
      OBVIOUS
    <2>3. last \in X
      <3>1. <<n, f[n - 1]>> \in (1 .. m) \X X
        BY <2>2
      <3> QED
        BY <3>1
    <2>4. g \in [0 .. n -> X]
      <3> HIDE DEF last
      <3> QED
        BY <2>2, <2>3
    <2>5. \A k \in 0 .. n - 1 : g[k] = f[k]
      <3> HIDE DEF last
      <3> QED
        BY <2>2
    <2>6. g[n] = last /\ g[0] = x
      <3>1. g[n] = last
        OBVIOUS
      <3>2. 0 \in 0 .. n - 1
        OBVIOUS
      <3> HIDE DEF g
      <3> QED
        BY <2>1, <2>5, <3>1, <3>2
    <2> HIDE DEF g
    <2>7. ASSUME NEW k \in 1 .. n PROVE g[k] = G[<<k, g[k - 1]>>]
      <3>1. CASE k = n
        BY <2>2, <2>5, <2>6, <3>1
      <3>2. CASE k # n
        <4>1. k \in 1 .. n - 1 /\ k \in 0 .. n - 1 /\ k - 1 \in 0 .. n - 1
          BY <3>2
        <4> QED
          BY <2>1, <2>5, <4>1
      <3> QED
        BY <3>1, <3>2
    <2>8. n \in 0 .. m
      OBVIOUS
    <2> QED
      BY <2>4, <2>6, <2>7, <2>8
  <1>3. m \in 0 .. m
    OBVIOUS
  <1>4. \A n \in 1 .. m : n - 1 \in S => n \in S
    BY <1>2
  <1> HIDE DEF S
  <1>5. m \in S
    BY <1>1, <1>3, <1>4, UpTo
  <1> QED
    BY <1>5 DEF S, Iterates
=============================================================================
