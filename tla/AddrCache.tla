----------------------------- MODULE AddrCache -----------------------------
(***************************************************************************)
(* The table of name service answers, src/src/addr_cache.c, and its one    *)
(* reader, the first half of nm_socket_resolve_addrs                       *)
(* (src/src/transport_socket.c): ask the table, else the name service, and *)
(* keep what it said.                                                      *)
(*                                                                         *)
(* An entry carries the time it has left, not the moment it expires; every *)
(* entry starts with TTL.  An answer is a sequence of addresses, already   *)
(* cut to NM_ADDR_CACHE_MAX_ADDRS as the resolver's loop cuts it.          *)
(***************************************************************************)
EXTENDS Integers, Sequences

CONSTANTS
    Hosts,      \* host names as callers spell them
    Fold,       \* the name behind a spelling: ASCII case does not matter
    TooLong,    \* spellings past ADDR_HOST_MAX
    Ports,
    Answers,    \* what the name service may say: non-empty sequences
    Entries,    \* NM_ADDR_CACHE_ENTRIES
    TTL         \* NM_ADDR_CACHE_TTL_SECONDS, in units of Age

ASSUME CacheAssumption ==
    /\ Hosts # {} /\ Ports # {}
    /\ Hosts \subseteq DOMAIN Fold /\ TooLong \subseteq Hosts
    /\ \A a \in Answers : DOMAIN a # {}
    /\ <<>> \notin Answers
    /\ Entries \in Nat /\ Entries > 0 /\ TTL \in Nat /\ TTL > 0

VARIABLES
    entries,  \* the table
    hand,     \* the replacement hand
    told      \* for the properties: per name and port, what the name
              \* service said last and how long that is to be believed

cache == <<entries, hand, told>>

Slots  == 1 .. Entries
Places == [host : Hosts, port : Ports]
Key(p) == <<Fold[p.host], p.port>>
Keys   == {Key(p) : p \in Places}
NoList == <<>>

-----------------------------------------------------------------------------
(* The table                                                                *)

Used(t, i) == t[i].list # NoList
Standing(t, i) == Used(t, i) /\ t[i].left > 0

(* Mutant: a lookup that does not ask for the port.                         *)
HoldsHost(t, i, p) == Used(t, i) /\ Fold[t[i].place.host] = Fold[p.host]

Holds(t, i, p) == Used(t, i) /\ Key(t[i].place) = Key(p)

First(S) == CHOOSE i \in S : \A j \in S : i <= j

Hits(p) == {i \in Slots : Holds(entries, i, p) /\ Standing(entries, i)}

Lookup(p) == IF Hits(p) = {} THEN NoList ELSE entries[First(Hits(p))].list

(* A miss frees the expired entries of its name on the way.                 *)
Freed(p) == [i \in Slots |->
                IF Holds(entries, i, p) THEN [entries[i] EXCEPT !.list = NoList]
                ELSE entries[i]]

(* Where a store goes: the name's own entry, else a free or expired one,    *)
(* else the hand's.                                                         *)
Own(t, p) == {i \in Slots : Holds(t, i, p)}
Spare(t)  == {i \in Slots : ~Standing(t, i)}

(* Mutant: a store that takes the hand's slot, spare or not.                *)
SlotOfHand(t, p) == IF Own(t, p) # {} THEN First(Own(t, p)) ELSE hand

Slot(t, p) == IF Own(t, p) # {} THEN First(Own(t, p))
              ELSE IF Spare(t) # {} THEN First(Spare(t)) ELSE hand

Turned(t, p) == IF Own(t, p) = {} /\ Spare(t) = {}
                THEN (hand % Entries) + 1 ELSE hand

-----------------------------------------------------------------------------
(* Operations                                                               *)

CacheInit ==
    /\ entries = [i \in Slots |-> [place |-> CHOOSE p \in Places : TRUE,
                                   left |-> 0, list |-> NoList]]
    /\ hand = 1
    /\ told = [k \in Keys |-> [list |-> NoList, left |-> 0]]

(* The table answers.                                                       *)
Remembered(p, list) ==
    /\ Lookup(p) # NoList
    /\ list = Lookup(p)
    /\ UNCHANGED cache

(* The name service answers, and the table keeps the answer.  A name past   *)
(* the key's length is not kept.                                            *)
Asked(p, list) ==
    /\ Lookup(p) = NoList
    /\ list \in Answers
    /\ IF p.host \in TooLong
       THEN entries' = Freed(p) /\ UNCHANGED <<hand, told>>
       ELSE /\ entries' = [Freed(p) EXCEPT ![Slot(Freed(p), p)] =
                              [place |-> p, left |-> TTL, list |-> list]]
            /\ hand' = Turned(Freed(p), p)
            /\ told' = [told EXCEPT ![Key(p)] = [list |-> list, left |-> TTL]]

(* The name service fails: nothing is kept.                                 *)
Unanswered(p, list) ==
    /\ Lookup(p) = NoList
    /\ list = NoList
    /\ entries' = Freed(p)
    /\ UNCHANGED <<hand, told>>

Resolve(p, list) ==
    Remembered(p, list) \/ Asked(p, list) \/ Unanswered(p, list)

Older(n) == IF n = 0 THEN 0 ELSE n - 1

Age ==
    /\ entries' = [i \in Slots |-> [entries[i] EXCEPT !.left = Older(@)]]
    /\ told' = [k \in Keys |-> [told[k] EXCEPT !.left = Older(@)]]
    /\ UNCHANGED hand

CacheNext ==
    \/ \E p \in Places, list \in Answers \cup {NoList} : Resolve(p, list)
    \/ Age

CacheSpec == CacheInit /\ [][CacheNext]_cache

-----------------------------------------------------------------------------
(* Properties                                                               *)

Lists == Answers \cup {NoList}

CacheTypeOK ==
    /\ entries \in [Slots -> [place : Places, left : 0 .. TTL, list : Lists]]
    /\ hand \in Slots
    /\ told \in [Keys -> [list : Lists, left : 0 .. TTL]]

(* Whatever expired, was evicted or was stored again under another spelling *)
(* in between, the table answers a name and port only with what the name    *)
(* service said last of exactly that name and port, in its order, and only  *)
(* while that is fresh: "answering for a different name than was asked is   *)
(* the one thing a cache may never do" (addr_cache.h).                      *)
AnswersItsOwnName ==
    \A p \in Places : Lookup(p) # NoList =>
        told[Key(p)].left > 0 /\ Lookup(p) = told[Key(p)].list

(* A live answer is forgotten early only to make room: the step that drops  *)
(* it stores another name in its place, and no other place was to be had.   *)
ForgetsOnlyWhenFull ==
    [][\A i \in Slots :
          Standing(entries, i) /\ entries[i].left > 1
          /\ ~(Standing(entries', i) /\ Key(entries'[i].place) = Key(entries[i].place))
          => \A j \in Slots : Standing(entries, j)]_cache

(* Of every name it answers the table holds the last answer, with the time  *)
(* that is left to it.                                                      *)
AsTold ==
    \A i \in Slots : Standing(entries, i) =>
        told[Key(entries[i].place)] = [list |-> entries[i].list, left |-> entries[i].left]

CacheInv == CacheTypeOK /\ AsTold

(* The table never answers for another name, and keeps what it can.         *)
NamesKept == []AnswersItsOwnName /\ ForgetsOnlyWhenFull
=============================================================================
