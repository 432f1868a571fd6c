---------------------------- MODULE ConnectWalk ----------------------------
(***************************************************************************)
(* The event-driven drive of a connection up to its response: the bounded  *)
(* connect walk (src/src/transport_socket.c), the TLS handshake phase and  *)
(* the request drain (src/src/transport.c).  Several connections are in    *)
(* flight at once (a round, a catalog fetch, a search); they share the     *)
(* name table (AddrCache), the family latch and the connect error.         *)
(*                                                                         *)
(* Time is counted in 1/Grain of a millisecond, because the waits handed   *)
(* to the event loop are whole milliseconds.  The loop steps a connection  *)
(* when its socket is ready or when WaitMs has come down to 0.             *)
(***************************************************************************)
EXTENDS AddrCache

CONSTANTS
    Conns,
    FamilyOf,    \* the family of each address: "v4" or "v6"
    MaxAddrs,    \* NM_CONNECT_MAX_ADDRS
    ConnectMs,   \* connect_timeout
    HandshakeMs, \* handshake_timeout; 0 is off
    Grain,       \* units of time in a millisecond
    ReqLen,      \* parts of a request
    SocketsFail  \* socket() may fail

ASSUME WalkAssumption ==
    /\ \A a \in Answers : a \in Seq(DOMAIN FamilyOf)
    /\ \A a \in DOMAIN FamilyOf : FamilyOf[a] \in {"v4", "v6"}
    /\ MaxAddrs \in Nat /\ MaxAddrs > 0
    /\ ConnectMs \in Nat /\ ConnectMs > 0 /\ HandshakeMs \in Nat
    /\ Grain \in Nat /\ Grain > 0 /\ ReqLen \in Nat /\ ReqLen > 0
    /\ SocketsFail \in BOOLEAN

VARIABLES
    familySkip,    \* family_skip, the policy
    skipFamilies,  \* skip_families, the latch
    connectError,  \* is a connect error on record for the app's line?
    conn           \* the connections

shared == <<familySkip, skipFamilies, connectError>>
walk == <<cache, shared, conn>>

Families == {"v4", "v6"}
NotTried == "not tried"
Closed   == [phase |-> "CLOSED"]

-----------------------------------------------------------------------------
(* The order of a walk                                                      *)

Shorter(m, n) == IF m < n THEN m ELSE n

Addrs    == DOMAIN FamilyOf
Deferred == {a \in Addrs : familySkip /\ FamilyOf[a] \in skipFamilies}
Of(list, S) == SelectSeq(list, LAMBDA a : a \in S)

KeptFirst(list) == Of(list, Addrs \ Deferred) \o Of(list, Deferred)

(* Mutant: the cap is applied before the families are ordered.              *)
WalkOfCut(list) ==
    LET cut == SubSeq(list, 1, Shorter(MaxAddrs, Len(list))) IN KeptFirst(cut)

WalkOf(list) == SubSeq(KeptFirst(list), 1, Shorter(MaxAddrs, Len(list)))

-----------------------------------------------------------------------------
(* Waiting                                                                  *)

(* Mutant: a remainder below a millisecond reads as due.                    *)
MsLeftTruncated(age, ms) ==
    LET left == ms * Grain - age IN IF left <= 0 THEN 0 ELSE left \div Grain

MsLeft(age, ms) ==
    LET left == ms * Grain - age
    IN  IF left <= 0 THEN 0 ELSE IF left \div Grain = 0 THEN 1 ELSE left \div Grain

(* Mutant: a connect hands the loop no deadline.                            *)
WaitMsHandshake(k) ==
    IF k.phase = "HANDSHAKE" /\ HandshakeMs > 0 THEN MsLeft(k.age, HandshakeMs)
    ELSE -1

WaitMs(k) ==
    CASE k.phase = "CONNECTING" -> MsLeft(k.age, ConnectMs)
      [] k.phase = "HANDSHAKE"  -> IF HandshakeMs = 0 THEN -1
                                   ELSE MsLeft(k.age, HandshakeMs)
      [] OTHER -> -1

AttemptSpent(k)   == k.age >= ConnectMs * Grain
HandshakeSpent(k) == HandshakeMs > 0 /\ k.age >= HandshakeMs * Grain

Wakes(k) == k.ready \/ WaitMs(k) = 0

-----------------------------------------------------------------------------
(* What one step may make of a connection                                   *)

Failed(k, why) == [k EXCEPT !.err = why, !.ready = FALSE]

(* Mutant: a partial send reported as none, so that parts are sent again.   *)
DrainedTwice(k) ==
    {[k EXCEPT !.phase = "READING", !.left = 0, !.ready = FALSE]} \cup
    {[k EXCEPT !.phase = "SENDING", !.left = k.left + n, !.ready = FALSE] :
        n \in 0 .. k.left}

(* nm_socket_step_send: the socket takes some of the request, all of it, or *)
(* nothing and fails.                                                       *)
Drained(k) ==
    {[k EXCEPT !.phase = "READING", !.left = 0, !.ready = FALSE],
     Failed([k EXCEPT !.phase = "SENDING"], "send")} \cup
    {[k EXCEPT !.phase = "SENDING", !.left = n, !.ready = FALSE] : n \in 1 .. k.left}

(* conn_handshake_step: one attempt.  A finished handshake sends on.        *)
Handshaken(k) ==
    IF HandshakeSpent(k)
    THEN {Failed([k EXCEPT !.phase = "IDLE"], "tls")}
    ELSE {[k EXCEPT !.ready = FALSE], Failed([k EXCEPT !.phase = "IDLE"], "tls")}
         \cup Drained([k EXCEPT !.secure = TRUE])

(* The connect is done: the handshake's first attempt, or the first drain.  *)
Connected(k) ==
    IF k.tls
    THEN LET h == [k EXCEPT !.phase = "HANDSHAKE", !.age = 0, !.ready = FALSE]
         IN  {h, Failed([h EXCEPT !.phase = "IDLE"], "tls")}
    ELSE Drained(k)

-----------------------------------------------------------------------------
(* Opening                                                                  *)

(* What connect() on a fresh socket may show at once.                       *)
Outcomes == {"in flight", "up", "refused"}
            \cup (IF SocketsFail THEN {"no socket"} ELSE {})

Free(c) == conn[c].phase = "CLOSED"

(* Mutant: queueing starts the send whatever the phase.                     *)
PhaseQueuedAtOnce(phase) == "SENDING"

(* A request queued while the connection is on its way waits for it.        *)
PhaseQueued(phase) ==
    IF phase \in {"CONNECTING", "HANDSHAKE"} THEN phase ELSE "SENDING"

Opened(list, tls, out) ==
    LET addrs == WalkOf(list)
    IN  [phase |-> PhaseQueued("CONNECTING"), tls |-> tls, secure |-> FALSE,
         addrs |-> addrs, idx |-> 1, net |-> out, ready |-> out # "in flight",
         age |-> 0, abandoned |-> {}, left |-> ReqLen, err |-> "ok",
         fate |-> [i \in 1 .. Len(addrs) |-> NotTried],
         list |-> list, skipped |-> {f \in skipFamilies : familySkip}]

(* nm_connect_async and nm_request_queue, which its callers call together.  *)
(* A connect that cannot have its first socket changes nothing; else the    *)
(* name does not resolve ...                                                *)
NameFails(c, p) ==
    /\ Free(c)
    /\ Unanswered(p, NoList)
    /\ connectError' = TRUE
    /\ UNCHANGED <<familySkip, skipFamilies, conn>>

(* ... the first address gets no socket ...                                 *)
FirstFails(c, p, list) ==
    /\ Free(c) /\ SocketsFail
    /\ Remembered(p, list) \/ Asked(p, list)
    /\ connectError' = TRUE
    /\ UNCHANGED <<familySkip, skipFamilies, conn>>

(* ... or the first attempt is in flight.                                   *)
Open(c, p, list, tls, out) ==
    /\ Free(c)
    /\ Remembered(p, list) \/ Asked(p, list)
    /\ out # "no socket"
    /\ conn' = [conn EXCEPT ![c] = Opened(list, tls, out)]
    /\ UNCHANGED shared

-----------------------------------------------------------------------------
(* The walk                                                                 *)

(* The current attempt is given up: refused, or silent for its budget.      *)
AttemptVerdict(k) == IF k.net = "refused" THEN "refused" ELSE "silent"

(* Mutant: a refusal counts against the family like silence.                *)
AbandonedRefused(k) == k.abandoned \cup {FamilyOf[k.addrs[k.idx]]}

Abandoned(k) ==
    IF k.net = "in flight" THEN k.abandoned \cup {FamilyOf[k.addrs[k.idx]]}
    ELSE k.abandoned

(* The walk of k has gone through addresses up to j, with these outcomes.   *)
Walked(k, j, outs) ==
    [k EXCEPT !.abandoned = Abandoned(k), !.idx = j, !.age = 0,
              !.fate = [i \in DOMAIN @ |-> IF i = k.idx THEN AttemptVerdict(k)
                                           ELSE IF i \in DOMAIN outs /\ i < j THEN outs[i]
                                           ELSE @[i]]]

(* note_family_skips                                                        *)
NewSkips(k) == k.abandoned \ (skipFamilies \cup {FamilyOf[k.addrs[k.idx]]})

Completes(c, k) ==
    /\ skipFamilies' = IF familySkip THEN skipFamilies \cup NewSkips(k)
                       ELSE skipFamilies
    /\ connectError' = FALSE
    /\ \E r \in Connected(k) : conn' = [conn EXCEPT ![c] = r]
    /\ UNCHANGED <<cache, familySkip>>

Stepping(c, phase) ==
    conn[c].phase = phase /\ conn[c].err = "ok" /\ Wakes(conn[c])

StepConnected(c) ==
    /\ Stepping(c, "CONNECTING")
    /\ conn[c].net = "up"
    /\ Completes(c, conn[c])

(* One step goes on until an attempt is in flight or up.  out[i] is what    *)
(* dialling address i shows at once.                                        *)
Moves(c) ==
    /\ Stepping(c, "CONNECTING")
    /\ \/ conn[c].net = "refused"
       \/ conn[c].net = "in flight" /\ AttemptSpent(conn[c])

Landing(k, outs) == {j \in DOMAIN outs : outs[j] \in {"in flight", "up"}}

StepMovesOn(c, outs) ==
    LET k == conn[c]
        j == First(Landing(k, outs))
        w == [Walked(k, j, outs) EXCEPT !.net = outs[j], !.ready = FALSE]
    IN  /\ Moves(c)
        /\ Landing(k, outs) # {}
        /\ IF outs[j] = "up" THEN Completes(c, w)
           ELSE /\ conn' = [conn EXCEPT ![c] = w]
                /\ UNCHANGED <<cache, shared>>

StepExhausts(c, outs) ==
    LET k == conn[c]
        w == Walked(k, Len(k.addrs) + 1, outs)
    IN  /\ Moves(c)
        /\ Landing(k, outs) = {}
        /\ conn' = [conn EXCEPT ![c] =
                       Failed([w EXCEPT !.phase = "IDLE", !.net = "none"], "socket")]
        /\ connectError' = TRUE
        /\ UNCHANGED <<cache, familySkip, skipFamilies>>

StepHandshake(c) ==
    /\ Stepping(c, "HANDSHAKE")
    /\ \E r \in Handshaken(conn[c]) : conn' = [conn EXCEPT ![c] = r]
    /\ UNCHANGED <<cache, shared>>

StepSending(c) ==
    /\ Stepping(c, "SENDING")
    /\ \E r \in Drained(conn[c]) : conn' = [conn EXCEPT ![c] = r]
    /\ UNCHANGED <<cache, shared>>

(* Mutant: the walk stops one address short.                                *)
AheadButLast(k) == k.idx + 1 .. Len(k.addrs) - 1

Ahead(k) == k.idx + 1 .. Len(k.addrs)

Step(c) ==
    \/ StepConnected(c)
    \/ conn[c].phase = "CONNECTING" /\
       \E outs \in [Ahead(conn[c]) -> Outcomes] :
          StepMovesOn(c, outs) \/ StepExhausts(c, outs)
    \/ StepHandshake(c)
    \/ StepSending(c)

(* The owner lets go of the connection: it read its answer, met an error,   *)
(* or was cancelled.                                                        *)
Close(c) ==
    /\ ~Free(c)
    /\ conn' = [conn EXCEPT ![c] = Closed]
    /\ UNCHANGED <<cache, shared>>

-----------------------------------------------------------------------------
(* Around the connections                                                   *)

(* The peer answers the attempt, or its stack refuses it.                   *)
Answered(c, out) ==
    /\ conn[c].phase = "CONNECTING" /\ conn[c].net = "in flight"
    /\ out \in {"up", "refused"}
    /\ conn' = [conn EXCEPT ![c].net = out, ![c].ready = TRUE]
    /\ UNCHANGED <<cache, shared>>

(* Bytes of the handshake arrive, or there is room to send.                 *)
Readies(c) ==
    /\ conn[c].phase \in {"HANDSHAKE", "SENDING"}
    /\ conn[c].err = "ok" /\ ~conn[c].ready
    /\ conn' = [conn EXCEPT ![c].ready = TRUE]
    /\ UNCHANGED <<cache, shared>>

Limit(k) == IF k.phase = "CONNECTING" THEN ConnectMs * Grain
            ELSE IF k.phase = "HANDSHAKE" THEN HandshakeMs * Grain ELSE 0

Aged(k, n) == IF Limit(k) = 0 THEN k
              ELSE [k EXCEPT !.age = Shorter(Limit(k), @ + n)]

Tick ==
    /\ conn' = [c \in Conns |-> Aged(conn[c], 1)]
    /\ UNCHANGED <<cache, shared>>

(* Long enough for the name table to age: every budget is spent as well.    *)
LongTick ==
    /\ Age
    /\ conn' = [c \in Conns |-> Aged(conn[c], Limit(conn[c]))]
    /\ UNCHANGED shared

(* /config: the policy is switched, the latch is cleared.                   *)
SetPolicy(on) ==
    /\ familySkip' = on
    /\ UNCHANGED <<cache, skipFamilies, connectError, conn>>

ResetLatch ==
    /\ skipFamilies' = {}
    /\ UNCHANGED <<cache, familySkip, connectError, conn>>

-----------------------------------------------------------------------------
(* The specification                                                        *)

WalkInit ==
    /\ CacheInit
    /\ familySkip \in BOOLEAN /\ skipFamilies \in SUBSET Families
    /\ connectError = FALSE
    /\ conn = [c \in Conns |-> Closed]

Opening(c, places) ==
    \E p \in places :
       \/ NameFails(c, p)
       \/ \E list \in Answers :
             \/ FirstFails(c, p, list)
             \/ \E tls \in BOOLEAN, out \in Outcomes : Open(c, p, list, tls, out)

(* A step of walks that are opened to some places only.                     *)
WalkStep(places) ==
    \/ \E c \in Conns :
          \/ Opening(c, places) \/ Step(c) \/ Close(c) \/ Readies(c)
          \/ \E out \in Outcomes : Answered(c, out)
    \/ Tick \/ LongTick
    \/ \E on \in BOOLEAN : SetPolicy(on)
    \/ ResetLatch

WalkNext == WalkStep(Places)

WalkSpec == WalkInit /\ [][WalkNext]_walk

(* Time passes, and the event loop steps a connection whose socket is ready *)
(* or whose wait has run out.                                               *)
WalkFairSpec == WalkSpec /\ WF_walk(Tick) /\ \A c \in Conns : WF_walk(Step(c))

-----------------------------------------------------------------------------
(* Properties                                                               *)

Results == {"ok", "socket", "tls", "send"}
Fates   == {NotTried, "silent", "refused", "no socket"}

Connections ==
    [phase : {"CONNECTING", "HANDSHAKE", "SENDING", "READING", "IDLE"},
     tls : BOOLEAN, secure : BOOLEAN, ready : BOOLEAN,
     addrs : Seq(Addrs), list : Answers, skipped : SUBSET Families,
     idx : Nat, net : {"in flight", "up", "refused", "none"}, age : Nat,
     abandoned : SUBSET Families, left : 0 .. ReqLen,
     err : Results, fate : Seq(Fates)]

WalkTypeOK ==
    /\ CacheTypeOK
    /\ familySkip \in BOOLEAN /\ skipFamilies \in SUBSET Families
    /\ connectError \in BOOLEAN
    /\ conn \in [Conns -> Connections \cup {Closed}]

(* The address at m of the list of k is dialled before the one at n: the    *)
(* families that are latched come last, the resolver's order stands in each.*)
Late(k, n)      == FamilyOf[k.list[n]] \in k.skipped
Before(k, m, n) == \/ ~Late(k, m) /\ Late(k, n)
                   \/ (Late(k, m) <=> Late(k, n)) /\ m < n

(* pos[i] is the place in the list of the i-th address that is dialled: the *)
(* walk takes the first of that order, whatever is left out comes later.    *)
InOrder(k, pos) ==
    /\ \A i \in DOMAIN k.addrs : k.addrs[i] = k.list[pos[i]]
    /\ \A i, j \in DOMAIN k.addrs : i < j => Before(k, pos[i], pos[j])
    /\ \A n \in DOMAIN k.list \ {pos[i] : i \in DOMAIN k.addrs} :
          \A i \in DOMAIN k.addrs : Before(k, pos[i], n)

Ordered(k) ==
    /\ Len(k.addrs) = Shorter(MaxAddrs, Len(k.list))
    /\ \E pos \in [DOMAIN k.addrs -> DOMAIN k.list] : InOrder(k, pos)

(* "A hint, never a veto" (transport.h): whatever is latched, a walk dials  *)
(* every address the name has, up to its cap, and the cap never costs a     *)
(* kept address its place to a deferred one.  Within the kept ones, and     *)
(* within the deferred ones after them, the resolver's order stands.        *)
HintNeverVeto == \A c \in Conns : ~Free(c) => Ordered(conn[c])

(* A family is latched only under the policy, at the moment an address of   *)
(* another family answers, and because in that very walk one of its own     *)
(* addresses stayed silent for the whole budget.                            *)
LatchNeedsSilenceAndAnAnswer ==
    [][\A f \in skipFamilies' \ skipFamilies :
          /\ familySkip
          /\ \E c \in Conns :
                /\ conn[c].phase = "CONNECTING" /\ conn'[c].phase # "CONNECTING"
                /\ conn'[c].err # "socket"
                /\ FamilyOf[conn'[c].addrs[conn'[c].idx]] # f
                /\ \E i \in DOMAIN conn'[c].addrs :
                      /\ FamilyOf[conn'[c].addrs[i]] = f
                      /\ conn'[c].fate[i] = "silent"]_walk

(* A walk that reports failure has had a verdict on every one of its        *)
(* addresses, however many of them fell within a single step.               *)
WalkTriesAll ==
    \A c \in Conns : ~Free(c) =>
        (conn[c].err = "socket"
            => \A i \in DOMAIN conn[c].fate : conn[c].fate[i] # NotTried)

(* No byte of a request leaves before the connection is up and, under TLS,  *)
(* its handshake done, although the request is queued right at the start.   *)
RequestFollowsHandshake ==
    \A c \in Conns : ~Free(c) =>
        (conn[c].phase \in {"SENDING", "READING"} =>
            conn[c].net = "up" /\ (conn[c].tls => conn[c].secure))

(* Whatever is latched, capped or fails, the walk is complete: every        *)
(* address it should dial is on its list, in order, none is skipped, and no *)
(* request leaves before the walk is over.                                  *)
WalkComplete == HintNeverVeto /\ WalkTriesAll /\ RequestFollowsHandshake

(* The wait handed to the event loop is 0 only when the step that follows   *)
(* finds the budget spent, so that the loop cannot spin; and it is at most  *)
(* a millisecond longer than what is left.                                  *)
WaitIsWhatIsLeft ==
    \A c \in Conns : ~Free(c) =>
        LET k == conn[c]
        IN  /\ WaitMs(k) = 0 => AttemptSpent(k) \/ HandshakeSpent(k)
            /\ WaitMs(k) > 0 => WaitMs(k) * Grain < Limit(k) - k.age + Grain

(* Whatever the network does, nothing included, every walk ends, and every  *)
(* handshake that has a budget: the waits handed to the loop see to it.     *)
WaitsEnd ==
    \A c \in Conns : \A phase \in {"CONNECTING", "HANDSHAKE"} :
        conn[c].phase = phase ~> conn[c].phase # phase

-----------------------------------------------------------------------------
(* The inductive invariant                                                  *)

(* What the walk of k has behind it: a verdict on every address before the  *)
(* current one, and for every family given up one of its addresses silent.  *)
Behind(k) ==
    /\ DOMAIN k.fate = DOMAIN k.addrs
    /\ k.idx \in 1 .. Len(k.addrs) + 1
    /\ \A i \in DOMAIN k.fate : i < k.idx => k.fate[i] # NotTried
    /\ \A f \in k.abandoned : \E i \in DOMAIN k.fate :
          i < k.idx /\ FamilyOf[k.addrs[i]] = f /\ k.fate[i] = "silent"
    /\ k.err = "socket" => k.idx = Len(k.addrs) + 1

(* What the phase of k says of it.                                          *)
InPhase(k) ==
    /\ k.phase = "CONNECTING" => /\ k.idx \in DOMAIN k.addrs
                                 /\ k.net \in {"in flight", "up", "refused"}
                                 /\ k.err = "ok"
    /\ k.phase = "HANDSHAKE" => k.net = "up" /\ k.tls
    /\ k.phase \in {"SENDING", "READING"} => k.net = "up" /\ (k.tls => k.secure)

Sound(k) == k \in Connections /\ Ordered(k) /\ Behind(k) /\ InPhase(k)

WalkInv ==
    /\ CacheInv
    /\ WalkTypeOK
    /\ \A c \in Conns : ~Free(c) => Sound(conn[c])
=============================================================================
