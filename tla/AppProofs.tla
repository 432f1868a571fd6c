----------------------------- MODULE AppProofs ------------------------------
(***************************************************************************)
(* Proofs about the chat application (App) and the fetches it runs beside  *)
(* the turn (Catalog), for every value of their constants.                 *)
(***************************************************************************)
EXTENDS App, SequenceTheorems, TLAPS

-----------------------------------------------------------------------------
(* The catalog machines. *)

(* Nothing but the machine of p and what the tiers share has changed.       *)
OnlyOf(k, d, p) ==
    /\ d \in Catalogs /\ d.src = k.src /\ d.owed = k.owed
    /\ \A q \in Providers : q # p => d.mach[q] = k.mach[q]

(* An end of a step: the machine of p goes on only with a live fetch.       *)
Statuses == {"pending", "ok", "failed", "throttled"}
GoodEnd(k, r, p) ==
    /\ OnlyOf(k, r[1], p)
    /\ r[2] \in Statuses
    /\ r[2] = "pending" => Running(r[1], p) /\ Live(r[1].mach[p].fetch)

(* The fields of a catalog.                                                 *)
LEMMA CatalogFields ==
    ASSUME NEW k \in Catalogs
    PROVE  /\ k.mach \in [Providers -> Machines]
           /\ k.cache \in [Providers -> {"cold", "live"}]
           /\ k.document \in BOOLEAN /\ k.src \in Providers \cup {NoSource}
           /\ k.owed \in BOOLEAN
  BY DEF Catalogs

(* A catalog with another machine for p.                                    *)
LEMMA MachineReplaced ==
    ASSUME NEW k \in Catalogs, NEW p \in Providers, NEW m \in Machines
    PROVE  LET d == [k EXCEPT !.mach[p] = m]
           IN  OnlyOf(k, d, p) /\ d.mach[p] = m /\ d.cache = k.cache
  <1> DEFINE d == [k EXCEPT !.mach[p] = m]
  <1>1. /\ d \in Catalogs /\ d.src = k.src /\ d.owed = k.owed /\ d.cache = k.cache
        /\ d.mach = [k.mach EXCEPT ![p] = m]
    BY DEF Catalogs
  <1> HIDE DEF d
  <1>2. d.mach[p] = m /\ \A q \in Providers : q # p => d.mach[q] = k.mach[q]
    BY <1>1, CatalogFields
  <1> QED
    BY <1>1, <1>2 DEF OnlyOf, d

(* Changes of one machine add up.                                           *)
LEMMA OnlyOfChain ==
    ASSUME NEW k, NEW d, NEW e, NEW p, OnlyOf(k, d, p), OnlyOf(d, e, p)
    PROVE  OnlyOf(k, e, p)
  BY DEF OnlyOf

(* An ended machine is idle.                                                *)
LEMMA ClearedIsIdle ==
    ASSUME NEW k \in Catalogs, NEW p \in Providers
    PROVE  /\ OnlyOf(k, Cleared(k, p), p)
           /\ ~Running(Cleared(k, p), p)
           /\ Cleared(k, p).cache = k.cache
  <1> DEFINE m == [k.mach[p] EXCEPT !.stage = "idle", !.fetch = NoFetch,
                                    !.rows = 0, !.at = 0]
  <1>1. k.mach[p] \in Machines
    BY CatalogFields
  <1>2. NoFetch \in Fetches
    BY DEF NoFetch, Fetches
  <1>3. m \in Machines /\ m.stage = "idle"
    BY <1>1, <1>2 DEF Machines, Stages
  <1>4. Cleared(k, p) = [k EXCEPT !.mach[p] = m]
    BY DEF Cleared, Catalogs
  <1> HIDE DEF m
  <1> QED
    BY <1>3, <1>4, MachineReplaced DEF Running

(* A spoilt machine is where it was.                                        *)
LEMMA SpoiltStays ==
    ASSUME NEW k \in Catalogs, NEW p \in Providers
    PROVE  OnlyOf(k, Spoilt(k, p), p)
  <1> DEFINE m == [k.mach[p] EXCEPT !.failed = TRUE]
  <1>1. k.mach[p] \in Machines
    BY CatalogFields
  <1>2. m \in Machines
    BY <1>1 DEF Machines
  <1>3. Spoilt(k, p) = [k EXCEPT !.mach[p] = m]
    BY DEF Spoilt, Catalogs
  <1> HIDE DEF m
  <1> QED
    BY <1>2, <1>3, MachineReplaced

(* A committed machine is idle and its cache live.                          *)
LEMMA CommittedIsIdle ==
    ASSUME NEW k \in Catalogs, NEW p \in Providers
    PROVE  OnlyOf(k, Committed(k, p), p)
  <1> DEFINE d == Cleared(k, p)
  <1>1. OnlyOf(k, d, p) /\ d \in Catalogs
    BY ClearedIsIdle DEF OnlyOf
  <1>2. Committed(k, p) = [d EXCEPT !.cache[p] = "live"]
    BY DEF Committed
  <1> HIDE DEF d
  <1>3. OnlyOf(d, [d EXCEPT !.cache[p] = "live"], p)
    BY <1>1 DEF OnlyOf, Catalogs
  <1> QED
    BY <1>1, <1>2, <1>3, OnlyOfChain

(* The next request of a machine runs it on.                                *)
LEMMA ThenGood ==
    ASSUME NEW k \in Catalogs, NEW d \in Catalogs, NEW p \in Providers, OnlyOf(k, d, p),
           NEW stage \in Stages, stage # "idle", NEW refused, GoodEnd(k, refused, p),
           NEW r \in Then(d, p, stage, refused)
    PROVE  GoodEnd(k, r, p)
  <1> DEFINE m == [d.mach[p] EXCEPT !.stage = stage, !.fetch = Asked]
             e == [d EXCEPT !.mach[p] = m]
  <1>1. d.mach[p] \in Machines
    BY CatalogFields
  <1>2. Asked \in Fetches /\ Live(Asked)
    BY BoundsAssumption DEF Asked, Fetches, Live
  <1>3. m \in Machines /\ m.stage = stage /\ m.fetch = Asked
    BY <1>1, <1>2 DEF Machines
  <1>4. [d EXCEPT !.mach[p].stage = stage, !.mach[p].fetch = Asked] = e
    BY DEF Catalogs
  <1> HIDE DEF m
  <1>5. OnlyOf(d, e, p) /\ e.mach[p] = m
    BY <1>3, MachineReplaced
  <1> HIDE DEF e
  <1>6. OnlyOf(k, e, p)
    BY <1>5, OnlyOfChain
  <1>7. GoodEnd(k, <<e, "pending">>, p)
    BY <1>2, <1>3, <1>5, <1>6 DEF GoodEnd, Running, Statuses
  <1> QED
    BY <1>4, <1>7 DEF Then

(* The ends of a machine.                                                   *)
LEMMA EndsGood ==
    ASSUME NEW k \in Catalogs, NEW d \in Catalogs, NEW p \in Providers, OnlyOf(k, d, p)
    PROVE  /\ GoodEnd(k, Failure(d, p), p) /\ GoodEnd(k, Success(d, p), p)
           /\ \A r \in Built(d, p) : GoodEnd(k, r, p)
           /\ GoodEnd(k, <<Spoilt(Committed(d, p), p), "failed">>, p)
  <1>1. OnlyOf(d, Cleared(d, p), p) /\ OnlyOf(d, Committed(d, p), p)
    BY ClearedIsIdle, CommittedIsIdle
  <1>2. Cleared(d, p) \in Catalogs /\ Committed(d, p) \in Catalogs
    BY <1>1 DEF OnlyOf
  <1>3. /\ OnlyOf(Cleared(d, p), Spoilt(Cleared(d, p), p), p)
        /\ OnlyOf(Committed(d, p), Spoilt(Committed(d, p), p), p)
    BY <1>2, SpoiltStays
  <1>4. /\ OnlyOf(k, Spoilt(Cleared(d, p), p), p) /\ OnlyOf(k, Committed(d, p), p)
        /\ OnlyOf(k, Spoilt(Committed(d, p), p), p)
    <2>1. OnlyOf(k, Cleared(d, p), p) /\ OnlyOf(k, Committed(d, p), p)
      BY <1>1, OnlyOfChain
    <2> QED
      BY <1>3, <2>1, OnlyOfChain
  <1>5. GoodEnd(k, Failure(d, p), p)
    BY <1>4 DEF GoodEnd, Failure, Statuses
  <1>6. GoodEnd(k, Success(d, p), p)
    BY <1>4 DEF GoodEnd, Success, Statuses
  <1>7. GoodEnd(k, <<Spoilt(Committed(d, p), p), "failed">>, p)
    BY <1>4 DEF GoodEnd, Statuses
  <1>8. Verdict(d, p) \in {"ok", "failed"}
    BY DEF Verdict
  <1>9. GoodEnd(k, <<Committed(d, p), Verdict(d, p)>>, p)
    BY <1>4, <1>8 DEF GoodEnd, Statuses
  <1> QED
    BY <1>5, <1>6, <1>7, <1>9 DEF Built

(* An answer leads to an end of the machine, or to its next request.        *)
LEMMA AnsweredGood ==
    ASSUME NEW k \in Catalogs, NEW p \in Providers, Running(k, p),
           NEW kind, NEW ok \in BOOLEAN, NEW r \in Answered(k, p, kind, ok)
    PROVE  GoodEnd(k, r, p)
  <1> DEFINE m == [k.mach[p] EXCEPT !.fetch = NoFetch]
             d == [k EXCEPT !.mach[p].fetch = NoFetch]
             stage == k.mach[p].stage
  <1>1. k.mach[p] \in Machines /\ NoFetch \in Fetches
    BY CatalogFields DEF NoFetch, Fetches
  <1>2. m \in Machines
    BY <1>1 DEF Machines
  <1>3. d = [k EXCEPT !.mach[p] = m]
    BY DEF Catalogs
  <1>4. OnlyOf(k, d, p) /\ d \in Catalogs
    BY <1>2, <1>3, MachineReplaced DEF OnlyOf
  <1>5. stage \in Stages \ {"idle"}
    BY <1>1 DEF Running, Machines
  <1>6. r \in CASE stage = "list" /\ kind = "single" -> SingleAnswered(d, p, ok)
                [] stage = "list"                    -> ListAnswered(d, p, ok)
                [] stage = "document"                -> DocumentAnswered(d, p, ok)
                [] stage = "verbose"                 -> VerboseAnswered(d, p, ok)
                [] stage = "tags"                    -> TagsAnswered(d, p, ok)
                [] stage = "show"                    -> ShowAnswered(d, p)
    BY DEF Answered
  <1> HIDE DEF m, d, stage
  <1>7. /\ GoodEnd(k, Failure(d, p), p) /\ GoodEnd(k, Success(d, p), p)
        /\ \A e \in Built(d, p) : GoodEnd(k, e, p)
        /\ GoodEnd(k, <<Spoilt(Committed(d, p), p), "failed">>, p)
    BY <1>4, EndsGood
  <1>8. CASE r \in SingleAnswered(d, p, ok)
    BY <1>7, <1>8 DEF SingleAnswered
  <1>9. CASE r \in ListAnswered(d, p, ok)
    <2>1. CASE r \in Then(d, p, "document", <<Spoilt(Committed(d, p), p), "failed">>)
      <3>1. "document" \in Stages /\ "document" # "idle"
        BY DEF Stages
      <3> QED
        BY <1>4, <1>7, <2>1, <3>1, ThenGood
    <2> QED
      BY <1>7, <1>9, <2>1 DEF ListAnswered
  <1>10. CASE r \in DocumentAnswered(d, p, ok)
    <2>1. OnlyOf(k, [d EXCEPT !.document = TRUE], p)
      BY <1>4 DEF OnlyOf, Catalogs
    <2>2. OnlyOf(k, Spoilt(d, p), p)
      BY <1>4, SpoiltStays, OnlyOfChain
    <2>3. ASSUME NEW e, OnlyOf(k, e, p), NEW q \in Built(e, p) PROVE GoodEnd(k, q, p)
      <3>1. e \in Catalogs
        BY <2>3 DEF OnlyOf
      <3> QED
        BY <2>3, <3>1, EndsGood
    <2> QED
      BY <1>10, <2>1, <2>2, <2>3 DEF DocumentAnswered
  <1>11. CASE r \in VerboseAnswered(d, p, ok)
    <2>1. CASE r \in Then(d, p, "tags", Failure(d, p))
      <3>1. "tags" \in Stages /\ "tags" # "idle"
        BY DEF Stages
      <3> QED
        BY <1>4, <1>7, <2>1, <3>1, ThenGood
    <2> QED
      BY <1>7, <1>11, <2>1 DEF VerboseAnswered
  <1>12. "show" \in Stages /\ "show" # "idle"
    BY DEF Stages
  <1>13. CASE r \in TagsAnswered(d, p, ok)
    <2>1. ASSUME NEW n \in 1 .. Rows,
                 r \in Then([d EXCEPT !.mach[p].rows = n], p, "show", Success(d, p))
          PROVE  GoodEnd(k, r, p)
      <3> DEFINE mm == [d.mach[p] EXCEPT !.rows = n]
                 e == [d EXCEPT !.mach[p].rows = n]
      <3>1. d.mach[p] \in Machines /\ n \in Nat
        BY <1>4, CatalogFields, BoundsAssumption
      <3>2. mm \in Machines
        BY <3>1 DEF Machines
      <3>3. e = [d EXCEPT !.mach[p] = mm]
        BY <1>4 DEF Catalogs
      <3> HIDE DEF mm
      <3>4. OnlyOf(d, e, p)
        BY <1>4, <3>2, <3>3, MachineReplaced
      <3> HIDE DEF e
      <3>5. OnlyOf(k, e, p) /\ e \in Catalogs
        BY <1>4, <3>4, OnlyOfChain DEF OnlyOf
      <3>6. r \in Then(e, p, "show", Success(d, p))
        BY <2>1 DEF e
      <3> QED
        BY <1>7, <1>12, <3>5, <3>6, ThenGood
    <2> QED
      BY <1>7, <1>13, <2>1 DEF TagsAnswered
  <1>14. CASE r \in ShowAnswered(d, p)
    <2> DEFINE mm == [d.mach[p] EXCEPT !.at = @ + 1]
               e == [d EXCEPT !.mach[p].at = @ + 1]
    <2>1. CASE r = Success(d, p)
      BY <1>7, <2>1
    <2>2. CASE r \in Then(e, p, "show", Success(d, p))
      <3>1. d.mach[p] \in Machines
        BY <1>4, CatalogFields
      <3>2. mm \in Machines
        BY <3>1 DEF Machines
      <3>3. e = [d EXCEPT !.mach[p] = mm]
        BY <1>4 DEF Catalogs
      <3> HIDE DEF mm
      <3>4. OnlyOf(d, e, p)
        BY <1>4, <3>2, <3>3, MachineReplaced
      <3> HIDE DEF e
      <3>5. OnlyOf(k, e, p) /\ e \in Catalogs
        BY <1>4, <3>4, OnlyOfChain DEF OnlyOf
      <3> QED
        BY <1>7, <1>12, <2>2, <3>5, ThenGood
    <2> QED
      BY <1>14, <2>1, <2>2 DEF ShowAnswered
  <1> QED
    BY <1>5, <1>6, <1>8, <1>9, <1>10, <1>11, <1>13, <1>14 DEF Stages

(* A step of a live fetch: it goes on alive, or it has ended.               *)
LEMMA FetchStepGood ==
    ASSUME NEW f \in Fetches, Live(f), NEW r \in FetchStep(f)
    PROVE  r[1] \in Fetches /\ r[2] \in Statuses /\ (r[2] = "pending" => Live(r[1]))
  <1>1. Budget \in Nat
    BY BoundsAssumption
  <1>2. CASE r \in {<<f, s>> : s \in {"pending", "ok", "throttled", "failed"}}
    BY <1>2 DEF Statuses
  <1>3. CASE r = <<[f EXCEPT !.phase = "answer", !.left = Budget], "pending">>
    BY <1>1, <1>3 DEF Statuses, Fetches, Live
  <1>4. CASE r \in {<<[f EXCEPT !.left = Budget, !.got = @ + 1],
                      IF f.got + 1 >= BodyMax THEN "failed" ELSE "pending">>}
    <2> DEFINE g == [f EXCEPT !.left = Budget, !.got = @ + 1]
               t == IF f.got + 1 >= BodyMax THEN "failed" ELSE "pending"
    <2>0. f.got \in Nat /\ f.got + 1 \in Nat
      BY DEF Fetches
    <2>1. g \in Fetches
      BY <1>1, <2>0 DEF Fetches
    <2>2. Live(g)
      BY DEF Fetches, Live
    <2>3. r[1] = g /\ r[2] = t
      BY <1>4
    <2>4. t \in Statuses
      BY DEF Statuses
    <2> QED
      BY <2>1, <2>2, <2>3, <2>4
  <1> QED
    BY <1>2, <1>3, <1>4 DEF FetchStep, Statuses

(* A step of a running machine.                                             *)
LEMMA MachineStepGood ==
    ASSUME NEW k \in Catalogs, NEW p \in Providers, Running(k, p),
           Live(k.mach[p].fetch), NEW kind, NEW r \in MachineStep(k, p, kind)
    PROVE  GoodEnd(k, r, p)
  <1>1. k.mach[p] \in Machines /\ k.mach[p].fetch \in Fetches
    BY CatalogFields DEF Machines
  <1>2. PICK t \in FetchStep(k.mach[p].fetch) :
             r \in IF t[2] = "pending"
                   THEN {<<[k EXCEPT !.mach[p].fetch = t[1]], "pending">>}
                   ELSE Answered(k, p, kind, t[2] = "ok")
    BY DEF MachineStep
  <1>3. t[1] \in Fetches /\ t[2] \in Statuses /\ (t[2] = "pending" => Live(t[1]))
    BY <1>1, FetchStepGood
  <1>4. CASE t[2] = "pending"
    <2> DEFINE m == [k.mach[p] EXCEPT !.fetch = t[1]]
               d == [k EXCEPT !.mach[p].fetch = t[1]]
    <2>1. m \in Machines /\ m.fetch = t[1] /\ m.stage = k.mach[p].stage
      BY <1>1, <1>3 DEF Machines
    <2> DEFINE e == [k EXCEPT !.mach[p] = m]
    <2>2. d = e
      BY DEF Catalogs
    <2> HIDE DEF m
    <2>a. OnlyOf(k, e, p) /\ e.mach[p] = m
      BY <2>1, MachineReplaced
    <2> HIDE DEF d, e
    <2>3. OnlyOf(k, d, p) /\ d.mach[p] = m
      BY <2>2, <2>a
    <2> USE DEF d
    <2>4. r = <<d, "pending">>
      BY <1>2, <1>4
    <2> HIDE DEF d
    <2> QED
      BY <1>3, <1>4, <2>1, <2>3, <2>4 DEF GoodEnd, Running, Statuses
  <1>5. CASE t[2] # "pending"
    <2>1. r \in Answered(k, p, kind, t[2] = "ok")
      BY <1>2, <1>5
    <2>2. (t[2] = "ok") \in BOOLEAN
      OBVIOUS
    <2> QED
      BY <2>1, <2>2, AnsweredGood
  <1> QED
    BY <1>4, <1>5

-----------------------------------------------------------------------------
(* The list source. *)

(* A catalog whose source owns its one running machine and reads p, or      *)
(* stands still.                                                            *)
Owned(k, p) == k \in Catalogs /\ SourceOwns(k) /\ k.src \in {NoSource, p}

(* A step of the source: it goes on alive, or its machine has ended.        *)
LEMMA SourceStepGood ==
    ASSUME NEW k \in Catalogs, k.src \in Providers, Running(k, k.src),
           Live(k.mach[k.src].fetch), NEW kind, NEW r \in SourceStep(k, kind)
    PROVE  /\ OnlyOf(k, r[1], k.src) /\ r[1] \in Catalogs
           /\ r[2] = "pending" => Running(r[1], k.src) /\ Live(r[1].mach[k.src].fetch)
           /\ r[2] # "pending" => ~Running(r[1], k.src)
  <1> DEFINE p == k.src
  <1>1. PICK t \in MachineStep(k, p, kind) :
             r = IF t[2] = "pending" THEN t ELSE <<Cleared(t[1], p), t[2]>>
    BY DEF SourceStep
  <1>2. GoodEnd(k, t, p)
    BY MachineStepGood
  <1>3. OnlyOf(k, t[1], p) /\ t[1] \in Catalogs
    BY <1>2 DEF GoodEnd, OnlyOf
  <1>4. CASE t[2] = "pending"
    BY <1>1, <1>2, <1>3, <1>4 DEF GoodEnd
  <1>5. CASE t[2] # "pending"
    <2>1. r[1] = Cleared(t[1], p) /\ r[2] = t[2]
      BY <1>1, <1>5
    <2>2. OnlyOf(t[1], Cleared(t[1], p), p) /\ ~Running(Cleared(t[1], p), p)
      BY <1>3, ClearedIsIdle
    <2>3. OnlyOf(k, Cleared(t[1], p), p)
      BY <1>3, <2>2, OnlyOfChain
    <2> QED
      BY <1>5, <2>1, <2>2, <2>3 DEF OnlyOf
  <1> QED
    BY <1>4, <1>5

(* A source without a machine owns what runs: nothing ...                   *)
LEMMA OwnsNone ==
    ASSUME NEW k \in Catalogs, NEW d \in Catalogs, NEW p \in Providers,
           \A q \in Providers : q # p => (Running(k, q) => k.src = q),
           \A q \in Providers : q # p => d.mach[q] = k.mach[q],
           k.src \in {NoSource, p}, ~Running(d, p), d.src = NoSource, ~d.owed
    PROVE  SourceOwns(d)
  BY SourceAssumption DEF SourceOwns, Running

(* ... and a source with one.                                               *)
LEMMA OwnsOne ==
    ASSUME NEW k \in Catalogs, NEW d \in Catalogs, NEW p \in Providers,
           \A q \in Providers : q # p => (Running(k, q) => k.src = q),
           \A q \in Providers : q # p => d.mach[q] = k.mach[q],
           k.src \in {NoSource, p}, Running(d, p), d.src = p, Live(d.mach[p].fetch)
    PROVE  SourceOwns(d)
  BY SourceAssumption DEF SourceOwns, Running

(* Freeing the source leaves no machine running.                            *)
LEMMA FreedGood ==
    ASSUME NEW k, NEW p \in Providers, Owned(k, p)
    PROVE  SourceFreed(k) \in Catalogs /\ SourceOwns(SourceFreed(k))
           /\ SourceFreed(k).src = NoSource
  <1>1. k \in Catalogs /\ SourceOwns(k) /\ k.src \in {NoSource, p}
    BY DEF Owned
  <1>2. CASE k.src = NoSource
    BY <1>1, <1>2 DEF SourceFreed
  <1>3. CASE k.src # NoSource
    <2> DEFINE e == Cleared(k, p)
               d == [e EXCEPT !.src = NoSource, !.owed = FALSE]
    <2>1. OnlyOf(k, e, p) /\ ~Running(e, p) /\ e \in Catalogs
      BY <1>1, ClearedIsIdle DEF OnlyOf
    <2> HIDE DEF e
    <2>2. d \in Catalogs /\ d.src = NoSource /\ ~d.owed /\ d.mach = e.mach
      BY <2>1 DEF Catalogs
    <2>3. SourceFreed(k) = d
      BY <1>1, <1>3 DEF SourceFreed, e
    <2> HIDE DEF d
    <2>4. \A q \in Providers : q # p => d.mach[q] = k.mach[q]
      BY <2>1, <2>2 DEF OnlyOf
    <2>5. \A q \in Providers : q # p => (Running(k, q) => k.src = q)
      BY <1>1 DEF SourceOwns
    <2>6. ~Running(d, p)
      BY <2>1, <2>2 DEF Running
    <2>7. SourceOwns(d)
      BY <1>1, <2>2, <2>4, <2>5, <2>6, OwnsNone
    <2> QED
      BY <2>2, <2>3, <2>7
  <1> QED
    BY <1>2, <1>3

(* A begun machine runs with a live fetch, one not begun stands still.      *)
LEMMA BeginsGood ==
    ASSUME NEW k \in Catalogs, NEW p \in Providers, NEW kind \in DOMAIN First,
           NEW allowed \in BOOLEAN, ~Running(k, p), NEW b \in Begins(k, p, kind, allowed)
    PROVE  /\ OnlyOf(k, b[1], p)
           /\ b[2] => Running(b[1], p) /\ Live(b[1].mach[p].fetch)
           /\ ~b[2] => ~Running(b[1], p)
  <1>1. CASE b = <<k, FALSE>>
    BY <1>1 DEF OnlyOf
  <1>2. First[kind] \in Stages \ {"idle"}
    BY DEF First, Stages
  <1>3. Still \in Machines /\ Asked \in Fetches /\ Live(Asked) /\ Still.stage = "idle"
    BY BoundsAssumption DEF Still, Machines, Asked, Fetches, NoFetch, Live, Stages
  <1>4. ASSUME NEW s \in Stages \ {"idle"},
               b = <<[k EXCEPT !.mach[p] = [Still EXCEPT !.stage = s, !.fetch = Asked]], TRUE>>
        PROVE  OnlyOf(k, b[1], p) /\ Running(b[1], p) /\ Live(b[1].mach[p].fetch)
    <2> DEFINE m == [Still EXCEPT !.stage = s, !.fetch = Asked]
    <2>1. m \in Machines /\ m.stage = s /\ m.fetch = Asked
      BY <1>3 DEF Machines
    <2>2. b[1] = [k EXCEPT !.mach[p] = m]
      BY <1>4
    <2> HIDE DEF m
    <2>3. OnlyOf(k, b[1], p) /\ b[1].mach[p] = m
      BY <2>1, <2>2, MachineReplaced
    <2> QED
      BY <1>3, <2>1, <2>3 DEF Running
  <1>5. CASE b = <<[k EXCEPT !.mach[p] = [Still EXCEPT !.failed = kind # "single"]], FALSE>>
    <2> DEFINE m == [Still EXCEPT !.failed = kind # "single"]
    <2>0. (kind # "single") \in BOOLEAN
      OBVIOUS
    <2>1. m \in Machines /\ m.stage = "idle"
      BY <1>3, <2>0 DEF Machines
    <2>2. b[1] = [k EXCEPT !.mach[p] = m] /\ b[2] = FALSE
      BY <1>5
    <2> HIDE DEF m
    <2>3. OnlyOf(k, b[1], p) /\ b[1].mach[p] = m
      BY <2>1, <2>2, MachineReplaced
    <2> QED
      BY <2>1, <2>2, <2>3 DEF Running
  <1>6. "tags" \in Stages \ {"idle"}
    BY DEF Stages
  <1>7. \/ b = <<k, FALSE>>
        \/ \E s \in Stages \ {"idle"} :
              b = <<[k EXCEPT !.mach[p] = [Still EXCEPT !.stage = s, !.fetch = Asked]], TRUE>>
        \/ b = <<[k EXCEPT !.mach[p] = [Still EXCEPT !.failed = kind # "single"]], FALSE>>
    BY <1>2, <1>6 DEF Begins
  <1>8. CASE \E s \in Stages \ {"idle"} :
               b = <<[k EXCEPT !.mach[p] = [Still EXCEPT !.stage = s, !.fetch = Asked]], TRUE>>
    <2>1. b[2] = TRUE
      BY <1>8
    <2> QED
      BY <1>4, <1>8, <2>1
  <1> QED
    BY <1>1, <1>5, <1>7, <1>8

(* Creating a source over p: it goes on alive, or there is none.            *)
LEMMA OpenedGood ==
    ASSUME NEW k \in Catalogs, SourceOwns(k), k.src = NoSource, NEW p \in Providers,
           NEW kind \in DOMAIN First, NEW allowed \in BOOLEAN,
           NEW r \in Opened(k, p, kind, allowed)
    PROVE  /\ r[1] \in Catalogs /\ SourceOwns(r[1]) /\ r[1].owed = k.owed
           /\ r[2] = "fetching" => r[1].src = p
           /\ r[2] # "fetching" => r[1].src = NoSource
  <1>1. /\ \A q \in Providers : ~Running(k, q)
        /\ ~k.owed /\ k.owed \in BOOLEAN
    BY SourceAssumption, CatalogFields DEF SourceOwns
  <1>2. PICK b \in Begins(k, p, kind, allowed) :
             r \in IF ~b[2] THEN {<<b[1], "ready">>}
                   ELSE { <<[t[1] EXCEPT !.src = p], "fetching">> :
                            t \in {s \in SourceStep([b[1] EXCEPT !.src = p], kind) :
                                     s[2] = "pending"} }
                        \cup
                        { <<[t[1] EXCEPT !.src = k.src], "ready">> :
                            t \in {s \in SourceStep([b[1] EXCEPT !.src = p], kind) :
                                     s[2] # "pending"} }
    BY DEF Opened
  <1>3. /\ OnlyOf(k, b[1], p) /\ b[1] \in Catalogs
        /\ b[2] => Running(b[1], p) /\ Live(b[1].mach[p].fetch)
        /\ ~b[2] => ~Running(b[1], p)
    <2>1. ~Running(k, p)
      BY <1>1
    <2> QED
      BY <2>1, BeginsGood DEF OnlyOf
  <1>4. CASE ~b[2]
    <2>1. r[1] = b[1] /\ r[2] = "ready"
      BY <1>2, <1>4
    <2>2. SourceOwns(b[1])
      BY <1>1, <1>3, <1>4, OwnsNone DEF OnlyOf
    <2> QED
      BY <1>3, <2>1, <2>2 DEF OnlyOf
  <1>5. CASE b[2]
    <2> DEFINE d == [b[1] EXCEPT !.src = p]
    <2>1. d \in Catalogs /\ d.src = p /\ d.owed = k.owed /\ d.mach = b[1].mach
      BY <1>3 DEF Catalogs, OnlyOf
    <2>2. Running(d, p) /\ Live(d.mach[p].fetch)
      BY <1>3, <1>5, <2>1 DEF Running
    <2>3. \A q \in Providers : q # p => d.mach[q] = k.mach[q]
      BY <1>3, <2>1 DEF OnlyOf
    <2>4. PICK t \in SourceStep(d, kind) :
               \/ t[2] = "pending" /\ r = <<[t[1] EXCEPT !.src = p], "fetching">>
               \/ t[2] # "pending" /\ r = <<[t[1] EXCEPT !.src = k.src], "ready">>
      BY <1>2, <1>5
    <2> HIDE DEF d
    <2>5. /\ OnlyOf(d, t[1], p) /\ t[1] \in Catalogs
          /\ t[2] = "pending" => Running(t[1], p) /\ Live(t[1].mach[p].fetch)
          /\ t[2] # "pending" => ~Running(t[1], p)
      BY <2>1, <2>2, SourceStepGood
    <2> DEFINE e == t[1]
    <2>6. \A q \in Providers : q # p => e.mach[q] = k.mach[q]
      BY <2>3, <2>5 DEF OnlyOf
    <2>7. e.owed = k.owed /\ e \in Catalogs
      BY <2>1, <2>5 DEF OnlyOf
    <2>8. CASE t[2] = "pending" /\ r = <<[t[1] EXCEPT !.src = p], "fetching">>
      <3> DEFINE g == [e EXCEPT !.src = p]
      <3>1. g \in Catalogs /\ g.src = p /\ g.owed = k.owed /\ g.mach = e.mach
        BY <2>7 DEF Catalogs
      <3>2. r[1] = g /\ r[2] = "fetching"
        BY <2>8
      <3>3. Running(e, p) /\ Live(e.mach[p].fetch)
        BY <2>5, <2>8
      <3> HIDE DEF g, e
      <3>4. Running(g, p) /\ Live(g.mach[p].fetch)
        BY <3>1, <3>3 DEF Running
      <3>5. \A q \in Providers : q # p => g.mach[q] = k.mach[q]
        BY <2>6, <3>1
      <3>6. SourceOwns(g)
        BY <1>1, <3>1, <3>4, <3>5, OwnsOne
      <3> QED
        BY <3>1, <3>2, <3>6
    <2>9. CASE t[2] # "pending" /\ r = <<[t[1] EXCEPT !.src = k.src], "ready">>
      <3> DEFINE g == [e EXCEPT !.src = k.src]
      <3>1. g \in Catalogs /\ g.src = NoSource /\ g.owed = k.owed /\ g.mach = e.mach
        BY <2>7 DEF Catalogs
      <3>2. r[1] = g /\ r[2] = "ready"
        BY <2>9
      <3>3. ~Running(e, p)
        BY <2>5, <2>9
      <3> HIDE DEF g, e
      <3>4. ~Running(g, p)
        BY <3>1, <3>3 DEF Running
      <3>5. \A q \in Providers : q # p => g.mach[q] = k.mach[q]
        BY <2>6, <3>1
      <3>6. SourceOwns(g)
        BY <1>1, <3>1, <3>4, <3>5, OwnsNone
      <3> QED
        BY <3>1, <3>2, <3>6
    <2> QED
      BY <2>4, <2>8, <2>9
  <1> QED
    BY <1>4, <1>5

-----------------------------------------------------------------------------
(* The popup and the mention picker. *)

(* A screen on which model rows are those of p.                             *)
Shows(u, p) == u \in Screens /\ RowsOf(u, p)

(* What changes neither what is shown nor of whom keeps it.                 *)
LEMMA LineChanges ==
    ASSUME NEW p, NEW u, Shows(u, p)
    PROVE  /\ \A d \in Drafts : Shows([u EXCEPT !.draft = d], p)
           /\ \A q \in BOOLEAN : Shows([u EXCEPT !.quiet = q], p)
           /\ \A d \in Drafts : Shows([u EXCEPT !.draft = d, !.quiet = FALSE], p)
  <1>1. ASSUME NEW d \in Drafts PROVE Shows([u EXCEPT !.draft = d], p)
    BY DEF Shows, RowsOf, Screens
  <1>2. ASSUME NEW q \in BOOLEAN PROVE Shows([u EXCEPT !.quiet = q], p)
    BY DEF Shows, RowsOf, Screens
  <1>3. ASSUME NEW d \in Drafts PROVE Shows([u EXCEPT !.draft = d, !.quiet = FALSE], p)
    BY DEF Shows, RowsOf, Screens
  <1> QED
    BY <1>1, <1>2, <1>3

(* A hidden popup shows nothing.                                            *)
LEMMA HiddenShows ==
    ASSUME NEW p, NEW u \in Screens
    PROVE  Shows(Hidden(u), p) /\ ~Hidden(u).visible
  BY DEF Shows, RowsOf, Screens, Hidden, Popups

(* The picker closes.                                                       *)
LEMMA ClosedShows ==
    ASSUME NEW p, NEW u, Shows(u, p)
    PROVE  /\ Shows(MentionClosed(u), p)
           /\ ~u.visible => ~MentionClosed(u).visible
  <1>1. CASE ~u.active
    BY <1>1 DEF MentionClosed
  <1>2. CASE u.active
    <2> DEFINE v == Hidden(u)
    <2>1. v \in Screens /\ ~v.visible
      BY HiddenShows DEF Shows
    <2>2. MentionClosed(u) = [v EXCEPT !.active = FALSE, !.footer = FALSE]
      BY <1>2 DEF MentionClosed
    <2> HIDE DEF v
    <2>3. /\ [v EXCEPT !.active = FALSE, !.footer = FALSE] \in Screens
          /\ ~[v EXCEPT !.active = FALSE, !.footer = FALSE].visible
      BY <2>1 DEF Screens
    <2> QED
      BY <2>2, <2>3 DEF Shows, RowsOf
  <1> QED
    BY <1>1, <1>2

(* The picker's own rows are no model rows.                                 *)
LEMMA MentionShows ==
    ASSUME NEW p, NEW u \in Screens
    PROVE  Shows(MentionShown(u), p)
  <1>1. MentionShown(u) \in Screens
    BY DEF MentionShown, Screens, Popups
  <1>2. MentionShown(u).rows = "mention"
    BY DEF MentionShown, Screens
  <1> QED
    BY <1>1, <1>2 DEF Shows, RowsOf

(* The sync at the end of an update.                                        *)
LEMMA SyncShows ==
    ASSUME NEW p, NEW u, Shows(u, p), NEW edited, NEW reentry, NEW mayOpen,
           NEW v \in MentionSync(u, edited, reentry, mayOpen)
    PROVE  Shows(v, p)
  <1> DEFINE heard == [u EXCEPT !.quiet = FALSE]
  <1>1. FALSE \in BOOLEAN
    OBVIOUS
  <1>2. Shows(heard, p) /\ Shows(MentionClosed(u), p)
    BY <1>1, LineChanges, ClosedShows
  <1>3. Shows([MentionClosed(u) EXCEPT !.quiet = FALSE], p)
    BY <1>1, <1>2, LineChanges
  <1> HIDE DEF heard
  <1>4. Shows(MentionClosed(heard), p) /\ Shows(MentionShown(heard), p)
    BY <1>2, ClosedShows, MentionShows DEF Shows
  <1> QED
    BY <1>2, <1>3, <1>4 DEF MentionSync, heard

(* What is typed is a line.                                                 *)
LEMMA TypedShows ==
    ASSUME NEW p, NEW u, Shows(u, p), scene \in Scenes, NEW v \in Typed(u)
    PROVE  Shows(v, p)
  <1>1. \A d \in Drafts : Shows([u EXCEPT !.draft = d], p)
    BY LineChanges
  <1>2. scene.types \subseteq Drafts
    BY SceneAssumption
  <1> QED
    BY <1>1, <1>2 DEF Typed

(* A key in the picker.                                                     *)
LEMMA MentionKeyShows ==
    ASSUME NEW p, NEW u, Shows(u, p), scene \in Scenes,
           NEW key \in {"esc", "enter", "char", "down"}, NEW v \in MentionKey(u, key)
    PROVE  Shows(v, p)
  <1>1. "text" \in Drafts /\ TRUE \in BOOLEAN
    BY DEF Drafts
  <1>2. /\ Shows([u EXCEPT !.draft = "text"], p) /\ Shows([u EXCEPT !.quiet = TRUE], p)
        /\ Shows(MentionClosed(u), p)
    BY <1>1, LineChanges, ClosedShows
  <1>3. Shows(MentionClosed([u EXCEPT !.quiet = TRUE]), p)
    BY <1>2, ClosedShows
  <1>4. ASSUME v \in MentionCommit(u) PROVE Shows(v, p)
    BY <1>2, <1>4, SyncShows DEF MentionCommit
  <1>5. ASSUME NEW w \in Typed(u), v \in MentionSync(w, TRUE, FALSE, TRUE)
        PROVE  Shows(v, p)
    BY <1>5, TypedShows, SyncShows
  <1> QED
    BY <1>2, <1>3, <1>4, <1>5 DEF MentionKey

(* A row of the popup becomes the line.                                     *)
LEMMA PickedShows ==
    ASSUME NEW p, NEW u, Shows(u, p), NEW v \in Picked(u)
    PROVE  Shows(v, p)
  <1>1. "text" \in Drafts /\ "slash" \in Drafts /\ "at" \in Drafts
    BY DEF Drafts
  <1>2. \A d \in Drafts : Shows([u EXCEPT !.draft = d], p)
    BY LineChanges
  <1>3. \E d \in Drafts : v = [u EXCEPT !.draft = d]
    BY <1>1 DEF Picked
  <1> QED
    BY <1>2, <1>3

(* A key while the popup shows.                                             *)
LEMMA PopupKeyShows ==
    ASSUME NEW p, NEW u, Shows(u, p), scene \in Scenes,
           NEW key \in {"esc", "enter", "char", "down"}, NEW v \in PopupKey(u, key)
    PROVE  Shows(v, p)
  <1>1. ASSUME NEW w \in MentionKey(u, key), v \in MentionSync(w, FALSE, FALSE, TRUE)
        PROVE  Shows(v, p)
    BY <1>1, MentionKeyShows, SyncShows
  <1>2. ASSUME v \in MentionSync(Hidden(u), FALSE, FALSE, TRUE) PROVE Shows(v, p)
    BY <1>2, HiddenShows, SyncShows DEF Shows
  <1>3. ASSUME NEW w, Shows(w, p), v \in MentionSync(Hidden(w), TRUE, FALSE, TRUE)
        PROVE  Shows(v, p)
    BY <1>3, HiddenShows, SyncShows DEF Shows
  <1>4. ASSUME v \in MentionSync(u, FALSE, FALSE, TRUE) PROVE Shows(v, p)
    BY <1>4, SyncShows
  <1> QED
    BY <1>1, <1>2, <1>3, <1>4, PickedShows, TypedShows DEF PopupKey

(* A list put into the popup is that of p, or no list of models.            *)
LEMMA OfferedShows ==
    ASSUME NEW p \in Providers, NEW u, Shows(u, p),
           NEW what \in {"models", "providers"}, NEW of \in Providers \cup {"none"},
           what = "models" => of = p, NEW v \in Offered(u, what, of)
    PROVE  Shows(v, p)
  <1> DEFINE filled == [u EXCEPT !.rows = what, !.of = of]
  <1>1. filled \in Screens /\ filled.rows = what /\ filled.of = of
    BY DEF Shows, Screens, Popups
  <1> HIDE DEF filled
  <1>2. CASE v = [filled EXCEPT !.visible = TRUE, !.kind = what]
    <2>1. v \in Screens /\ v.rows = what /\ v.of = of
      BY <1>1, <1>2 DEF Screens, Popups
    <2> QED
      BY <2>1 DEF Shows, RowsOf
  <1>3. CASE v = [filled EXCEPT !.visible = FALSE]
    <2>1. v \in Screens /\ v.rows = what /\ v.of = of
      BY <1>1, <1>3 DEF Screens
    <2> QED
      BY <2>1 DEF Shows, RowsOf
  <1> QED
    BY <1>2, <1>3 DEF Offered, filled

(* The list of models, when it came.                                        *)
LEMMA ModelsShow ==
    ASSUME NEW p \in Providers, NEW u, Shows(u, p), NEW v \in ModelsShown(u, p)
    PROVE  Shows(v, p)
  <1>1. "models" \in {"models", "providers"} /\ p \in Providers \cup {"none"}
    OBVIOUS
  <1> QED
    BY <1>1, OfferedShows DEF ModelsShown

(* Command names are no model rows.                                         *)
LEMMA CompletedShows ==
    ASSUME NEW p, NEW u, Shows(u, p), NEW v \in Completed(u)
    PROVE  Shows(v, p)
  <1> DEFINE w == [u EXCEPT !.visible = TRUE, !.kind = "commands",
                            !.rows = "commands", !.of = "none"]
  <1>1. w \in Screens /\ w.rows = "commands"
    BY DEF Shows, Screens, Popups
  <1> HIDE DEF w
  <1>2. Shows(w, p)
    BY <1>1 DEF Shows, RowsOf
  <1> QED
    BY <1>2 DEF Completed, w

-----------------------------------------------------------------------------
(* The catalog in the application. *)

(* A step of the source, and the popup that was owed.                       *)
LEMMA CatalogStepGood ==
    ASSUME AppInv, c.src # NoSource, NEW r \in CatalogStep
    PROVE  Owned(r[1], prov) /\ Shows(r[2], prov)
  <1>1. /\ c \in Catalogs /\ SourceOwns(c) /\ c.src = prov /\ prov \in Providers
        /\ Shows(ui, prov)
    BY DEF AppInv, AppTypeOK, Shows
  <1>2. Running(c, c.src) /\ Live(c.mach[c.src].fetch)
    BY <1>1 DEF SourceOwns
  <1>3. PICK t \in SourceStep(c, Kind(c.src)) :
             r \in IF t[2] = "pending" THEN {<<t[1], ui>>}
                   ELSE {<<[t[1] EXCEPT !.src = NoSource, !.owed = FALSE], v>> :
                           v \in IF c.owed THEN ModelsShown(ui, c.src) ELSE {ui}}
    BY DEF CatalogStep
  <1>4. /\ OnlyOf(c, t[1], c.src) /\ t[1] \in Catalogs
        /\ t[2] = "pending" => Running(t[1], c.src) /\ Live(t[1].mach[c.src].fetch)
        /\ t[2] # "pending" => ~Running(t[1], c.src)
    BY <1>1, <1>2, SourceStepGood
  <1> DEFINE e == t[1]
  <1>5. \A q \in Providers : q # prov => e.mach[q] = c.mach[q]
    BY <1>1, <1>4 DEF OnlyOf
  <1>6. \A q \in Providers : q # prov => (Running(c, q) => c.src = q)
    BY <1>1 DEF SourceOwns
  <1>7. CASE t[2] = "pending"
    <2>1. r[1] = e /\ r[2] = ui
      BY <1>3, <1>7
    <2>2. e.src = prov /\ Running(e, prov) /\ Live(e.mach[prov].fetch) /\ e \in Catalogs
      BY <1>1, <1>4, <1>7 DEF OnlyOf
    <2> HIDE DEF e
    <2>3. SourceOwns(e)
      BY <1>1, <1>5, <1>6, <2>2, OwnsOne
    <2> QED
      BY <1>1, <2>1, <2>2, <2>3 DEF Owned
  <1>8. CASE t[2] # "pending"
    <2> DEFINE g == [e EXCEPT !.src = NoSource, !.owed = FALSE]
    <2>1. PICK v \in IF c.owed THEN ModelsShown(ui, c.src) ELSE {ui} : r = <<g, v>>
      BY <1>3, <1>8
    <2>2. e \in Catalogs /\ ~Running(e, prov)
      BY <1>1, <1>4, <1>8
    <2> HIDE DEF e
    <2>3. g \in Catalogs /\ g.src = NoSource /\ ~g.owed /\ g.mach = e.mach
      BY <2>2 DEF Catalogs
    <2> HIDE DEF g
    <2>4. ~Running(g, prov) /\ \A q \in Providers : q # prov => g.mach[q] = c.mach[q]
      BY <1>5, <2>2, <2>3 DEF Running
    <2>5. SourceOwns(g)
      BY <1>1, <1>6, <2>3, <2>4, OwnsNone
    <2>6. Shows(v, prov)
      BY <1>1, ModelsShow
    <2>7. r[1] = g /\ r[2] = v
      BY <2>1
    <2> QED
      BY <2>3, <2>5, <2>6, <2>7 DEF Owned
  <1> QED
    BY <1>7, <1>8

(* What the session allows.                                                 *)
LEMMA SceneFacts ==
    ASSUME scene \in Scenes
    PROVE  /\ \A p \in Providers : Kind(p) \in DOMAIN First
           /\ scene.unbidden \in BOOLEAN
  BY SceneAssumption DEF Kind

(* A list that was asked for.                                               *)
LEMMA ModelsAskedGood ==
    ASSUME AppInv, NEW u, Shows(u, prov), NEW r \in ModelsAsked(u)
    PROVE  Owned(r[1], prov) /\ Shows(r[2], prov)
  <1>1. /\ c \in Catalogs /\ SourceOwns(c) /\ c.src \in {NoSource, prov}
        /\ prov \in Providers /\ scene \in Scenes
    BY DEF AppInv, AppTypeOK
  <1>2. ASSUME NEW k \in Catalogs, SourceOwns(k), k.src = prov
        PROVE  Owned([k EXCEPT !.owed = TRUE], prov)
    <2> DEFINE d == [k EXCEPT !.owed = TRUE]
    <2>1. d \in Catalogs /\ d.src = prov /\ d.mach = k.mach
      BY <1>2 DEF Catalogs
    <2> HIDE DEF d
    <2>2. SourceOwns(d)
      BY <1>1, <1>2, <2>1, SourceAssumption DEF SourceOwns, Running
    <2> QED
      BY <2>1, <2>2 DEF Owned, d
  <1>3. CASE c.src # NoSource
    <2>1. r = <<[c EXCEPT !.owed = TRUE], u>>
      BY <1>3 DEF ModelsAsked
    <2> QED
      BY <1>1, <1>2, <1>3, <2>1
  <1>4. CASE c.src = NoSource
    <2>1. PICK t \in Opened(c, prov, Kind(prov), scene.unbidden) :
               r \in IF t[2] = "fetching" THEN {<<[t[1] EXCEPT !.owed = TRUE], u>>}
                     ELSE {<<t[1], v>> : v \in ModelsShown(u, prov)}
      BY <1>4 DEF ModelsAsked
    <2>2. Kind(prov) \in DOMAIN First /\ scene.unbidden \in BOOLEAN
      BY <1>1, SceneFacts
    <2>3. /\ t[1] \in Catalogs /\ SourceOwns(t[1])
          /\ t[2] = "fetching" => t[1].src = prov
          /\ t[2] # "fetching" => t[1].src = NoSource
      BY <1>1, <1>4, <2>2, OpenedGood
    <2>4. CASE t[2] = "fetching"
      <3>1. r = <<[t[1] EXCEPT !.owed = TRUE], u>>
        BY <2>1, <2>4
      <3> QED
        BY <1>2, <2>3, <2>4, <3>1
    <2>5. CASE t[2] # "fetching"
      <3>1. PICK v \in ModelsShown(u, prov) : r = <<t[1], v>>
        BY <2>1, <2>5
      <3>2. Shows(v, prov)
        BY <1>1, ModelsShow
      <3> QED
        BY <2>3, <2>5, <3>1, <3>2 DEF Owned
    <2> QED
      BY <2>4, <2>5
  <1> QED
    BY <1>3, <1>4

(* A warm of p, over a catalog whose source is p's or none.                 *)
LEMMA WarmedGood ==
    ASSUME scene \in Scenes, NEW p \in Providers, NEW k, Owned(k, p),
           NEW d \in Warmed(k, p)
    PROVE  Owned(d, p)
  <1>1. CASE d = k
    BY <1>1
  <1>2. CASE k.src = NoSource /\ \E t \in Opened(k, p, Kind(p), TRUE) : d = t[1]
    <2>1. PICK t \in Opened(k, p, Kind(p), TRUE) : d = t[1]
      BY <1>2
    <2>2. Kind(p) \in DOMAIN First
      BY SceneFacts
    <2>3. k \in Catalogs /\ SourceOwns(k) /\ k.src = NoSource
      BY <1>2 DEF Owned
    <2>5. \E allowed \in BOOLEAN : t \in Opened(k, p, Kind(p), allowed)
      OBVIOUS
    <2>4. /\ t[1] \in Catalogs /\ SourceOwns(t[1])
          /\ t[2] = "fetching" => t[1].src = p
          /\ t[2] # "fetching" => t[1].src = NoSource
      BY <2>2, <2>3, <2>5, OpenedGood
    <2> QED
      BY <2>1, <2>4 DEF Owned
  <1> QED
    BY <1>1, <1>2 DEF Warmed

-----------------------------------------------------------------------------
(* The balances. *)

(* A begin is refused, or asks.                                             *)
LEMMA CreditBeginsGood ==
    ASSUME NEW k \in Balances, NEW endpoint, NEW d \in CreditBegins(k, endpoint)
    PROVE  d \in Balances
  <1>1. Asked \in Fetches
    BY BoundsAssumption DEF Asked, Fetches
  <1>2. [k EXCEPT !.fetch = Asked, !.step = 0] \in Balances
    BY <1>1 DEF Balances
  <1> QED
    BY <1>2 DEF CreditBegins

(* A step of a refresh.                                                     *)
LEMMA CreditStepGood ==
    ASSUME NEW k \in Balances, Live(k.fetch), NEW p \in Providers,
           NEW d \in CreditStep(k, p)
    PROVE  d \in Balances
  <1>1. k.fetch \in Fetches /\ k.allowed \in Nat
    BY DEF Balances
  <1>2. /\ NoFetch \in Fetches /\ Asked \in Fetches /\ TTL \in Nat /\ Throttle \in Nat
        /\ Floor[p] \in Nat
    BY BoundsAssumption, CreditAssumption DEF NoFetch, Asked, Fetches
  <1>3. ASSUME NEW f \in Fetches PROVE [k EXCEPT !.fetch = f] \in Balances
    BY DEF Balances
  <1>4. Landed(k, p) \in Balances
    <2> DEFINE w == IF Floor[p] > 0 THEN Floor[p] ELSE k.allowed
    <2>1. w \in Nat
      BY <1>1, <1>2
    <2>2. Landed(k, p) = [k EXCEPT !.fetch = NoFetch, !.fresh = TTL, !.allowed = w]
      BY DEF Landed
    <2> HIDE DEF w
    <2> QED
      BY <1>2, <2>1, <2>2 DEF Balances
  <1>5. ASSUME NEW s PROVE Refused(k, p, s) \in Balances
    <2> DEFINE w == IF s = "throttled" THEN Throttle
                    ELSE IF Floor[p] > 0 THEN Floor[p] ELSE k.allowed
    <2>1. w \in Nat
      BY <1>1, <1>2
    <2>2. Refused(k, p, s) = [k EXCEPT !.fetch = NoFetch, !.allowed = w]
      BY DEF Refused
    <2> HIDE DEF w
    <2> QED
      BY <1>2, <2>1, <2>2 DEF Balances
  <1>6. [k EXCEPT !.fetch = Asked, !.step = 1] \in Balances
    BY <1>2 DEF Balances
  <1>7. PICK r \in FetchStep(k.fetch) :
             d \in CASE r[2] = "pending" -> {[k EXCEPT !.fetch = r[1]]}
                     [] r[2] = "ok" ->
                          {Landed(k, p)} \cup
                          (IF k.step + 1 < Steps[p]
                           THEN {[k EXCEPT !.fetch = Asked, !.step = 1]} ELSE {})
                     [] OTHER -> {Refused(k, p, r[2])}
    BY DEF CreditStep
  <1>8. r[1] \in Fetches
    BY <1>1, FetchStepGood
  <1> QED
    BY <1>3, <1>4, <1>5, <1>6, <1>7, <1>8

(* The warm of a balance: one record is begun, or none.                     *)
LEMMA PurseWarmed ==
    ASSUME NEW w \in [Providers -> Balances], NEW p \in Providers,
           NEW d \in CreditsWarmed(w, p)
    PROVE  d \in [Providers -> Balances]
  <1>1. CASE d = w
    BY <1>1
  <1>2. ASSUME NEW k \in CreditBegins(w[p], Endpoint(p)), d = [w EXCEPT ![p] = k]
        PROVE  d \in [Providers -> Balances]
    <2>1. k \in Balances
      BY <1>2, CreditBeginsGood
    <2> QED
      BY <1>2, <2>1
  <1> QED
    BY <1>1, <1>2 DEF CreditsWarmed

(* Time passes for a clock, a fetch and a balance.                          *)
LEMMA OlderGood ==
    /\ \A n \in Nat : Less(n) \in Nat
    /\ \A f \in Fetches : Aged(f) \in Fetches /\ (Live(Aged(f)) <=> Live(f))
    /\ \A k \in Balances : Older(k) \in Balances
  <1>1. \A n \in Nat : Less(n) \in Nat
    BY DEF Less
  <1>2. ASSUME NEW f \in Fetches
        PROVE  Aged(f) \in Fetches /\ (Live(Aged(f)) <=> Live(f))
    <2>1. f.left \in Nat /\ Less(f.left) \in Nat
      BY <1>1 DEF Fetches
    <2> QED
      BY <2>1 DEF Aged, Fetches, Live
  <1>3. ASSUME NEW k \in Balances PROVE Older(k) \in Balances
    <2>1. k.fetch \in Fetches /\ k.allowed \in Nat /\ k.fresh \in Nat \cup {Never}
      BY DEF Balances
    <2>2. Aged(k.fetch) \in Fetches /\ Less(k.allowed) \in Nat
      BY <1>1, <1>2, <2>1
    <2>3. Less(k.fresh) \in Nat \cup {Never}
      <3>1. Less(Never) = Never
        BY DEF Less, Never
      <3> QED
        BY <1>1, <2>1, <3>1
    <2> QED
      BY <2>2, <2>3 DEF Older, Balances
  <1> QED
    BY <1>1, <1>2, <1>3

(* The refresh is due only when its own backoff has run out.                *)
LEMMA DueIsUnarmed ==
    ASSUME NEW k \in Balances, NEW r \in Nat, DueIn(k, r) = 0
    PROVE  r = 0
  <1>1. k.allowed \in Nat /\ (IF k.fresh = Never THEN 0 ELSE k.fresh) \in Nat
    BY DEF Balances
  <1> QED
    BY <1>1 DEF DueIn

-----------------------------------------------------------------------------
(* The images of the next message. *)

(* The ids in s are of a store of n images, each there once.                *)
IdsOf(s, n) ==
    /\ s \in Seq(Nat)
    /\ \A i \in 1 .. Len(s) : s[i] < n
    /\ \A i, j \in 1 .. Len(s) : s[i] = s[j] => i = j

(* A new image is attached.                                                 *)
LEMMA AttachedIds ==
    ASSUME NEW s, NEW n \in Nat, IdsOf(s, n)
    PROVE  IdsOf(Append(s, n), n + 1)
  <1>1. s \in Seq(Nat) /\ Len(s) \in Nat
    BY DEF IdsOf
  <1> DEFINE t == Append(s, n)
  <1>2. /\ t \in Seq(Nat) /\ Len(t) = Len(s) + 1 /\ t[Len(s) + 1] = n
        /\ \A i \in 1 .. Len(s) : t[i] = s[i]
    BY <1>1
  <1> HIDE DEF t
  <1>3. \A i \in 1 .. Len(s) : s[i] < n /\ s[i] \in Nat
    BY <1>1 DEF IdsOf
  <1>4. \A i \in 1 .. Len(t) : i \in 1 .. Len(s) \/ i = Len(s) + 1
    BY <1>1, <1>2
  <1>5. \A i \in 1 .. Len(t) : t[i] < n + 1
    BY <1>2, <1>3, <1>4
  <1>6. ASSUME NEW i \in 1 .. Len(t), NEW j \in 1 .. Len(t), t[i] = t[j] PROVE i = j
    <2>1. CASE i \in 1 .. Len(s) /\ j \in 1 .. Len(s)
      BY <1>2, <1>6, <2>1 DEF IdsOf
    <2>2. CASE i = Len(s) + 1 /\ j \in 1 .. Len(s)
      BY <1>2, <1>3, <1>6, <2>2
    <2>3. CASE i \in 1 .. Len(s) /\ j = Len(s) + 1
      BY <1>2, <1>3, <1>6, <2>3
    <2> QED
      BY <1>4, <2>1, <2>2, <2>3
  <1> QED
    BY <1>2, <1>5, <1>6 DEF IdsOf, t

(* One is dropped.                                                          *)
LEMMA DroppedIds ==
    ASSUME NEW s, NEW n \in Nat, IdsOf(s, n), NEW m \in 1 .. Len(s)
    PROVE  IdsOf(SubSeq(s, 1, m - 1) \o SubSeq(s, m + 1, Len(s)), n)
  <1>1. s \in Seq(Nat) /\ Len(s) \in Nat /\ m \in Nat /\ m >= 1 /\ m <= Len(s)
    BY DEF IdsOf
  <1> DEFINE a == SubSeq(s, 1, m - 1)
             b == SubSeq(s, m + 1, Len(s))
             t == a \o b
  <1>2. a \in Seq(Nat) /\ Len(a) = m - 1 /\ \A i \in 1 .. m - 1 : a[i] = s[i]
    BY <1>1
  <1>3. /\ b \in Seq(Nat) /\ Len(b) = Len(s) - m
        /\ \A i \in 1 .. Len(s) - m : b[i] = s[m + i]
    BY <1>1
  <1> HIDE DEF a, b
  <1>4. /\ t \in Seq(Nat) /\ Len(t) = Len(a) + Len(b)
        /\ \A i \in 1 .. Len(t) : t[i] = IF i <= Len(a) THEN a[i] ELSE b[i - Len(a)]
    <2>1. a \in Seq(Nat) /\ b \in Seq(Nat)
      BY <1>2, <1>3
    <2>2. /\ t \in Seq(Nat) /\ Len(t) = Len(a) + Len(b)
          /\ \A i \in 1 .. Len(a) + Len(b) :
                t[i] = IF i <= Len(a) THEN a[i] ELSE b[i - Len(a)]
      BY <2>1, ConcatProperties
    <2> HIDE DEF t
    <2> QED
      BY <2>2
  <1> HIDE DEF t
  <1> DEFINE at(i) == IF i < m THEN i ELSE i + 1
  <1>5. ASSUME NEW i \in 1 .. Len(t) PROVE at(i) \in 1 .. Len(s) /\ t[i] = s[at(i)]
    <2>1. i \in Nat /\ i >= 1 /\ i <= Len(s) - 1
      BY <1>1, <1>2, <1>3, <1>4
    <2>2. CASE i < m
      <3>1. i \in 1 .. m - 1 /\ i <= Len(a)
        BY <1>1, <1>2, <2>1, <2>2
      <3> QED
        BY <1>1, <1>2, <1>4, <2>1, <2>2, <3>1
    <2>3. CASE ~(i < m)
      <3>1. i - Len(a) \in 1 .. Len(s) - m /\ ~(i <= Len(a)) /\ m + (i - Len(a)) = i + 1
        BY <1>1, <1>2, <2>1, <2>3
      <3>2. t[i] = b[i - Len(a)]
        BY <1>4, <3>1
      <3>3. b[i - Len(a)] = s[m + (i - Len(a))]
        BY <1>3, <3>1
      <3>4. t[i] = s[i + 1]
        BY <3>1, <3>2, <3>3
      <3>5. at(i) = i + 1 /\ i + 1 \in 1 .. Len(s)
        BY <1>1, <2>1, <2>3
      <3> QED
        BY <3>4, <3>5
    <2> QED
      BY <2>2, <2>3
  <1>6. \A i \in 1 .. Len(t) : t[i] < n
    BY <1>5 DEF IdsOf
  <1>7. ASSUME NEW i \in 1 .. Len(t), NEW j \in 1 .. Len(t), t[i] = t[j] PROVE i = j
    <2>1. at(i) = at(j)
      BY <1>5, <1>7 DEF IdsOf
    <2> QED
      BY <1>1, <2>1
  <1> QED
    BY <1>4, <1>6, <1>7 DEF IdsOf, t, a, b

-----------------------------------------------------------------------------
(* Every step of the application. *)

(* What the invariant says, part by part ...                                *)
LEMMA InvParts ==
    ASSUME AppInv
    PROVE  /\ scene \in Scenes /\ prov \in Providers
           /\ hasModel \in BOOLEAN /\ busy \in BOOLEAN
           /\ images \in Nat /\ IdsOf(pending, images)
           /\ Shows(ui, prov) /\ Owned(c, prov)
           /\ purse \in [Providers -> Balances] /\ purse[prov] \in Balances
           /\ retry \in Nat /\ tried \in [left : Nat, n : Nat]
           /\ tried.left <= retry /\ tried.n <= 1
  BY DEF AppInv, AppTypeOK, PendingIsAlive, IdsOf, Shows, Owned

(* ... and what a step that leaves most of it alone must still show.        *)
SceneOK  == scene' \in Scenes /\ hasModel' \in BOOLEAN /\ busy' \in BOOLEAN
ImagesOK == images' \in Nat /\ IdsOf(pending', images')
TimerOK  == /\ retry' \in Nat /\ tried' \in [left : Nat, n : Nat]
            /\ tried'.left <= retry' /\ tried'.n <= 1

(* Together they are the invariant of the next state.                       *)
LEMMA InvOfParts ==
    ASSUME SceneOK, prov' \in Providers, ImagesOK, Shows(ui', prov'),
           Owned(c', prov'), purse' \in [Providers -> Balances], TimerOK
    PROVE  AppInv'
  BY DEF SceneOK, ImagesOK, TimerOK, AppInv, AppTypeOK, PendingIsAlive, IdsOf, Shows,
         Owned

(* What is left alone is as it was.                                         *)
LEMMA LeftAlone ==
    ASSUME AppInv
    PROVE  /\ UNCHANGED <<scene, hasModel, busy>> => SceneOK
           /\ UNCHANGED <<images, pending>> => ImagesOK
           /\ UNCHANGED <<retry, tried>> => TimerOK
           /\ UNCHANGED <<ui, prov>> => Shows(ui', prov')
           /\ UNCHANGED <<c, prov>> => Owned(c', prov')
  BY InvParts DEF SceneOK, ImagesOK, TimerOK

(* A step that moves only the prompt line and what it shows.                *)
LEMMA UiStep ==
    ASSUME AppInv, Shows(ui', prov),
           UNCHANGED <<scene, prov, hasModel, busy, images, pending, c, purse, retry, tried>>
    PROVE  AppInv'
  <1>1. SceneOK /\ ImagesOK /\ TimerOK /\ Owned(c', prov')
    BY LeftAlone
  <1>2. prov' \in Providers /\ Shows(ui', prov') /\ purse' \in [Providers -> Balances]
    BY InvParts
  <1> QED
    BY <1>1, <1>2, InvOfParts

(* The keys: an edit, a key of the popup, the three ways to stop.           *)
LEMMA KeysKeep ==
    ASSUME AppInv, PopupKeyPressed \/ LineKey \/ Interrupt \/ EscapeTurn \/ EndOfInput
    PROVE  AppInv'
  <1>1. Shows(ui, prov) /\ scene \in Scenes
    BY InvParts
  <1>2. CASE PopupKeyPressed
    <2>1. PICK key \in {"esc", "enter", "char", "down"} : ui' \in PopupKey(ui, key)
      BY <1>2 DEF PopupKeyPressed, Updated
    <2>2. Shows(ui', prov)
      BY <1>1, <2>1, PopupKeyShows
    <2> QED
      BY <1>2, <2>2, UiStep DEF PopupKeyPressed
  <1>3. CASE LineKey
    <2>1. ASSUME ui' \in UNION {MentionSync(v, TRUE, FALSE, TRUE) : v \in Typed(ui)}
          PROVE  Shows(ui', prov)
      <3>1. PICK v \in Typed(ui) : ui' \in MentionSync(v, TRUE, FALSE, TRUE)
        BY <2>1
      <3> QED
        BY <1>1, <3>1, TypedShows, SyncShows
    <2>2. ASSUME ui' \in UNION {MentionSync(v, FALSE, FALSE, TRUE) :
                                v \in MentionSync([ui EXCEPT !.quiet = FALSE], FALSE, TRUE, TRUE)}
          PROVE  Shows(ui', prov)
      <3>1. PICK v \in MentionSync([ui EXCEPT !.quiet = FALSE], FALSE, TRUE, TRUE) :
                 ui' \in MentionSync(v, FALSE, FALSE, TRUE)
        BY <2>2
      <3>2. \A q \in BOOLEAN : Shows([ui EXCEPT !.quiet = q], prov)
        BY <1>1, LineChanges
      <3>3. Shows([ui EXCEPT !.quiet = FALSE], prov)
        BY <3>2
      <3>4. Shows(v, prov)
        BY <3>1, <3>3, SyncShows
      <3> QED
        BY <3>1, <3>4, SyncShows
    <2>3. ASSUME ui' \in Completed(ui) PROVE Shows(ui', prov)
      BY <1>1, <2>3, CompletedShows
    <2>4. Shows(ui', prov)
      BY <1>3, <2>1, <2>2, <2>3 DEF LineKey, Updated
    <2> QED
      BY <1>3, <2>4, UiStep DEF LineKey
  <1>4. ASSUME TurnCancelled PROVE AppInv'
    <2>1. busy' \in BOOLEAN
      BY <1>4, Zenon DEF TurnCancelled
    <2>2. SceneOK
      BY <1>4, <2>1, InvParts DEF TurnCancelled, SceneOK
    <2>3. ImagesOK /\ TimerOK /\ Owned(c', prov') /\ Shows(ui', prov')
      BY <1>4, LeftAlone DEF TurnCancelled
    <2>4. prov' \in Providers /\ purse' \in [Providers -> Balances]
      BY <1>4, InvParts DEF TurnCancelled
    <2> QED
      BY <2>2, <2>3, <2>4, InvOfParts
  <1>5. ASSUME ui' \in MentionSync(Hidden(MentionClosed(ui)), FALSE, FALSE, TRUE)
        PROVE  Shows(ui', prov)
    <2>1. MentionClosed(ui) \in Screens
      BY <1>1, ClosedShows DEF Shows
    <2>2. Shows(Hidden(MentionClosed(ui)), prov)
      BY <2>1, HiddenShows
    <2> QED
      BY <1>5, <2>2, SyncShows
  <1>6. CASE Interrupt
    <2>1. ASSUME ui' \in MentionSync([ui EXCEPT !.draft = ""], TRUE, FALSE, TRUE)
          PROVE  Shows(ui', prov)
      <3>1. "" \in Drafts
        BY DEF Drafts
      <3>2. Shows([ui EXCEPT !.draft = ""], prov)
        BY <1>1, <3>1, LineChanges
      <3> QED
        BY <2>1, <3>2, SyncShows
    <2>2. CASE busy /\ TurnCancelled
      BY <1>4, <2>2
    <2>3. CASE ~(busy /\ TurnCancelled)
      <3>1. Shows(ui', prov)
        BY <1>5, <1>6, <2>1, <2>3 DEF Interrupt, Updated
      <3> QED
        BY <1>6, <2>3, <3>1, UiStep DEF Interrupt
    <2> QED
      BY <2>2, <2>3
  <1>7. CASE EscapeTurn
    BY <1>4, <1>7 DEF EscapeTurn
  <1>8. CASE EndOfInput
    <2>1. Shows(ui', prov)
      BY <1>5, <1>8 DEF EndOfInput, Updated
    <2> QED
      BY <1>8, <2>1, UiStep DEF EndOfInput
  <1> QED
    BY <1>2, <1>3, <1>6, <1>7, <1>8

(* The line that is sent.                                                   *)
LEMMA SentShows ==
    ASSUME AppInv
    PROVE  Shows(Sent, prov) /\ (~ui.visible => \A p : Shows(Sent, p))
  <1>1. Shows(ui, prov) /\ "" \in Drafts
    BY InvParts DEF Drafts
  <1>2. Shows(MentionClosed(ui), prov)
    BY <1>1, ClosedShows
  <1>3. Shows([MentionClosed(ui) EXCEPT !.draft = "", !.quiet = FALSE], prov)
    BY <1>1, <1>2, LineChanges
  <1>4. Shows(Sent, prov)
    BY <1>3 DEF Sent
  <1>5. ASSUME ~ui.visible PROVE ~Sent.visible
    <2>1. ~MentionClosed(ui).visible /\ MentionClosed(ui) \in Screens
      BY <1>1, <1>2, <1>5, ClosedShows DEF Shows
    <2> QED
      BY <2>1 DEF Sent, Screens
  <1> QED
    BY <1>4, <1>5 DEF Shows, RowsOf

(* Enter on the line: a message, a list, an image, the balance.             *)
LEMMA SubmitKeeps ==
    ASSUME AppInv, SubmitText PROVE AppInv'
  <1>1. /\ TimerOK /\ Owned(c', prov') /\ prov' = prov /\ prov' \in Providers
        /\ purse' \in [Providers -> Balances] /\ images' = images /\ images \in Nat
        /\ scene' \in Scenes /\ hasModel' \in BOOLEAN
    BY LeftAlone, InvParts DEF SubmitText
  <1>2. CASE hasModel
    <2>1. ui' = Sent /\ pending' = <<>> /\ busy' = TRUE
      BY <1>2 DEF SubmitText
    <2>2. busy' \in BOOLEAN
      BY <2>1, Zenon
    <2>3. ImagesOK
      BY <1>1, <2>1 DEF ImagesOK, IdsOf
    <2>4. SceneOK /\ Shows(ui', prov')
      BY <1>1, <2>1, <2>2, SentShows DEF SceneOK
    <2> QED
      BY <1>1, <2>3, <2>4, InvOfParts
  <1>3. CASE ~hasModel
    <2>1. /\ ui' \in MentionSync(MentionClosed(ui), FALSE, FALSE, TRUE)
          /\ UNCHANGED <<busy, pending>>
      BY <1>3 DEF SubmitText, Updated
    <2>2. Shows(ui', prov)
      BY <2>1, InvParts, ClosedShows, SyncShows
    <2>3. ImagesOK /\ SceneOK
      BY <2>1, LeftAlone DEF SubmitText
    <2> QED
      BY <1>1, <2>2, <2>3, InvOfParts
  <1> QED
    BY <1>2, <1>3

(* The commands that stay with the provider.                                *)
LEMMA CommandsKeep ==
    ASSUME AppInv, ModelCommand \/ ProvidersCommand \/ ImageCommand \/ CreditsCommand
    PROVE  AppInv'
  <1>1. Shows(Sent, prov) /\ prov \in Providers
    BY SentShows, InvParts
  <1>2. CASE ModelCommand
    <2>1. /\ ImagesOK /\ TimerOK /\ prov' = prov
          /\ purse' \in [Providers -> Balances] /\ scene' \in Scenes /\ busy' \in BOOLEAN
      BY <1>2, LeftAlone, InvParts DEF ModelCommand
    <2>2. ASSUME NEW r \in ModelsAsked(Sent), c' = r[1], ui' = r[2], UNCHANGED hasModel
          PROVE  Owned(c', prov) /\ Shows(ui', prov) /\ hasModel' \in BOOLEAN
      BY <1>1, <2>2, ModelsAskedGood, InvParts
    <2>3. ASSUME hasModel' = TRUE, ui' = Sent, UNCHANGED c
          PROVE  Owned(c', prov) /\ Shows(ui', prov) /\ hasModel' \in BOOLEAN
      <3>1. hasModel' \in BOOLEAN
        BY <2>3, Zenon
      <3> QED
        BY <1>1, <2>3, <3>1, InvParts
    <2>4. Owned(c', prov) /\ Shows(ui', prov) /\ hasModel' \in BOOLEAN
      BY <1>2, <2>2, <2>3 DEF ModelCommand
    <2> QED
      BY <1>1, <2>1, <2>4, InvOfParts DEF SceneOK
  <1>3. CASE ProvidersCommand
    <2>1. CASE ui' = Sent
      BY <1>1, <1>3, <2>1, UiStep DEF ProvidersCommand
    <2>2. CASE ui' \in Offered(Sent, "providers", "none")
      <3>1. "providers" \in {"models", "providers"} /\ "none" \in Providers \cup {"none"}
            /\ "providers" # "models"
        OBVIOUS
      <3>2. Shows(ui', prov)
        BY <1>1, <2>2, <3>1, OfferedShows
      <3> QED
        BY <1>3, <3>2, UiStep DEF ProvidersCommand
    <2> QED
      BY <1>3, <2>1, <2>2 DEF ProvidersCommand, Updated
  <1>4. CASE ImageCommand
    <2>1. /\ SceneOK /\ TimerOK /\ Owned(c', prov') /\ prov' = prov
          /\ purse' \in [Providers -> Balances] /\ Shows(ui', prov)
      BY <1>1, <1>4, LeftAlone, InvParts DEF ImageCommand
    <2>2. images \in Nat /\ IdsOf(pending, images)
      BY InvParts
    <2>3. ASSUME images' = images + 1, pending' = Append(pending, images)
          PROVE  ImagesOK
      BY <2>2, <2>3, AttachedIds DEF ImagesOK
    <2>4. ASSUME NEW i \in 1 .. Len(pending), images' = images,
                 pending' = SubSeq(pending, 1, i - 1) \o SubSeq(pending, i + 1, Len(pending))
          PROVE  ImagesOK
      BY <2>2, <2>4, DroppedIds DEF ImagesOK
    <2>5. ImagesOK
      BY <1>4, <2>3, <2>4 DEF ImageCommand
    <2> QED
      BY <1>1, <2>1, <2>5, InvOfParts
  <1>5. CASE CreditsCommand
    <2>1. /\ SceneOK /\ ImagesOK /\ TimerOK /\ Owned(c', prov') /\ prov' = prov
          /\ Shows(ui', prov)
      BY <1>1, <1>5, LeftAlone DEF CreditsCommand
    <2>2. CreditAsked => purse' \in [Providers -> Balances]
      BY InvParts, CreditBeginsGood DEF CreditAsked
    <2>3. purse' \in [Providers -> Balances]
      BY <1>5, <2>2, InvParts DEF CreditsCommand
    <2> QED
      BY <1>1, <2>1, <2>3, InvOfParts
  <1> QED
    BY <1>2, <1>3, <1>4, <1>5

(* A provider switch: what belonged to the old one is gone, and what is     *)
(* begun is the new one's.                                                  *)
LEMMA SwitchKeeps ==
    ASSUME AppInv, NEW p \in Providers, SwitchProvider(p) PROVE AppInv'
  <1>1. /\ scene \in Scenes /\ busy \in BOOLEAN /\ Owned(c, prov) /\ prov \in Providers
        /\ purse \in [Providers -> Balances]
    BY InvParts
  <1>2. SceneOK
    BY <1>1 DEF SwitchProvider, SceneOK
  <1>3. ImagesOK
    BY DEF SwitchProvider, ImagesOK, IdsOf, PendingDropped
  <1>4. Shows(ui', prov')
    BY SentShows DEF SwitchProvider, CanSubmit
  <1>5. Owned(c', prov')
    <2>1. /\ SourceFreed(c) \in Catalogs /\ SourceOwns(SourceFreed(c))
          /\ SourceFreed(c).src = NoSource
      BY <1>1, FreedGood
    <2>2. Owned(SourceFreed(c), p)
      BY <2>1 DEF Owned
    <2>3. c' \in Warmed(SourceFreed(c), p) /\ prov' = p
      BY DEF SwitchProvider
    <2> QED
      BY <1>1, <2>2, <2>3, WarmedGood
  <1>6. purse' \in [Providers -> Balances]
    BY <1>1, PurseWarmed DEF SwitchProvider
  <1>7. TimerOK
    BY DEF SwitchProvider, TimerOK, NoTry
  <1>8. prov' \in Providers
    BY DEF SwitchProvider
  <1> QED
    BY <1>2, <1>3, <1>4, <1>5, <1>6, <1>7, <1>8, InvOfParts

(* What the agent reports, and the balances it asks for.                    *)
LEMMA ReportsKeep ==
    ASSUME AppInv,
           ImageArrives \/ PaymentRequired \/ (\E done \in BOOLEAN : TurnEnds(done))
    PROVE  AppInv'
  <1>1. /\ TimerOK /\ Owned(c', prov') /\ Shows(ui', prov') /\ prov' \in Providers
    BY LeftAlone, InvParts DEF ImageArrives, PaymentRequired, TurnEnds
  <1>2. CreditAsked => purse' \in [Providers -> Balances]
    BY InvParts, CreditBeginsGood DEF CreditAsked
  <1>3. purse' \in [Providers -> Balances]
    BY <1>2, InvParts DEF ImageArrives, PaymentRequired, TurnEnds
  <1>4. CASE ImageArrives
    <2>1. images \in Nat /\ IdsOf(pending, images)
      BY InvParts
    <2>2. images' = images + 1 /\ pending' = pending
      BY <1>4 DEF ImageArrives
    <2>3. pending \in Seq(Nat) /\ \A i \in 1 .. Len(pending) : pending[i] \in Nat
      BY <2>1 DEF IdsOf
    <2>4. ImagesOK
      BY <2>1, <2>2, <2>3 DEF ImagesOK, IdsOf
    <2>5. SceneOK
      BY <1>4, LeftAlone DEF ImageArrives
    <2> QED
      BY <1>1, <1>3, <2>4, <2>5, InvOfParts
  <1>5. CASE PaymentRequired
    <2>1. ImagesOK /\ SceneOK
      BY <1>5, LeftAlone DEF PaymentRequired
    <2> QED
      BY <1>1, <1>3, <2>1, InvOfParts
  <1>6. ASSUME NEW done \in BOOLEAN, TurnEnds(done) PROVE AppInv'
    <2>1. ImagesOK
      BY <1>6, LeftAlone DEF TurnEnds
    <2>2. busy' \in BOOLEAN
      BY <1>6, Zenon DEF TurnEnds
    <2>3. SceneOK
      BY <1>6, <2>2, InvParts DEF TurnEnds, SceneOK
    <2> QED
      BY <1>1, <1>3, <2>1, <2>3, InvOfParts
  <1> QED
    BY <1>4, <1>5, <1>6

(* A socket that is ready: the catalog's or the balance's.                  *)
LEMMA SocketsKeep ==
    ASSUME AppInv, CatalogReady \/ CreditReady PROVE AppInv'
  <1>1. SceneOK /\ ImagesOK /\ TimerOK /\ prov' = prov /\ prov' \in Providers
    BY LeftAlone, InvParts DEF CatalogReady, CreditReady
  <1>2. CASE CatalogReady
    <2>1. PICK r \in CatalogStep : c' = r[1] /\ ui' = r[2]
      BY <1>2 DEF CatalogReady
    <2>2. c.src # NoSource
      BY <1>2 DEF CatalogReady
    <2>3. Owned(r[1], prov) /\ Shows(r[2], prov)
      BY <2>1, <2>2, CatalogStepGood
    <2>4. purse' \in [Providers -> Balances]
      BY <1>2, InvParts DEF CatalogReady
    <2> QED
      BY <1>1, <2>1, <2>3, <2>4, InvOfParts
  <1>3. CASE CreditReady
    <2>1. PICK k \in CreditStep(purse[prov], prov) : purse' = [purse EXCEPT ![prov] = k]
      BY <1>3 DEF CreditReady
    <2>2. Live(purse[prov].fetch) /\ purse[prov] \in Balances /\ prov \in Providers
          /\ purse \in [Providers -> Balances]
      BY <1>3, InvParts DEF CreditReady, InFlight
    <2>3. k \in Balances
      BY <2>1, <2>2, CreditStepGood
    <2>4. purse' \in [Providers -> Balances]
      BY <2>1, <2>2, <2>3
    <2>5. Owned(c', prov') /\ Shows(ui', prov')
      BY <1>3, LeftAlone DEF CreditReady
    <2> QED
      BY <1>1, <2>4, <2>5, InvOfParts
  <1> QED
    BY <1>2, <1>3

(* The timers: the catalog's and the balance's own, and the idle refresh,   *)
(* which is armed when it fires and cannot fire while it is armed.          *)
LEMMA TickKeeps ==
    ASSUME AppInv, Tick PROVE AppInv'
  <1>1. SceneOK /\ ImagesOK /\ prov' = prov /\ prov \in Providers
    BY LeftAlone, InvParts DEF Tick
  <1>2. Owned(c', prov') /\ Shows(ui', prov')
    <2>1. CASE c.src # NoSource /\ Due(c.mach[c.src].fetch)
      <3>1. PICK r \in CatalogStep : c' = r[1] /\ ui' = r[2]
        BY <2>1 DEF Tick
      <3> QED
        BY <1>1, <2>1, <3>1, CatalogStepGood
    <2>2. CASE ~(c.src # NoSource /\ Due(c.mach[c.src].fetch))
      BY <1>1, <2>2, LeftAlone DEF Tick
    <2> QED
      BY <2>1, <2>2
  <1>3. PICK k \in IF Due(purse[prov].fetch) THEN CreditStep(purse[prov], prov)
                                             ELSE {purse[prov]} :
            IF RefreshDue(k) THEN Fires(k)
            ELSE purse' = [purse EXCEPT ![prov] = k] /\ UNCHANGED <<retry, tried>>
    BY DEF Tick
  <1>4. purse \in [Providers -> Balances] /\ purse[prov] \in Balances
    BY InvParts
  <1>5. k \in Balances
    <2>1. CASE Due(purse[prov].fetch)
      <3>1. Live(purse[prov].fetch) /\ k \in CreditStep(purse[prov], prov)
        BY <1>3, <2>1 DEF Due
      <3> QED
        BY <1>1, <1>4, <3>1, CreditStepGood
    <2>2. CASE ~Due(purse[prov].fetch)
      BY <1>3, <1>4, <2>2
    <2> QED
      BY <2>1, <2>2
  <1>6. CASE RefreshDue(k)
    <2>1. Fires(k)
      BY <1>3, <1>6
    <2>2. purse' \in [Providers -> Balances]
      <3>1. PICK r \in CreditBegins(k, TRUE) : purse' = [purse EXCEPT ![prov] = r]
        BY <2>1 DEF Fires
      <3>2. r \in Balances
        BY <1>5, <3>1, CreditBeginsGood
      <3> QED
        BY <1>1, <1>4, <3>1, <3>2
    <2>3. retry \in Nat /\ tried \in [left : Nat, n : Nat] /\ tried.left <= retry
      BY InvParts
    <2>4. DueIn(k, retry) = 0
      BY <1>6 DEF RefreshDue
    <2>5. retry = 0
      BY <1>5, <2>3, <2>4, DueIsUnarmed
    <2>6. tried.left = 0
      BY <2>3, <2>5
    <2>7. retry' = TTL /\ tried' = [left |-> TTL, n |-> 1] /\ TTL \in Nat
      BY <2>1, <2>6, CreditAssumption DEF Fires
    <2>8. TimerOK
      BY <2>7 DEF TimerOK
    <2> QED
      BY <1>1, <1>2, <2>2, <2>8, InvOfParts
  <1>7. CASE ~RefreshDue(k)
    <2>1. purse' = [purse EXCEPT ![prov] = k] /\ UNCHANGED <<retry, tried>>
      BY <1>3, <1>7
    <2>2. purse' \in [Providers -> Balances]
      BY <1>1, <1>4, <1>5, <2>1
    <2>3. TimerOK
      BY <2>1, LeftAlone
    <2> QED
      BY <1>1, <1>2, <2>2, <2>3, InvOfParts
  <1> QED
    BY <1>6, <1>7

(* Time: every machine that ran runs on, with a fetch as live as it was.    *)
LEMMA TimeKeeps ==
    ASSUME AppInv, TimePasses PROVE AppInv'
  <1>1. SceneOK /\ ImagesOK /\ Shows(ui', prov') /\ prov' = prov /\ prov' \in Providers
    BY LeftAlone, InvParts DEF TimePasses
  <1>2. Owned(c', prov')
    <2>1. c \in Catalogs /\ SourceOwns(c) /\ c.src \in {NoSource, prov}
      BY InvParts DEF Owned
    <2>2. c.mach \in [Providers -> Machines]
      BY <2>1, CatalogFields
    <2> DEFINE aged == [p \in Providers |-> [c.mach[p] EXCEPT !.fetch = Aged(@)]]
    <2>3. c' = [c EXCEPT !.mach = aged]
      BY DEF TimePasses
    <2>4. ASSUME NEW p \in Providers
          PROVE  /\ aged[p] \in Machines /\ aged[p].stage = c.mach[p].stage
                 /\ Live(aged[p].fetch) <=> Live(c.mach[p].fetch)
      <3>1. c.mach[p] \in Machines /\ c.mach[p].fetch \in Fetches
        BY <2>2 DEF Machines
      <3>2. Aged(c.mach[p].fetch) \in Fetches
            /\ (Live(Aged(c.mach[p].fetch)) <=> Live(c.mach[p].fetch))
        BY <3>1, OlderGood
      <3> HIDE DEF aged
      <3>3. aged[p] = [c.mach[p] EXCEPT !.fetch = Aged(c.mach[p].fetch)]
        BY DEF aged
      <3> QED
        BY <3>1, <3>2, <3>3 DEF Machines
    <2>5. aged \in [Providers -> Machines]
      BY <2>4
    <2> HIDE DEF aged
    <2>6. c' \in Catalogs /\ c'.mach = aged /\ c'.src = c.src /\ c'.owed = c.owed
      BY <2>1, <2>3, <2>5 DEF Catalogs
    <2>7. \A p \in Providers : Running(c', p) <=> Running(c, p)
      BY <2>4, <2>6 DEF Running
    <2>8. c'.src # NoSource => Live(c'.mach[c'.src].fetch)
      <3>1. c.src # NoSource => c.src \in Providers /\ Live(c.mach[c.src].fetch)
        BY <2>1, InvParts DEF SourceOwns
      <3> QED
        BY <2>4, <2>6, <3>1
    <2>9. SourceOwns(c')
      BY <2>1, <2>6, <2>7, <2>8 DEF SourceOwns
    <2> QED
      BY <1>1, <2>1, <2>6, <2>9 DEF Owned
  <1>3. purse' \in [Providers -> Balances]
    BY InvParts, OlderGood DEF TimePasses
  <1>4. TimerOK
    <2>1. retry \in Nat /\ tried \in [left : Nat, n : Nat] /\ tried.left <= retry
          /\ tried.n <= 1
      BY InvParts
    <2>2. retry' = Less(retry)
          /\ tried' = IF tried.left <= 1 THEN NoTry ELSE [tried EXCEPT !.left = @ - 1]
      BY DEF TimePasses
    <2>3. retry' \in Nat
      BY <2>1, <2>2, OlderGood
    <2>4. CASE tried.left <= 1
      BY <2>1, <2>2, <2>3, <2>4 DEF TimerOK, NoTry
    <2>5. CASE ~(tried.left <= 1)
      <3>1. retry' = retry - 1 /\ tried.left - 1 \in Nat
        BY <2>1, <2>2, <2>5 DEF Less
      <3>2. tried'.left = tried.left - 1 /\ tried'.n = tried.n
            /\ tried' \in [left : Nat, n : Nat]
        BY <2>1, <2>2, <2>5, <3>1
      <3> QED
        BY <2>1, <2>3, <3>1, <3>2 DEF TimerOK
    <2> QED
      BY <2>4, <2>5
  <1> QED
    BY <1>1, <1>2, <1>3, <1>4, InvOfParts

-----------------------------------------------------------------------------
(* Start-up: nothing runs but what the two warms begin.                     *)
LEMMA AppStart ==
    ASSUME Init PROVE AppInv
  <1>1. scene \in Scenes /\ prov \in Providers /\ hasModel \in BOOLEAN
    BY DEF Init
  <1>2. busy \in BOOLEAN
    BY Zenon DEF Init
  <1>3. Owned(Cold(scene), prov)
    <2> DEFINE k == Cold(scene)
    <2>1. Still \in Machines /\ Still.stage = "idle"
      <3>1. NoFetch \in Fetches
        BY DEF NoFetch, Fetches
      <3> QED
        BY <3>1 DEF Still, Machines, Stages
    <2>2. /\ k.mach = [p \in Providers |-> Still] /\ k.src = NoSource /\ k.owed = FALSE
          /\ k.cache \in [Providers -> {"cold", "live"}] /\ k.document = FALSE
          /\ k = [mach |-> k.mach, cache |-> k.cache, document |-> FALSE,
                  src |-> NoSource, owed |-> FALSE]
      BY DEF Cold
    <2> HIDE DEF k
    <2>3. k \in Catalogs
      BY <2>1, <2>2 DEF Catalogs
    <2>4. SourceOwns(k)
      BY <2>1, <2>2, SourceAssumption DEF SourceOwns, Running
    <2>5. Owned(k, prov)
      BY <2>2, <2>3, <2>4 DEF Owned
    <2> QED
      BY <2>5 DEF k
  <1>4. Owned(c, prov)
    BY <1>1, <1>3, WarmedGood DEF Init
  <1>5. purse \in [Providers -> Balances]
    <2>1. Unread \in Balances
      BY DEF Unread, NoFetch, Balances, Fetches
    <2>2. [p \in Providers |-> Unread] \in [Providers -> Balances]
      BY <2>1
    <2> QED
      BY <1>1, <2>2, PurseWarmed DEF Init
  <1>6. Shows(ui, prov)
    <2>1. Blank \in Screens
      BY DEF Blank, Screens, Popups, Drafts
    <2>2. Blank.visible = FALSE /\ ui = Blank
      BY DEF Blank, Init
    <2> QED
      BY <2>1, <2>2 DEF Shows, RowsOf
  <1>7. images = 0 /\ IdsOf(pending, images)
    BY DEF Init, IdsOf
  <1>8. /\ retry \in Nat /\ tried \in [left : Nat, n : Nat]
        /\ tried.left <= retry /\ tried.n <= 1
    BY DEF Init, NoTry
  <1> QED
    BY <1>1, <1>2, <1>4, <1>5, <1>6, <1>7, <1>8
    DEF AppInv, AppTypeOK, PendingIsAlive, IdsOf, Shows, Owned

(* Every step keeps the invariant.                                          *)
LEMMA AppStepKeeps ==
    ASSUME AppInv, [Next]_vars PROVE AppInv'
  <1>1. CASE UNCHANGED vars
    <2>1. /\ SceneOK /\ ImagesOK /\ TimerOK /\ Owned(c', prov') /\ Shows(ui', prov')
          /\ prov' \in Providers /\ purse' \in [Providers -> Balances]
      BY <1>1, LeftAlone, InvParts DEF vars
    <2> QED
      BY <2>1, InvOfParts
  <1>2. CASE Next
    BY <1>2, KeysKeep, SubmitKeeps, CommandsKeep, SwitchKeeps, ReportsKeep, SocketsKeep,
       TickKeeps, TimeKeeps DEF Next
  <1> QED
    BY <1>1, <1>2

(* The application's invariant holds of every reachable state, with any     *)
(* number of providers, endpoints, rows and waits: the list source owns the *)
(* one machine that runs, and it is the active provider's (chat_app.c).     *)
THEOREM AppInvariant == Spec => []AppInv
  <1>1. Init => AppInv
    BY AppStart
  <1>2. AppInv /\ [Next]_vars => AppInv'
    BY AppStepKeeps
  <1> QED
    BY <1>1, <1>2, PTL DEF Spec

(* Every part of the app's state stays of its type.                         *)
THEOREM AppTypeCorrect == Spec => []AppTypeOK
  <1>1. AppInv => AppTypeOK
    BY DEF AppInv
  <1> QED
    BY <1>1, AppInvariant, PTL

(* A catalog machine runs exactly while the app's source owns it, it is the *)
(* active provider's, and its fetch is alive: no switch, end of a fetch or  *)
(* refused begin leaves one behind (catalog_source_free, provider_switch).  *)
THEOREM MachinesAreOwned == Spec => []MachineHasItsSource
  <1>1. AppInv => MachineHasItsSource
    BY SourceAssumption DEF AppInv, AppTypeOK, SourceOwns, MachineHasItsSource
  <1> QED
    BY <1>1, AppInvariant, PTL

(* Model rows on the screen are the active provider's, and a popup is owed  *)
(* only while the fetch that can open it is under way for that provider.    *)
THEOREM RowsFollowTheProvider == Spec => []RowsAreTheProviders
  <1>1. AppInv => RowsAreTheProviders
    BY DEF AppInv, SourceOwns, RowsOf, RowsAreTheProviders
  <1> QED
    BY <1>1, AppInvariant, PTL

(* Every pending image is in the store of the agent that will send it, and  *)
(* is sent once, across attachments, drops and fresh sessions.              *)
THEOREM PendingIdsAreAlive == Spec => []PendingIsAlive
  <1>1. AppInv => PendingIsAlive
    BY DEF AppInv
  <1> QED
    BY <1>1, AppInvariant, PTL

(* The idle refresh attempts the balance once per window: it is armed for   *)
(* the whole window before it attempts, and is due only when unarmed.       *)
THEOREM RefreshOncePerWindow == Spec => []OneAttemptPerWindow
  <1>1. AppInv => OneAttemptPerWindow
    BY DEF AppInv, OneAttemptPerWindow
  <1> QED
    BY <1>1, AppInvariant, PTL
=============================================================================
