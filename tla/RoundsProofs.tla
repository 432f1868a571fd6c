----------------------------- MODULE RoundsProofs ----------------------------
(***************************************************************************)
(* Proofs about what a request tells the model, for every value of the     *)
(* constants: the harness reminders (Reminders) and the composition of the *)
(* request (Request).                                                      *)
(***************************************************************************)
EXTENDS Reminders, Request, TLAPS


-----------------------------------------------------------------------------
(* The reminders. *)

(* The latch remembers what was told, unless the state has gone since: the  *)
(* invariant behind "fires on an edge, and on every edge".                  *)
Memory ==
    /\ \A rule \in Rules :
         IF rule \in gone THEN latch[rule] = Nothing
         ELSE latch[rule] = told[rule] /\ told[rule] # Nothing

(* The latches start as the memory of what was told: nothing.               *)
LEMMA InitMemory == RemindersInit => Memory
  BY DEF RemindersInit, Memory

(* An evaluation, of any point at any counters, keeps the memory.           *)
LEMMA EvalMemory ==
    ASSUME Memory, NEW point \in SUBSET Rules, NEW t, NEW r, Eval(point, t, r)
    PROVE  /\ Memory'
           /\ \A rule \in said' : told'[rule] # told[rule] \/ rule \in gone
           /\ enabled => \A rule \in point :
                Sig(rule, t, r) # Nothing =>
                  told'[rule] = Sig(rule, t, r) /\ rule \notin gone'
  <1> USE DEF Memory, Eval, Fires, Relatch
  <1>1. Memory'
    OBVIOUS
  <1>2. \A rule \in said' : told'[rule] # told[rule] \/ rule \in gone
    OBVIOUS
  <1>3. enabled => \A rule \in point :
          Sig(rule, t, r) # Nothing =>
            told'[rule] = Sig(rule, t, r) /\ rule \notin gone'
    OBVIOUS
  <1> QED
    BY <1>1, <1>2, <1>3

(* A step evaluates the rules once, or clears a latch whose state has gone, *)
(* or leaves the memory alone.                                              *)
LEMMA MemoryStep == Memory /\ [RemindersNext]_reminders => Memory'
  <1> SUFFICES ASSUME Memory, [RemindersNext]_reminders PROVE Memory'
    OBVIOUS
  <1>1. CASE OpenTurn
    BY <1>1, EvalMemory DEF OpenTurn
  <1>2. CASE OpenRound
    BY <1>2, EvalMemory DEF OpenRound, Rules
  <1>4. CASE StartCancelled
    BY <1>4, EvalMemory DEF StartCancelled, Rules
  <1>3. CASE ~OpenTurn /\ ~OpenRound /\ ~StartCancelled
    <2>1. UNCHANGED memory
      BY <1>3 DEF RemindersNext, reminders, FinishRound, CloseTurn, Configure, StartJob, JobMoves
    <2> QED
      BY <2>1 DEF memory, Memory
  <1> QED
    BY <1>1, <1>2, <1>3, <1>4

(* The latch and the history agree in every reachable state.                *)
THEOREM MemoryHolds == RemindersSpec => []Memory
  BY InitMemory, MemoryStep, PTL DEF RemindersSpec

(* Nothing is told twice while it holds.                                    *)
THEOREM NeverChurns == RemindersSpec => NoChurn
  <1>1. ASSUME Memory, [RemindersNext]_reminders
        PROVE  [\A rule \in said' : told'[rule] # told[rule] \/ rule \in gone]_reminders
    <2>1. CASE OpenTurn
      BY <1>1, <2>1, EvalMemory DEF OpenTurn
    <2>2. CASE OpenRound
      BY <1>1, <2>2, EvalMemory DEF OpenRound, Rules
    <2>4. CASE StartCancelled
      BY <1>1, <2>4, EvalMemory DEF StartCancelled, Rules
    <2>3. CASE ~OpenTurn /\ ~OpenRound /\ ~StartCancelled
      BY <1>1, <2>3 DEF RemindersNext, FinishRound, CloseTurn, Configure, StartJob, JobMoves
    <2> QED
      BY <2>1, <2>2, <2>3, <2>4
  <1> QED
    BY <1>1, MemoryHolds, PTL DEF RemindersSpec, NoChurn

(* What is there at an evaluation has been told since it last went away.    *)
THEOREM AlwaysTold == RemindersSpec => StateIsTold
  <1> DEFINE Told == \A rule \in Rules :
               Evaluated(rule) /\ SigNow(rule) # Nothing =>
                 told'[rule] = SigNow(rule) /\ rule \notin gone'
  <1>1. ASSUME Memory, [RemindersNext]_reminders PROVE [Told]_reminders
    <2>1. CASE OpenTurn
      BY <1>1, <2>1, EvalMemory
         DEF OpenTurn, OpenRound, StartCancelled, SigNow, Evaluated
    <2>2. CASE OpenRound
      <3>1. ~OpenTurn /\ ~StartCancelled /\ stage # "rest"
        BY <2>2 DEF OpenRound, OpenTurn, StartCancelled
      <3>2. \A rule \in RoundRules : enabled /\ SigNow(rule) # Nothing =>
              told'[rule] = SigNow(rule) /\ rule \notin gone'
        BY <1>1, <2>2, <3>1, EvalMemory DEF OpenRound, SigNow, Rules
      <3> QED
        BY <3>1, <3>2 DEF Evaluated
    <2>3. CASE StartCancelled
      BY <1>1, <2>3, EvalMemory
         DEF OpenTurn, OpenRound, StartCancelled, SigNow, Evaluated, Rules
    <2>4. CASE ~OpenTurn /\ ~OpenRound /\ ~StartCancelled
      BY <2>4 DEF Evaluated
    <2> QED
      BY <2>1, <2>2, <2>3, <2>4
  <1> QED
    BY <1>1, MemoryHolds, PTL DEF RemindersSpec, StateIsTold

-----------------------------------------------------------------------------
(* The round budget and the output cuts. *)

(* The latch of the nudge names an earlier turn while rounds are left.      *)
Budget ==
    /\ turn \in Nat /\ round \in 0 .. Cap
    /\ stage # "rest" => round \in 1 .. Cap
    /\ latch["round-budget"] = Nothing
         \/ \E k \in 0 .. turn : latch["round-budget"] = <<k>>
    /\ stage # "rest" /\ enabled =>
         /\ nudges = IF round = Cap THEN 1 ELSE 0
         /\ round < Cap => latch["round-budget"] # <<turn>>

(* What an evaluation does to the nudge.                                    *)
LEMMA EvalBudget ==
    ASSUME NEW point \in SUBSET Rules, "round-budget" \in point,
           NEW t, NEW r, Eval(point, t, r), enabled
    PROVE  /\ latch'["round-budget"] = BudgetSig(t, r)
           /\ "round-budget" \in said'
                <=> BudgetSig(t, r) \notin {Nothing, latch["round-budget"]}
  <1>1. Sig("round-budget", t, r) = BudgetSig(t, r)
    BY DEF Sig
  <1>2. "round-budget" \in Rules
    BY DEF Rules, RoundRules
  <1> QED
    BY <1>1, <1>2 DEF Eval, Fires, Relatch

(* With reminders off, evaluation leaves every latch alone.                 *)
LEMMA EvalOff ==
    ASSUME NEW point, NEW t, NEW r, Eval(point, t, r), ~enabled
    PROVE  \A rule \in Rules : latch'[rule] = latch[rule]
  BY DEF Eval

(* Every step keeps the nudge to the last round of a turn.                  *)
LEMMA BudgetStep == Budget /\ [RemindersNext]_reminders => Budget'
  <1> SUFFICES ASSUME Budget, [RemindersNext]_reminders PROVE Budget'
    OBVIOUS
  <1> USE RemindersAssumption DEF Budget
  <1>0. "round-budget" \in Rules /\ "round-budget" \in RoundRules
        /\ RoundRules \in SUBSET Rules /\ Rules \in SUBSET Rules
    BY DEF Rules, RoundRules
  <1>1. CASE OpenTurn
    <2>1. /\ turn' = turn + 1 /\ enabled' = enabled
          /\ nudges' = IF "round-budget" \in said' THEN 1 ELSE 0
          /\ (stage' = "open" /\ round' = 1) \/ (stage' = "rest" /\ round' = 0)
          /\ Eval(Rules, turn + 1, 0)
      BY <1>1 DEF OpenTurn, ChatBegin
    <2>2. CASE enabled
      <3>1. /\ latch'["round-budget"] = BudgetSig(turn + 1, 0)
            /\ "round-budget" \in said'
                 <=> BudgetSig(turn + 1, 0) \notin {Nothing, latch["round-budget"]}
        BY <1>0, <2>1, <2>2, EvalBudget
      <3>2. BudgetSig(turn + 1, 0) = IF 1 < Cap THEN Nothing ELSE <<turn + 1>>
        BY DEF BudgetSig
      <3>3. <<turn + 1>> # Nothing /\ latch["round-budget"] # <<turn + 1>>
        <4>1. \A k \in 0 .. turn : k # turn + 1
          OBVIOUS
        <4>2. \A k \in 0 .. turn : <<k>> # <<turn + 1>>
          BY <4>1
        <4>3. <<turn + 1>> # <<>>
          OBVIOUS
        <4> QED
          BY <4>2, <4>3 DEF Nothing
      <3> QED
        BY <2>1, <3>1, <3>2, <3>3 DEF Nothing
    <2>3. CASE ~enabled
      <3>1. latch'["round-budget"] = latch["round-budget"]
        BY <1>0, <2>1, <2>3, EvalOff
      <3> QED
        BY <2>1, <2>3, <3>1
    <2> QED
      BY <2>2, <2>3
  <1>2. CASE OpenRound
    <2>1. /\ turn' = turn /\ enabled' = enabled /\ stage = "tools" /\ round < Cap
          /\ nudges' = IF "round-budget" \in said' THEN nudges + 1 ELSE nudges
          /\ \/ stage' = "open" /\ round' = round + 1
             \/ stage' = "rest" /\ round' = round
          /\ Eval(RoundRules, turn, round)
      BY <1>2 DEF OpenRound, ChatBegin
    <2>2. CASE enabled
      <3>1. /\ latch'["round-budget"] = BudgetSig(turn, round)
            /\ "round-budget" \in said'
                 <=> BudgetSig(turn, round) \notin {Nothing, latch["round-budget"]}
        BY <1>0, <2>1, <2>2, EvalBudget
      <3>2. BudgetSig(turn, round)
              = IF round + 1 < Cap THEN Nothing ELSE <<turn>>
        BY DEF BudgetSig
      <3>3. <<turn>> # Nothing /\ latch["round-budget"] # <<turn>> /\ nudges = 0
        BY <2>1, <2>2 DEF Nothing
      <3> QED
        BY <2>1, <2>2, <3>1, <3>2, <3>3 DEF Nothing
    <2>3. CASE ~enabled
      <3>1. latch'["round-budget"] = latch["round-budget"]
        BY <1>0, <2>1, <2>3, EvalOff
      <3> QED
        BY <2>1, <2>3, <3>1
    <2> QED
      BY <2>2, <2>3
  <1>7. CASE StartCancelled
    <2>1. latch'["round-budget"] = latch["round-budget"]
      BY <1>0, <1>7 DEF StartCancelled, Eval, TurnRules
    <2> QED
      BY <1>7, <2>1 DEF StartCancelled
  <1>3. CASE FinishRound
    BY <1>3 DEF FinishRound, memory
  <1>4. CASE CloseTurn
    BY <1>4 DEF CloseTurn, memory
  <1>5. CASE Configure
    BY <1>5 DEF Configure, memory
  <1>6. CASE StartJob \/ JobMoves \/ UNCHANGED reminders
    BY <1>6 DEF StartJob, JobMoves, memory, reminders
  <1> QED
    BY <1>1, <1>2, <1>3, <1>4, <1>5, <1>6, <1>7 DEF RemindersNext

(* The nudge belongs to the last round of every turn, whatever the cap and  *)
(* whatever earlier turns left latched.                                     *)
THEOREM NudgedOnce == RemindersSpec => []LastRoundNudged
  <1>1. RemindersInit => Budget
    BY RemindersAssumption DEF RemindersInit, Budget, Rules, RoundRules
  <1>2. Budget => LastRoundNudged
    BY DEF Budget, LastRoundNudged
  <1> QED
    BY <1>1, <1>2, BudgetStep, PTL DEF RemindersSpec

(* Every request of a conversation with reminders follows the news of every *)
(* cut before it.                                                           *)
THEOREM CutsTold == RemindersSpec => []CutTold
  <1> DEFINE Inv == cuts \in Nat /\ CutTold
  <1>1. RemindersInit => Inv
    BY DEF RemindersInit, CutTold
  <1>2. ASSUME Memory, Inv, [RemindersNext]_reminders PROVE Inv'
    <2>0. /\ "output-cut" \in Rules /\ "output-cut" \in RoundRules
          /\ RoundRules \in SUBSET Rules /\ Rules \in SUBSET Rules
      BY DEF Rules, RoundRules
    <2>1. \A t, r : Sig("output-cut", t, r) = CutSig
      BY DEF Sig
    <2>2. CASE OpenTurn \/ OpenRound
      <3>1. cuts' = cuts /\ enabled' = enabled
        BY <2>2 DEF OpenTurn, OpenRound
      <3>2. enabled /\ CutSig # Nothing => told'["output-cut"] = CutSig
        <4>1. CASE OpenTurn
          BY <1>2, <2>0, <2>1, <4>1, EvalMemory DEF OpenTurn
        <4>2. CASE OpenRound
          BY <1>2, <2>0, <2>1, <4>2, EvalMemory DEF OpenRound
        <4> QED
          BY <2>2, <4>1, <4>2
      <3>3. cuts > 0 => CutSig = <<cuts>> /\ CutSig # Nothing
        BY <1>2 DEF CutSig, Nothing
      <3> QED
        BY <1>2, <3>1, <3>2, <3>3 DEF CutTold
    <2>6. CASE StartCancelled
      BY <1>2, <2>6 DEF StartCancelled, CutTold
    <2>3. CASE FinishRound
      BY <1>2, <2>3 DEF FinishRound, CutTold
    <2>4. CASE CloseTurn \/ Configure
      BY <1>2, <2>4 DEF CloseTurn, Configure, CutTold
    <2>5. CASE StartJob \/ JobMoves \/ UNCHANGED reminders
      BY <1>2, <2>5 DEF StartJob, JobMoves, memory, reminders, CutTold
    <2> QED
      BY <1>2, <2>2, <2>3, <2>4, <2>5, <2>6 DEF RemindersNext
  <1>3. Inv => CutTold
    OBVIOUS
  <1> HIDE DEF Inv
  <1> QED
    BY <1>1, <1>2, <1>3, MemoryHolds, PTL DEF RemindersSpec

(* Both rules of the round, together.                                       *)
THEOREM RoundRulesSafe == RemindersSpec => []RoundRulesTold
  <1>1. LastRoundNudged /\ CutTold => RoundRulesTold
    BY DEF RoundRulesTold
  <1> QED
    BY <1>1, NudgedOnce, CutsTold, PTL

(* EdgesTold: reminders fire on every edge of their state and on no other   *)
(* occasion.                                                                *)
THEOREM EdgesSafe == RemindersSpec => EdgesTold
  BY AlwaysTold, NeverChurns DEF EdgesTold



-----------------------------------------------------------------------------
(* The request. *)

(* What every composed request has in common: the image count n and the     *)
(* clause c of the prompt it was built with.                                *)
Composes(c, n) ==
    /\ n \in images .. MaxImages /\ images' = n
    /\ c \in {clause, ClauseAtStart} /\ (c # clause => pending) /\ clause' = c
    /\ Compose(c, n)
    /\ UNCHANGED <<model, replies, live, echo, sig, moved>>

(* A step that composes nothing leaves what earlier requests left.          *)
Quiet ==
    UNCHANGED <<first, seq, echoFrozen, sigFrozen, last, age, rides,
                lastTo>>

(* A step composes one request, or leaves what earlier requests left.       *)
LEMMA ComposeOrQuiet ==
    ASSUME TypeOK, [Next]_vars
    PROVE  Quiet \/ \E c, n : Composes(c, n)
  <1> USE DEF Quiet, latches, history
  <1>0. images \in 0 .. MaxImages /\ MaxImages \in Nat
    BY ConstantsAssumption DEF TypeOK
  <1>1. CASE StartTurn
    <2>1. CASE Compose(clause', images')
      <3>1. Composes(clause', images')
        BY <1>0, <1>1, <2>1 DEF StartTurn, Composes, ClauseAtStart, keys
      <3> QED
        BY <3>1
    <2>2. CASE ~Compose(clause', images')
      BY <1>1, <2>2 DEF StartTurn
    <2> QED
      BY <2>1, <2>2
  <1>2. CASE EnvFinish
    <2>1. Composes(clause, images)
      BY <1>0, <1>2 DEF EnvFinish, Composes, keys
    <2> QED
      BY <2>1
  <1>3. CASE NextRound
    <2>1. Composes(clause, images')
      BY <1>0, <1>3 DEF NextRound, Composes, keys
    <2> QED
      BY <2>1
  <1>4. CASE Reply \/ EndTurn
    BY <1>4 DEF Reply, EndTurn
  <1>5. CASE (\E m \in Models : SetModel(m)) \/ SetKeys \/ Warm \/ UNCHANGED vars
    BY <1>5 DEF SetModel, SetKeys, Warm, vars
  <1> QED
    BY <1>1, <1>2, <1>3, <1>4, <1>5 DEF Next

-----------------------------------------------------------------------------
(* Types *)

(* The types hold when the session starts.                                  *)
LEMMA InitType == Init => TypeOK
  <1> SUFFICES ASSUME Init PROVE TypeOK
    OBVIOUS
  <1>1. pending \in BOOLEAN /\ warm \in BOOLEAN /\ switched \in BOOLEAN
        /\ moved \in BOOLEAN
    BY Zenon DEF Init
  <1>2. clause \in BOOLEAN
    BY DEF Init, Claim
  <1>3. replies \in Seq(Replies) /\ images \in 0 .. MaxImages
    BY ConstantsAssumption DEF Init
  <1>4. seq \in Nat /\ first \in [Ids -> 0 .. seq] /\ age \in [Ids -> Nat]
        /\ rides \in [Ids -> Nat]
    BY DEF Init
  <1>5. lastTo \in [Models -> {"none", "clause", "bare"}]
    BY DEF Init
  <1> QED
    BY <1>1, <1>2, <1>3, <1>4, <1>5 DEF Init, TypeOK

(* Composing a request keeps the types.                                     *)
LEMMA ComposeType ==
    ASSUME TypeOK, NEW c \in BOOLEAN, NEW n \in images .. MaxImages,
           Compose(c, n)
    PROVE  /\ phase' \in {"open", "rest"} /\ pending' \in BOOLEAN
           /\ seq' \in Nat /\ first' \in [Ids -> 0 .. seq']
           /\ age' \in [Ids -> Nat] /\ rides' \in [Ids -> Nat]
           /\ echoFrozen' \in Modes \cup {"no"} /\ sigFrozen' \in Modes \cup {"no"}
           /\ lastTo' \in [Models -> {"none", "clause", "bare"}]
           /\ switched' \in BOOLEAN
  <1> USE DEF TypeOK
  <1>1. seq' = seq + 1 /\ Stamp(n, seq + 1) /\ pending' = FALSE
        /\ phase' \in {"open", "rest"}
    BY DEF Compose
  <1>2. seq' \in Nat
    BY <1>1
  <1>3. first' \in [Ids -> 0 .. seq']
    BY <1>1 DEF Stamp
  <1>4. age' = [k \in Ids |-> IF k <= n THEN age[k] + 1 ELSE 0]
    BY DEF Compose
  <1>5. age' \in [Ids -> Nat]
    BY <1>4
  <1>6. PICK rode : rides' = [k \in Ids |-> IF k \in rode THEN rides[k] + 1
                                            ELSE rides[k]]
    BY DEF Compose
  <1>7. rides' \in [Ids -> Nat]
    BY <1>6
  <1>8. Freeze(Fields) \/ UNCHANGED latches
    BY DEF Compose
  <1>9. echoFrozen' \in Modes \cup {"no"} /\ sigFrozen' \in Modes \cup {"no"}
    BY <1>8 DEF Freeze, latches, EchoMode, SigMode
  <1>10. lastTo' \in {lastTo, [lastTo EXCEPT ![model] = "clause"],
                      [lastTo EXCEPT ![model] = "bare"]}
    BY DEF Compose
  <1>11. lastTo' \in [Models -> {"none", "clause", "bare"}]
    BY <1>10
  <1>12. switched' = FALSE \/ switched' = switched
    BY DEF Compose
  <1>13. switched' \in BOOLEAN
    BY <1>12, Zenon
  <1>14. pending' \in BOOLEAN
    BY <1>1, Zenon
  <1> QED
    BY <1>1, <1>2, <1>3, <1>5, <1>7, <1>9, <1>11, <1>13, <1>14

(* What a model is claimed to see is a Boolean.                             *)
LEMMA ClauseBoolean ==
    ASSUME TypeOK
    PROVE  /\ ClauseAtStart \in BOOLEAN
           /\ \A m \in Models : Claim(m) \in BOOLEAN
  BY DEF TypeOK, ClauseAtStart, Claim

(* Every step of a request keeps the types.                                 *)
LEMMA TypeStep == TypeOK /\ [Next]_vars => TypeOK'
  <1> SUFFICES ASSUME TypeOK, [Next]_vars PROVE TypeOK'
    OBVIOUS
  <1> USE DEF prompt, catalog, keys, latches, history
  <1>0. MaxImages \in Nat
    BY ConstantsAssumption
  <1>1. CASE StartTurn
    <2>1. clause' \in BOOLEAN /\ images' \in images .. MaxImages
          /\ images' \in 0 .. MaxImages
      BY <1>0, <1>1, ClauseBoolean DEF StartTurn, TypeOK
    <2>2. CASE Compose(clause', images')
      BY <1>1, <2>1, <2>2, ComposeType DEF StartTurn, TypeOK
    <2>3. CASE ~Compose(clause', images')
      BY <1>1, <2>1, <2>3 DEF StartTurn, TypeOK
    <2> QED
      BY <2>2, <2>3
  <1>2. CASE EnvFinish
    <2>1. clause \in BOOLEAN /\ images \in images .. MaxImages
      BY <1>0 DEF TypeOK
    <2> QED
      BY <1>2, <2>1, ComposeType DEF EnvFinish, TypeOK
  <1>3. CASE Reply
    <2>1. PICK r \in Replies : replies' = Append(replies, r)
                               /\ phase' \in {"tools", "rest"}
      BY <1>3 DEF Reply
    <2>2. replies' \in Seq(Replies)
      BY <2>1 DEF TypeOK
    <2>3. images' \in 0 .. MaxImages
      BY <1>0, <1>3 DEF Reply, TypeOK
    <2> QED
      BY <1>3, <2>1, <2>2, <2>3 DEF Reply, TypeOK
  <1>4. CASE NextRound
    <2>1. clause \in BOOLEAN /\ images' \in images .. MaxImages
          /\ images' \in 0 .. MaxImages
      BY <1>0, <1>4 DEF NextRound, TypeOK
    <2> QED
      BY <1>4, <2>1, ComposeType DEF NextRound, TypeOK
  <1>5. CASE EndTurn
    BY <1>5 DEF EndTurn, TypeOK
  <1>6. ASSUME NEW m \in Models, SetModel(m) PROVE TypeOK'
    <2>1. pending' \in BOOLEAN /\ switched' \in BOOLEAN
      BY <1>6, Zenon DEF SetModel
    <2>2. clause' \in BOOLEAN
      BY <1>6, ClauseBoolean DEF SetModel
    <2> QED
      BY <1>6, <2>1, <2>2 DEF SetModel, TypeOK
  <1>7. CASE SetKeys
    <2>1. moved' \in BOOLEAN
      BY <1>7, Zenon DEF SetKeys
    <2> QED
      BY <1>7, <2>1 DEF SetKeys, TypeOK
  <1>8. CASE Warm
    <2>1. warm' \in BOOLEAN
      BY <1>8, Zenon DEF Warm
    <2> QED
      BY <1>8, <2>1 DEF Warm, TypeOK
  <1>9. CASE UNCHANGED vars
    BY <1>9 DEF vars, TypeOK
  <1> QED
    BY <1>1, <1>2, <1>3, <1>4, <1>5, <1>6, <1>7, <1>8, <1>9 DEF Next

(* Every reachable state has its type.                                      *)
THEOREM TypeCorrect == Spec => []TypeOK
  BY InitType, TypeStep, PTL DEF Spec

-----------------------------------------------------------------------------
(* The images *)

(* The age of an image and the stamp on it measure the same thing.          *)
ImagesAge ==
    \A k \in Ids :
       /\ first[k] = 0 <=> age[k] = 0
       /\ k > images => first[k] = 0
       /\ first[k] # 0 => age[k] = seq - first[k] + 1

(* What composing a request does to the stamp, the age and the rides of one *)
(* image.                                                                   *)
LEMMA ComposeImage ==
    ASSUME TypeOK, NEW c, NEW n \in images .. MaxImages, Compose(c, n),
           NEW k \in Ids, ImagesAge
    PROVE  /\ first'[k] = IF k <= n /\ first[k] = 0 THEN seq + 1 ELSE first[k]
           /\ age'[k] = IF k <= n THEN age[k] + 1 ELSE 0
           /\ rides'[k] = IF k <= n /\ (live = 0 \/ age[k] < live)
                          THEN rides[k] + 1 ELSE rides[k]
  <1> USE DEF TypeOK, Ids
  <1>1. first'[k] = IF k \in 1 .. n /\ first[k] = 0 THEN seq + 1 ELSE first[k]
    BY DEF Compose, Stamp
  <1>2. age'[k] = IF k <= n THEN age[k] + 1 ELSE 0
    BY DEF Compose
  <1>3. k \in 1 .. n => (Live(k, seq + 1) <=> live = 0 \/ age[k] < live)
    <2>1. live \in Nat /\ seq \in Nat /\ first[k] \in Nat /\ age[k] \in Nat
      BY ConstantsAssumption
    <2>2. CASE first[k] = 0
      BY <2>1, <2>2 DEF Live, ImagesAge
    <2>3. CASE first[k] # 0
      <3>1. seq + 1 - first[k] = age[k]
        BY <2>1, <2>3 DEF ImagesAge
      <3> QED
        BY <2>3, <3>1 DEF Live
    <2> QED
      BY <2>2, <2>3
  <1>4. rides'[k] = IF k \in 1 .. n /\ Live(k, seq + 1) THEN rides[k] + 1
                    ELSE rides[k]
    <2> DEFINE rode == {j \in 1 .. n : Parts(n, seq + 1)[j] = "image"}
    <2>1. rides' = [j \in Ids |-> IF j \in rode THEN rides[j] + 1 ELSE rides[j]]
      BY DEF Compose
    <2>2. k \in rode <=> k \in 1 .. n /\ Live(k, seq + 1)
      BY DEF Parts
    <2> HIDE DEF rode
    <2> QED
      BY <2>1, <2>2
  <1>5. n \in Nat /\ k \in Nat /\ k >= 1
    BY ConstantsAssumption
  <1> QED
    BY <1>1, <1>2, <1>3, <1>4, <1>5

(* Images are never taken from a transcript.                                *)
LEMMA ImagesGrow ==
    ASSUME TypeOK, [Next]_vars
    PROVE  images <= images' /\ images' \in Nat /\ images \in Nat
  <1>1. images \in Nat
    BY ConstantsAssumption DEF TypeOK
  <1>2. images' \in {images, images + 1}
    BY DEF Next, StartTurn, EnvFinish, Reply, NextRound, EndTurn, SetModel,
           SetKeys, Warm, vars
  <1> QED
    BY <1>1, <1>2

(* While image_live has not been set again it is what it was.               *)
LEMMA WindowKeyKept ==
    ASSUME [Next]_vars
    PROVE  ~moved' => ~moved /\ live' = live
  <1>1. CASE SetKeys
    BY <1>1, Zenon DEF SetKeys
  <1>2. CASE ~SetKeys
    BY <1>2 DEF Next, StartTurn, EnvFinish, Reply, NextRound, EndTurn, SetModel,
                Warm, vars, keys
  <1> QED
    BY <1>1, <1>2

(* The inductive invariant of the image window.                             *)
ImageInv == ImagesAge /\ WindowExact

(* Every step keeps stamp and age in agreement and the window exact.        *)
LEMMA ImageStep == TypeOK /\ ImageInv /\ [Next]_vars => ImageInv'
  <1> SUFFICES ASSUME TypeOK, ImageInv, [Next]_vars PROVE ImageInv'
    OBVIOUS
  <1> USE DEF ImageInv
  <1>1. ASSUME NEW c, NEW n, Composes(c, n) PROVE ImageInv'
    <2>1. n \in images .. MaxImages /\ Compose(c, n) /\ images' = n
          /\ live' = live /\ moved' = moved /\ seq' = seq + 1
      BY <1>1 DEF Composes, Compose
    <2>2. ASSUME NEW k \in Ids
          PROVE  /\ first'[k] = 0 <=> age'[k] = 0
                 /\ k > images' => first'[k] = 0
                 /\ first'[k] # 0 => age'[k] = seq' - first'[k] + 1
                 /\ ~moved => rides'[k] = IF live = 0 \/ age'[k] < live
                                         THEN age'[k] ELSE live
      <3>1. /\ first'[k] = IF k <= n /\ first[k] = 0 THEN seq + 1 ELSE first[k]
            /\ age'[k] = IF k <= n THEN age[k] + 1 ELSE 0
            /\ rides'[k] = IF k <= n /\ (live = 0 \/ age[k] < live)
                           THEN rides[k] + 1 ELSE rides[k]
        BY <2>1, ComposeImage
      <3>2. /\ live \in Nat /\ seq \in Nat /\ first[k] \in Nat /\ age[k] \in Nat
            /\ rides[k] \in Nat /\ k \in Nat /\ n \in Nat /\ images \in Nat
            /\ images <= n
        BY <2>1, ConstantsAssumption DEF TypeOK, Ids
      <3>3. /\ first[k] = 0 <=> age[k] = 0
            /\ k > images => first[k] = 0
            /\ first[k] # 0 => age[k] = seq - first[k] + 1
            /\ ~moved => rides[k] = IF live = 0 \/ age[k] < live
                                   THEN age[k] ELSE live
        BY DEF ImagesAge, WindowExact
      <3>4. CASE k <= n
        BY <2>1, <3>1, <3>2, <3>3, <3>4
      <3>5. CASE ~(k <= n)
        BY <2>1, <3>1, <3>2, <3>3, <3>5
      <3> QED
        BY <3>4, <3>5
    <2> QED
      BY <2>1, <2>2 DEF ImagesAge, WindowExact
  <1>2. CASE Quiet
    <2>1. images <= images' /\ images' \in Nat /\ images \in Nat
      BY ImagesGrow
    <2>3. ~moved' => ~moved /\ live' = live
      BY WindowKeyKept
    <2>4. ImagesAge'
      BY <1>2, <2>1 DEF Quiet, ImagesAge, Ids
    <2>5. WindowExact'
      BY <1>2, <2>3 DEF Quiet, WindowExact
    <2> QED
      BY <2>4, <2>5
  <1> QED
    BY <1>1, <1>2, ComposeOrQuiet

(* An image rides exactly as many requests as the key says, for every       *)
(* window and however many requests the transport refused.                  *)
THEOREM WindowSafe == Spec => []WindowExact
  <1>1. Init => ImageInv
    BY ConstantsAssumption DEF Init, ImageInv, ImagesAge, WindowExact, Ids
  <1>2. ImageInv => WindowExact
    BY DEF ImageInv
  <1> QED
    BY <1>1, <1>2, ImageStep, TypeCorrect, PTL DEF Spec

-----------------------------------------------------------------------------
(* The echoes *)

(* An accepted request is the one just composed.                            *)
LEMMA AcceptedRequest ==
    ASSUME TypeOK, [Next]_vars, Accepts
    PROVE  \E c, n : /\ Composes(c, n) /\ Freeze(Fields)
                     /\ last' = [fields |-> Fields, parts |-> Parts(n, seq + 1),
                                 live |-> live]
                     /\ lastTo' = [lastTo EXCEPT ![model] =
                                     IF c THEN "clause" ELSE "bare"]
  <1>1. ~Quiet
    BY DEF Accepts, Quiet
  <1>2. PICK c, n : Composes(c, n)
    BY <1>1, ComposeOrQuiet
  <1> QED
    BY <1>2 DEF Composes, Compose, Accepts

(* A refused request leaves the last accepted one and the latches.          *)
LEMMA NotAccepted ==
    ASSUME TypeOK, [Next]_vars, ~Accepts
    PROVE  UNCHANGED <<last, echoFrozen, sigFrozen, lastTo>>
  <1>1. CASE Quiet
    BY <1>1 DEF Quiet
  <1>2. ASSUME NEW c, NEW n, Composes(c, n)
        PROVE  UNCHANGED <<last, echoFrozen, sigFrozen, lastTo>>
    <2>1. seq' # seq
      BY <1>2 DEF Composes, Compose, TypeOK
    <2> QED
      BY <1>2, <2>1 DEF Composes, Compose, Accepts, latches
  <1> QED
    BY <1>1, <1>2, ComposeOrQuiet

(* A reply, once in the transcript, stays as it is.                         *)
LEMMA RepliesGrow ==
    ASSUME TypeOK, [Next]_vars
    PROVE  \A i \in 1 .. Len(replies) :
              i \in 1 .. Len(replies') /\ replies'[i] = replies[i]
  <1>1. CASE Reply
    <2>1. PICK r \in Replies : replies' = Append(replies, r)
      BY <1>1 DEF Reply
    <2> QED
      BY <2>1 DEF TypeOK
  <1>2. CASE ~Reply
    BY <1>2 DEF Next, StartTurn, EnvFinish, NextRound, EndTurn, SetModel, SetKeys,
                Warm, vars
  <1> QED
    BY <1>1, <1>2

(* The latched mode explains every field the last request carried, once one *)
(* carried any.                                                             *)
EchoInv ==
    /\ \A i \in DOMAIN last.fields : i \in 1 .. Len(replies)
    /\ Echoed(last.fields) =>
         /\ echoFrozen # "no"
         /\ \A i \in DOMAIN last.fields :
              last.fields[i].trace = Trace(replies[i], echoFrozen)
    /\ Signed(last.fields) =>
         /\ sigFrozen # "no"
         /\ \A i \in DOMAIN last.fields :
              last.fields[i].details = Details(replies[i], sigFrozen)

(* The two latches move only with a request that carries no fields yet.     *)
LEMMA EchoStep == TypeOK /\ EchoInv /\ [Next]_vars => EchoInv'
  <1> SUFFICES ASSUME TypeOK, EchoInv, [Next]_vars PROVE EchoInv'
    OBVIOUS
  <1>1. CASE Accepts
    <2>1. /\ Freeze(Fields) /\ last'.fields = Fields /\ replies' = replies
      BY <1>1, AcceptedRequest DEF Composes
    <2>2. EchoMode # "no" /\ SigMode # "no"
      BY ConstantsAssumption DEF TypeOK, EchoMode, SigMode
    <2>3. /\ Echoed(Fields) => echoFrozen' = EchoMode
          /\ Signed(Fields) => sigFrozen' = SigMode
      BY <2>1 DEF Freeze
    <2>4. DOMAIN Fields = 1 .. Len(replies)
      BY DEF Fields
    <2>5. \A i \in 1 .. Len(replies) :
             /\ Fields[i].trace = Trace(replies[i], EchoMode)
             /\ Fields[i].details = Details(replies[i], SigMode)
      BY DEF Fields
    <2>6. Echoed(last'.fields) => echoFrozen' # "no"
            /\ \A i \in DOMAIN last'.fields :
                 last'.fields[i].trace = Trace(replies'[i], echoFrozen')
      BY <2>1, <2>2, <2>3, <2>4, <2>5
    <2>7. Signed(last'.fields) => sigFrozen' # "no"
            /\ \A i \in DOMAIN last'.fields :
                 last'.fields[i].details = Details(replies'[i], sigFrozen')
      BY <2>1, <2>2, <2>3, <2>4, <2>5
    <2>8. Echoed(last.fields)' <=> Echoed(last'.fields)
      BY DEF Echoed
    <2>9. Signed(last.fields)' <=> Signed(last'.fields)
      BY DEF Signed
    <2> QED
      BY <2>1, <2>4, <2>6, <2>7, <2>8, <2>9 DEF EchoInv, Trace, Details
  <1>2. CASE ~Accepts
    <2>1. last' = last /\ echoFrozen' = echoFrozen /\ sigFrozen' = sigFrozen
      BY <1>2, NotAccepted
    <2>2. \A i \in DOMAIN last.fields :
             i \in 1 .. Len(replies') /\ replies'[i] = replies[i]
      BY RepliesGrow DEF EchoInv
    <2> QED
      BY <2>1, <2>2 DEF EchoInv, Echoed, Signed, Trace, Details
  <1> QED
    BY <1>1, <1>2

(* The latched modes explain the fields on the wire in every state.         *)
LEMMA EchoHolds == Spec => []EchoInv
  <1>1. Init => EchoInv
    BY DEF Init, EchoInv, NoRequest, Echoed, Signed
  <1> QED
    BY <1>1, EchoStep, TypeCorrect, PTL DEF Spec

(* Neither field ever changes in what a request has carried: for every set  *)
(* of models, replies and modes, and every change of the keys.              *)
THEOREM EchoSafe == Spec => EchoKept
  <1> DEFINE Echo == Echoed(last.fields) => \A i \in DOMAIN last.fields :
                       last'.fields[i].trace = last.fields[i].trace
             Sign == Signed(last.fields) => \A i \in DOMAIN last.fields :
                       last'.fields[i].details = last.fields[i].details
  <1>1. ASSUME TypeOK, EchoInv, [Next]_vars PROVE Accepts => Echo /\ Sign
    <2> SUFFICES ASSUME Accepts PROVE Echo /\ Sign
      OBVIOUS
    <2>1. last'.fields = Fields
      BY <1>1, AcceptedRequest
    <2>2. \A i \in 1 .. Len(replies) :
             /\ Fields[i].trace = Trace(replies[i], EchoMode)
             /\ Fields[i].details = Details(replies[i], SigMode)
      BY DEF Fields
    <2>3. Echoed(last.fields) => EchoMode = echoFrozen
      BY <1>1 DEF EchoInv, EchoMode
    <2>4. Signed(last.fields) => SigMode = sigFrozen
      BY <1>1 DEF EchoInv, SigMode
    <2>5. \A i \in DOMAIN last.fields : i \in 1 .. Len(replies)
      BY <1>1 DEF EchoInv
    <2>6. Echo
      BY <1>1, <2>1, <2>2, <2>3, <2>5 DEF EchoInv
    <2>7. Sign
      BY <1>1, <2>1, <2>2, <2>4, <2>5 DEF EchoInv
    <2> QED
      BY <2>6, <2>7
  <1> QED
    BY <1>1, EchoHolds, TypeCorrect, PTL DEF Spec, EchoKept

-----------------------------------------------------------------------------
(* The clause *)

(* The clause is true of the active model; the gate is shut once the model  *)
(* has had a request, and the prompt is the one that request carried.       *)
ClauseInv ==
    /\ clause => model \in VisionModels
    /\ ClauseHonest
    /\ ~switched /\ lastTo[model] # "none" =>
         ~pending /\ lastTo[model] = IF clause THEN "clause" ELSE "bare"

(* The prompt claims vision only for a model the catalog lists with it.     *)
LEMMA ClaimHonest == ASSUME NEW m, Claim(m) PROVE m \in VisionModels
  BY DEF Claim

(* No step makes the clause untrue, or opens the gate once the active model *)
(* has had a request.                                                       *)
LEMMA ClauseStep == TypeOK /\ ClauseInv /\ [Next]_vars => ClauseInv'
  <1> SUFFICES ASSUME TypeOK, ClauseInv, [Next]_vars PROVE ClauseInv'
    OBVIOUS
  <1>1. ASSUME NEW c, NEW n, Composes(c, n) PROVE ClauseInv'
    <2>1. clause' = c /\ model' = model /\ pending' = FALSE
          /\ (c # clause => pending /\ c = Claim(model))
      BY <1>1 DEF Composes, Compose, ClauseAtStart
    <2>2. c => model \in VisionModels
      BY <2>1, ClaimHonest DEF ClauseInv
    <2>3. CASE Accepts
      <3>1. lastTo' = [lastTo EXCEPT ![model] = IF c THEN "clause" ELSE "bare"]
        <4>1. seq' # seq /\ phase' = "open"
          BY <2>3 DEF Accepts
        <4> QED
          BY <1>1, <4>1 DEF Composes, Compose
      <3>2. model \in Models /\ lastTo \in [Models -> {"none", "clause", "bare"}]
        BY DEF TypeOK
      <3>3. lastTo'[model] = IF c THEN "clause" ELSE "bare"
        BY <3>1, <3>2
      <3>4. \A m \in Models : lastTo'[m] = "clause" => m \in VisionModels
        BY <2>2, <3>1, <3>2 DEF ClauseInv, ClauseHonest
      <3> QED
        BY <2>1, <2>2, <3>3, <3>4 DEF ClauseInv, ClauseHonest
    <2>4. CASE ~Accepts
      <3>1. lastTo' = lastTo /\ switched' = switched
        <4>1. seq' # seq
          BY <1>1 DEF Composes, Compose, TypeOK
        <4> QED
          BY <1>1, <2>4, <4>1 DEF Composes, Compose, Accepts
      <3> QED
        BY <2>1, <2>2, <3>1 DEF ClauseInv, ClauseHonest
    <2> QED
      BY <2>3, <2>4
  <1>2. CASE Quiet
    <2>1. CASE \E m \in Models : SetModel(m)
      BY <1>2, <2>1, ClaimHonest DEF SetModel, Quiet, ClauseInv, ClauseHonest
    <2>2. CASE StartTurn
      <3>1. clause' \in {clause, ClauseAtStart} /\ (clause' # clause => pending)
        BY <2>2 DEF StartTurn, ClauseAtStart
      <3>2. model' = model /\ lastTo' = lastTo
        BY <1>2, <2>2 DEF StartTurn, Quiet
      <3>3. pending' = pending /\ switched' = switched
        <4>1. seq' = seq
          BY <1>2 DEF Quiet
        <4> QED
          BY <2>2, <4>1 DEF StartTurn, Compose, TypeOK
      <3>4. clause' => model \in VisionModels
        BY <3>1, ClaimHonest DEF ClauseInv, ClauseAtStart
      <3> QED
        BY <3>1, <3>2, <3>3, <3>4 DEF ClauseInv, ClauseHonest
    <2>3. CASE EnvFinish \/ NextRound
      <3>1. seq' = seq
        BY <1>2 DEF Quiet
      <3> QED
        BY <2>3, <3>1 DEF EnvFinish, NextRound, Compose, TypeOK
    <2>4. CASE Reply \/ EndTurn \/ SetKeys \/ Warm \/ UNCHANGED vars
      BY <2>4 DEF Reply, EndTurn, SetKeys, Warm, vars, prompt, history, ClauseInv,
                  ClauseHonest
    <2> QED
      BY <2>1, <2>2, <2>3, <2>4 DEF Next
  <1> QED
    BY <1>1, <1>2, ComposeOrQuiet

(* The clause is true of the active model in every state.                   *)
LEMMA ClauseHolds == Spec => []ClauseInv
  <1>1. Init => ClauseInv
    BY ClaimHonest DEF Init, ClauseInv, ClauseHonest
  <1> QED
    BY <1>1, ClauseStep, TypeCorrect, PTL DEF Spec

(* The clause is never false.                                               *)
THEOREM ClauseTrue == Spec => []ClauseHonest
  <1>1. ClauseInv => ClauseHonest
    BY DEF ClauseInv
  <1> QED
    BY <1>1, ClauseHolds, PTL

(* The clause never moves between two requests to a model that stayed.      *)
THEOREM ClauseSafe == Spec => ClauseKept
  <1> DEFINE Kept == Accepts /\ ~switched /\ lastTo[model] # "none" =>
                       lastTo'[model] = lastTo[model]
  <1>1. ASSUME TypeOK, ClauseInv, [Next]_vars PROVE Kept
    <2> SUFFICES ASSUME Accepts, ~switched, lastTo[model] # "none"
                 PROVE  lastTo'[model] = lastTo[model]
      OBVIOUS
    <2>1. PICK c, n :
             /\ Composes(c, n)
             /\ lastTo' = [lastTo EXCEPT ![model] = IF c THEN "clause" ELSE "bare"]
      BY <1>1, AcceptedRequest
    <2>2. ~pending /\ lastTo[model] = IF clause THEN "clause" ELSE "bare"
      BY <1>1 DEF ClauseInv
    <2>3. c = clause
      BY <2>1, <2>2 DEF Composes
    <2>4. lastTo'[model] = IF c THEN "clause" ELSE "bare"
      BY <1>1, <2>1 DEF TypeOK
    <2> QED
      BY <2>2, <2>3, <2>4
  <1> QED
    BY <1>1, ClauseHolds, TypeCorrect, PTL DEF Spec, ClauseKept

-----------------------------------------------------------------------------
(* The markers *)

(* A marker stands for an image that had aged when it was put there.        *)
MarkerInv ==
    \A k \in DOMAIN last.parts :
       /\ k \in 1 .. images
       /\ last.parts[k] = "marker" =>
            first[k] # 0 /\ last.live \in Nat /\ last.live <= seq - first[k]

(* An image is stamped once, and requests are counted upward.               *)
LEMMA StampOnce ==
    ASSUME TypeOK, [Next]_vars
    PROVE  /\ seq' >= seq /\ seq' \in Nat /\ seq \in Nat
           /\ \A k \in Ids : first[k] # 0 => first'[k] = first[k]
  <1>1. CASE Quiet
    BY <1>1 DEF Quiet, TypeOK
  <1>2. ASSUME NEW c, NEW n, Composes(c, n)
        PROVE  /\ seq' >= seq /\ seq' \in Nat /\ seq \in Nat
               /\ \A k \in Ids : first[k] # 0 => first'[k] = first[k]
    BY <1>2 DEF Composes, Compose, Stamp, TypeOK
  <1> QED
    BY <1>1, <1>2, ComposeOrQuiet

(* Every step keeps a marker to an image that has aged.                     *)
LEMMA MarkerStep == TypeOK /\ MarkerInv /\ [Next]_vars => MarkerInv'
  <1> SUFFICES ASSUME TypeOK, MarkerInv, [Next]_vars PROVE MarkerInv'
    OBVIOUS
  <1>0. /\ images \in Nat /\ images <= MaxImages /\ MaxImages \in Nat
        /\ images <= images' /\ images' \in Nat /\ live \in Nat
        /\ \A k \in Ids : first[k] \in Nat
    BY ImagesGrow, ConstantsAssumption DEF TypeOK
  <1>1. CASE Accepts
    <2>1. PICK c, n : /\ Composes(c, n)
                      /\ last'.parts = Parts(n, seq + 1) /\ last'.live = live
      BY <1>1, AcceptedRequest
    <2>2. n \in images .. MaxImages /\ images' = n /\ seq' = seq + 1
      BY <2>1 DEF Composes, Compose
    <2>3. ASSUME NEW k \in 1 .. n, ~Live(k, seq + 1)
          PROVE  first'[k] # 0 /\ live <= seq' - first'[k]
      <3>0. k \in Ids
        BY <1>0, <2>2 DEF Ids
      <3>1. k \in Ids /\ first[k] # 0 /\ ~(seq + 1 - first[k] < live)
        BY <1>0, <2>3, <3>0, StampOnce DEF Live
      <3>2. first'[k] = first[k]
        BY <3>1, StampOnce
      <3> QED
        BY <1>0, <2>2, <3>1, <3>2, StampOnce
    <2>4. DOMAIN Parts(n, seq + 1) = 1 .. n
          /\ \A k \in 1 .. n :
               Parts(n, seq + 1)[k] = "marker" => ~Live(k, seq + 1)
      BY DEF Parts
    <2> QED
      BY <1>0, <2>1, <2>2, <2>3, <2>4 DEF MarkerInv
  <1>2. CASE ~Accepts
    <2>1. last' = last
      BY <1>2, NotAccepted
    <2>2. ASSUME NEW k \in DOMAIN last.parts
          PROVE  /\ k \in 1 .. images'
                 /\ last.parts[k] = "marker" =>
                      first'[k] # 0 /\ last.live \in Nat
                      /\ last.live <= seq' - first'[k]
      <3>1. k \in 1 .. images /\ k \in 1 .. images' /\ k \in Ids
        BY <1>0 DEF MarkerInv, Ids
      <3>2. last.parts[k] = "marker" =>
              first[k] # 0 /\ last.live \in Nat /\ last.live <= seq - first[k]
        BY DEF MarkerInv
      <3> QED
        BY <1>0, <3>1, <3>2, StampOnce
    <2> QED
      BY <2>1, <2>2 DEF MarkerInv
  <1> QED
    BY <1>1, <1>2

(* A marker stands for an aged image in every state.                        *)
LEMMA MarkerHolds == Spec => []MarkerInv
  <1>1. Init => MarkerInv
    BY DEF Init, MarkerInv, NoRequest
  <1> QED
    BY <1>1, MarkerStep, TypeCorrect, PTL DEF Spec

(* A marker becomes an image again only when the window is widened.         *)
THEOREM MarkersSafe == Spec => MarkersStay
  <1> DEFINE Stay == Accepts => \A k \in DOMAIN last.parts :
               last.parts[k] = "marker" /\ live # 0 /\ live <= last.live =>
                  last'.parts[k] = "marker"
  <1>1. ASSUME TypeOK, MarkerInv, [Next]_vars PROVE Stay
    <2> SUFFICES ASSUME Accepts, NEW k \in DOMAIN last.parts,
                        last.parts[k] = "marker", live # 0, live <= last.live
                 PROVE  last'.parts[k] = "marker"
      OBVIOUS
    <2>1. PICK c, n : Composes(c, n) /\ last'.parts = Parts(n, seq + 1)
      BY <1>1, AcceptedRequest
    <2>2. /\ k \in 1 .. images /\ first[k] # 0 /\ last.live \in Nat
          /\ last.live <= seq - first[k]
      BY <1>1 DEF MarkerInv
    <2>3. /\ images \in 0 .. MaxImages /\ n \in images .. MaxImages
          /\ MaxImages \in Nat /\ live \in Nat /\ seq \in Nat
      BY <1>1, <2>1, ConstantsAssumption DEF TypeOK, Composes
    <2>4. k \in 1 .. n /\ k \in Ids /\ first[k] \in Nat
      <3>1. k \in 1 .. n /\ k \in Ids
        BY <2>2, <2>3 DEF Ids
      <3> QED
        BY <1>1, <3>1 DEF TypeOK
    <2>5. ~Live(k, seq + 1)
      BY <2>2, <2>3, <2>4 DEF Live
    <2> QED
      BY <2>1, <2>4, <2>5 DEF Parts
  <1> QED
    BY <1>1, MarkerHolds, TypeCorrect, PTL DEF Spec, MarkersStay

(* What has been sent stays as it was sent.                                 *)
THEOREM SentSafe == Spec => SentStays
  <1>1. MarkersStay /\ EchoKept => SentStays
    BY DEF SentStays
  <1> QED
    BY <1>1, MarkersSafe, EchoSafe, PTL

(* ClauseSteady: the clause is true and does not move.                      *)
THEOREM ClausesSafe == Spec => ClauseSteady
  BY ClauseTrue, ClauseSafe DEF ClauseSteady
=============================================================================
